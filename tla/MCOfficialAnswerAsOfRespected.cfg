SPECIFICATION Spec
CONSTANTS
    Settings <- MCSettings
    Routes <- MCRoutes
    ToolResponses <- MCToolResponses
    AnalysisResponses <- MCAnalysisResponses
    Generations <- MCGenerations
    AllowedConclusions = {"improved", "unchanged"}
    MaxCited = 1
    Queries <- MCQueries
    Filed <- MCFiled
INVARIANT
    AsOfRespected
CHECK_DEADLOCK FALSE
