SPECIFICATION Spec
CONSTANTS
    Settings <- MCSettings
    Routes <- MCRoutes
    ToolResponses <- MCToolResponses
    AnalysisResponses <- MCAnalysisResponses
    Generations <- MCGenerations
    AllowedConclusions = {"improved", "unchanged"}
    MaxCited = 1
CHECK_DEADLOCK FALSE
INVARIANT
    ServerAnswersGrounded
