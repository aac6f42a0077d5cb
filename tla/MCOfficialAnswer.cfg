SPECIFICATION Spec
CONSTANTS
    Settings <- MCSettings
    Routes <- MCRoutes
    ToolResponses <- MCToolResponses
    AnalysisResponses <- MCAnalysisResponses
    Generations <- MCGenerations
    AllowedConclusions = {"improved", "unchanged"}
    MaxCited = 1
    Queries <- MCQueries
    Filed <- MCFiled
INVARIANTS
    TypeOK
    RefusalsStand
    AnswersAgree
PROPERTIES
    Replies
CHECK_DEADLOCK FALSE
