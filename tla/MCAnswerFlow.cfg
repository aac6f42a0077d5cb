SPECIFICATION Spec
CONSTANTS
    Settings <- MCSettings
    Routes <- MCRoutes
    ToolResponses <- MCToolResponses
    AnalysisResponses <- MCAnalysisResponses
    Generations <- MCGenerations
    AllowedConclusions = {"improved", "unchanged"}
    MaxCited = 1
INVARIANTS
    TypeOK
    AnswersGrounded
    ReceiptsShown
    ProviderCallsGated
    JudgmentsBounded
PROPERTIES
    Returns
CHECK_DEADLOCK FALSE
