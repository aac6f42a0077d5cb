CONSTANTS
    None = None
    Workers = {w1, w2}
    People = {kim, lee}
    Reviews <- OneReview
    Annotations <- ThreeAnnotations
    Corpora <- TwoCorpora
    MaxRevision = 2
    MaxDecisions = 2
    Editors = {w1, w2}
    Contents <- TwoCases
    Answers <- SixAnswers
    MaxCases = 2
    MaxRuns = 2
SPECIFICATION WorkspaceSpec
PROPERTIES
    ApprovedImmutable
CHECK_DEADLOCK FALSE
