SPECIFICATION Spec
CONSTANTS
    LineCount = 6
    Limit = 5
    BatchSize = 2
    Malformed <- MCMalformed
    MaxCrashes = 3
INVARIANTS
    TypeOK
    Recoverable
    PublishedValid
PROPERTIES
    ImplementsEmbeddingLedger
    EventuallyComplete
CHECK_DEADLOCK FALSE
