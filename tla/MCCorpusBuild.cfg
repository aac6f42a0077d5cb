SPECIFICATION MCSpec
CONSTANTS
    Corpora <- MCCorpora
    MaxBuilds = 2
    Groups <- ManyGroups
    Config <- SmallChunks
    MaxStarts = 3
    Samples <- KnownSamples
    Releases <- ThreeReleases
    MaxDeploys = 7
INVARIANTS
    ServedLineageSound
    MigrationWhole
    ChunksDurable
    IndexOfBase
    OneVersionPerEvent
    HitsAttributed
    SeedSound
    PiecesSound
PROPERTIES
    NeverLost
CHECK_DEADLOCK FALSE
