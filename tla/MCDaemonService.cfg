SPECIFICATION FairSpec
CONSTANTS
    None = None
    BadPcm = BadPcm
    UnknownModel = UnknownModel
    Models <- MC_Models
    LastUtterance = 2
    TurnIds <- MC_Utterances
    Samples <- MC_Utterances
    Chunks <- MC_Chunks
    MaxConfidence = 1
    Threshold = 1
    PARTIAL_CADENCE_MS = 1
    MIN_WINDOW_MS = 1
    MAX_WINDOW_MS = 2
    Durations <- MC_LongDurations
    MaxTs = 1
    MaxSamples = 0
    Lossy = FALSE
    Repeating = FALSE
    Failing = FALSE
    Unwinds = FALSE
    Echoing = FALSE
    MaxChunks = 1
    MaxReloads = 1
    MaxEchoes = 0
    MaxExtras = 1
INVARIANTS
    TypeOK
    ModelChangesAreAnnounced
PROPERTIES
    EveryTurnIsAnswered
    ReloadIsServed
    StopsWithBus
CHECK_DEADLOCK FALSE
