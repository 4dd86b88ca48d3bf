SPECIFICATION Spec
CONSTANTS
    None = None
    BadPcm = BadPcm
    UnknownModel = UnknownModel
    Models <- MC_OneModel
    LastUtterance = 2
    TurnIds <- MC_Utterances
    Samples <- MC_Utterances
    Chunks <- MC_Chunks
    MaxConfidence = 1
    Threshold = 1
    PARTIAL_CADENCE_MS = 1
    MIN_WINDOW_MS = 1
    MAX_WINDOW_MS = 2
    Durations <- MC_AllDurations
    MaxTs = 0
    MaxSamples = 0
    Lossy = TRUE
    Repeating = TRUE
    Failing = TRUE
    Unwinds = TRUE
    Echoing = TRUE
    MaxChunks = 1
    MaxReloads = 1
    MaxEchoes = 1
    MaxExtras = 1
INVARIANTS
    CrossTalkNeedsLostDelimiters
    AtMostOneVerdict
    ReadTurnsAreAnswered
    NoFeedback
CHECK_DEADLOCK FALSE
