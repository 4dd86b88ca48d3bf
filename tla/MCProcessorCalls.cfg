SPECIFICATION Spec
CONSTANTS
    None = None
    BadPcm = BadPcm
    UnknownModel = UnknownModel
    Models <- MC_Models
    Samples <- MC_Samples
    Chunks <- MC_Chunks
    TurnIds <- MC_TurnIds
    MaxConfidence = 1
    Threshold = 1
    PARTIAL_CADENCE_MS = 1
    MIN_WINDOW_MS = 1
    MAX_WINDOW_MS = 2
    MaxTs = 2
    MaxSamples = 2
INVARIANTS
    TypeOK
    ResetFollowsFinalise
PROPERTIES
    ImplementsProcessor
