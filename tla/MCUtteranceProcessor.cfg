SPECIFICATION Spec
CONSTANTS
    None = None
    BadPcm = BadPcm
    UnknownModel = UnknownModel
    Models <- MC_Models
    Samples <- MC_Samples
    Chunks <- MC_Chunks
    TurnIds <- MC_TurnIds
    MaxConfidence <- MC_MaxConfidence
    Threshold <- MC_Threshold
    PARTIAL_CADENCE_MS <- MC_Cadence
    MIN_WINDOW_MS <- MC_MinWindow
    MAX_WINDOW_MS <- MC_MaxWindow
    MaxTs <- MC_MaxTs
    MaxSamples <- MC_MaxSamples
INVARIANTS
    TypeOK
    QuietWhenIdle
    PendingOnlyWhileSpeaking
    PartialRate
PROPERTIES
    ReloadNeverForgotten
    ImplementsUtterance
