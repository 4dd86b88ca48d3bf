SPECIFICATION Spec
CONSTANTS
    None = None
    BadPcm = BadPcm
    UnknownModel = UnknownModel
    Models <- MC_Models
    Samples <- MC_Samples
    Chunks <- MC_Chunks
    TurnIds = {}
    MaxConfidence <- MC_MaxConfidence
    WHISPER_MIN_SAMPLES <- MC_MinSamples
    PARTIAL_BUFFER_MAX_SAMPLES <- MC_MaxWindow
    Unwinds = TRUE
    MaxSamples <- MC_MaxSamples
INVARIANTS
    TypeOK
    OneModel
    WindowIsLatest
    NoStalePartial
    VerdictIsWhole
PROPERTIES
    ImplementsContract
