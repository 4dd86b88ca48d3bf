SPECIFICATION Spec
CONSTANTS
    None = None
    BadPcm = BadPcm
    Empty = Empty
    UnknownModel = UnknownModel
    Models <- MC_Models
    Samples <- MC_Samples
    Chunks <- MC_Chunks
    TurnIds = {}
    Unit = "unit"
    FixedConfidence = 3
    MaxConfidence = 4
    MaxChunks = 10
PROPERTIES
    UnparseableIsRefused
