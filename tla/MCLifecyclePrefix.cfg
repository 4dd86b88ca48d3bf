SPECIFICATION Spec
CONSTANTS
    None = None
    Daemons = {d1}
    SinglePrefix = TRUE
    SessionReacquires = TRUE
    MaxFaults = 0
    MaxOutages = 0
    MaxKills = 0
INVARIANTS
    SpeechIsSubscribed
CHECK_DEADLOCK FALSE
