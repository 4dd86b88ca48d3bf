SPECIFICATION FairSpec
CONSTANTS
    None = None
    Daemons = {d1, d2}
    SinglePrefix = FALSE
    SessionReacquires = FALSE
    MaxFaults = 2
    MaxOutages = 1
    MaxKills = 1
INVARIANTS
    TypeOK
    ServingMeansConnected
    HoldersHaveTheClaim
    ClaimMeansReady
PROPERTIES
    AlwaysServesAgain
    DeafHoldNoClaim
CHECK_DEADLOCK FALSE
