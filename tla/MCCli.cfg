SPECIFICATION Spec
CONSTANTS
    Models = {m1, m2}
    DefaultModel = m1
    Names = {m1, m2, other}
    Paths = {p1, p2}
    DefaultPath = p1
    Percents <- MCPercents
    DefaultThreshold = 45
    Unset = Unset
    Unreadable = Unreadable
INVARIANTS
    TypeOK
    ThresholdSplits
    NoOtherSettingIsIgnored
CHECK_DEADLOCK FALSE
