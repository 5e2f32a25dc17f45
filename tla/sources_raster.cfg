SPECIFICATION Spec
CONSTANTS
    None = None
    MaxClock = 4
    MayRaise = {}
    MayOutlive = FALSE
INVARIANTS
    FeaturesOfVector
CHECK_DEADLOCK FALSE
