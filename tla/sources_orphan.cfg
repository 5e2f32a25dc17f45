SPECIFICATION Spec
CONSTANTS
    None = None
    MaxClock = 4
    MayRaise = {}
    MayOutlive = TRUE
INVARIANTS
    NoOrphanRecord
CHECK_DEADLOCK FALSE
