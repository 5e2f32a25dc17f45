SPECIFICATION Spec
CONSTANTS
    None = None
    MaxClock = 4
    MayRaise = {"post", "patch", "delete", "task"}
    MayOutlive = TRUE
INVARIANTS
    TypeOK
    Consistent
    InOrder
PROPERTIES
    Repairs
    DeletedWhole
    StyleKept
CHECK_DEADLOCK FALSE
