SPECIFICATION Spec
CONSTANTS
    u1 = u1
    u2 = u2
    l1 = l1
    external = external
    Actor = {u1, u2}
    Layer = {l1}
    External = external
    Layouts <- MCLayouts
    MaxRequests = 3
    MaxChanges = 1
    MaxEdits = 1
    MaxFailures = 1
SYMMETRY Symmetry
CHECK_DEADLOCK FALSE
INVARIANTS
    ThumbnailCurrent
    RecordKept
