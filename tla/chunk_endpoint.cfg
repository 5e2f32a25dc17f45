SPECIFICATION Spec
CONSTANTS
    f1 = f1
    f2 = f2
    p1 = p1
    p2 = p2
    Files = {f1, f2}
    Total <- TwoAndOne
    None = None
    Procs = {p1, p2}
    MaxUploads = 2
    MaxIdle = 1
    MayOutlive = FALSE
INVARIANTS
    EndpointActive
CHECK_DEADLOCK FALSE
