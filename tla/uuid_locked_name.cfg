SPECIFICATION Spec
CONSTANTS
    Names = {l1}
    Maps = {}
    Uuids = {u1, u2}
    None = None
    Procs = {p1, p2}
    Deleters = {p1}
    MayRaise = FALSE
INVARIANTS
    NothingLeft
