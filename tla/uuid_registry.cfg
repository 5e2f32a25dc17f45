SPECIFICATION FairSpec
CONSTANTS
    Names = {l1, m1}
    Maps = {m1}
    Uuids = {u1, u2}
    None = None
    Procs = {p1, p2, p3}
    Deleters = {p1}
    MayRaise = TRUE
INVARIANTS
    TypeOK
    RowsRegistered
    RegisteredOnce
    KeysAgree
    LayerLocked
PROPERTIES
    RequestsEnd
