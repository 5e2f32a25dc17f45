SPECIFICATION Spec
CONSTANTS
    p1 = p1
    p2 = p2
    Procs = {p1, p2}
    Chains = {c1, c2}
    NoChain = NoChain
    Kinds <- EditsAndDelete
    ChainLen = 2
    MayTimeOut = TRUE
    MayRaise = TRUE
SYMMETRY Symmetry
INVARIANTS
    LockOwned
