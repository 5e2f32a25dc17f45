SPECIFICATION Spec
CONSTANTS
    p1 = p1
    p2 = p2
    Procs = {p1}
    Chains = {c1, c2}
    NoChain = NoChain
    Kinds <- PostAndDelete
    ChainLen = 2
    MayTimeOut = FALSE
    MayRaise = TRUE
INVARIANTS
    AbortAsserted
