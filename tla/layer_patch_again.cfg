SPECIFICATION Spec
CONSTANTS
    p1 = p1
    p2 = p2
    Procs = {p1, p2}
    Chains = {c1, c2, c3}
    NoChain = NoChain
    Kinds <- TwoPatches
    ChainLen = 2
    MayTimeOut = FALSE
    MayRaise = FALSE
INVARIANTS
    EditedAlone
