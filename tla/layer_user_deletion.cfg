SPECIFICATION Spec
CONSTANTS
    p1 = p1
    p2 = p2
    Procs = {p1}
    Chains = {c1, c2, c3}
    NoChain = NoChain
    Kinds <- UserDeletionAndFeatures
    ChainLen = 2
    MayTimeOut = FALSE
    MayRaise = FALSE
INVARIANTS
    StepAwaited
