SPECIFICATION Spec
CONSTANTS
    p1 = p1
    p2 = p2
    Procs = {p1, p2}
    Chains = {c1, c2, c3}
    NoChain = NoChain
    Kinds <- OneEditor
    ChainLen = 3
    MayTimeOut = FALSE
    MayRaise = FALSE
SYMMETRY Symmetry
INVARIANTS
    TypeOK
    ChainUnderLock
    EditedAlone
    RedisConsistent
    StepAwaited
    PreparingAwaited
