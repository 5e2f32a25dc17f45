SPECIFICATION FairSpec
CONSTANTS
    p1 = p1
    p2 = p2
    Procs = {p1, p2}
    Chains = {c1, c2}
    NoChain = NoChain
    Kinds <- OneEditor
    ChainLen = 2
    MayTimeOut = FALSE
    MayRaise = FALSE
PROPERTIES
    RequestEnds
    ChainEnds
    Settles
