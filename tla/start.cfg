SPECIFICATION FairStart
CONSTANTS
    g1 = g1
    g2 = g2
    Flask = {g1, g2}
    Celery = {c1}
    Upgrader = u
    MaxAttempts = 2
    MayFail = TRUE
    MaxLaunches = 3
    MaxKills = 1
CHECK_DEADLOCK FALSE
INVARIANTS
    StepsFind
    StartsComplete
PROPERTIES
    ElectsOne
    ComesUp
