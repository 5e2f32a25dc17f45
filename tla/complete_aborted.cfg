SPECIFICATION SpecInfo
CONSTANTS
    Last = 2
    MaxRequests = 2
INVARIANTS
    StatusesFinal
CHECK_DEADLOCK FALSE
