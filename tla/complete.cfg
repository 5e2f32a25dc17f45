SPECIFICATION SpecInfo
CONSTANTS
    Last = 2
    MaxRequests = 2
INVARIANTS
    AnswerHolds
CHECK_DEADLOCK FALSE
