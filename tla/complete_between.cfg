SPECIFICATION SpecInfo
CONSTANTS
    Last = 2
    MaxRequests = 2
PROPERTIES
    CompleteIsUpToDate
CHECK_DEADLOCK FALSE
