SPECIFICATION Spec
CONSTANTS
    Rows <- AllRows
    MaxRequests = 4
    MaxFailures = 2
CHECK_DEADLOCK FALSE
INVARIANTS
    CreatesFresh
    ExactlyPublished
    DeletedFromGeoServer
