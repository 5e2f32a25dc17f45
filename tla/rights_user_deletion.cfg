SPECIFICATION Spec
CONSTANTS
    Users = {"ann", "bob"}
    PublicWorkspaces = {"public"}
    Lists <- SomeLists
    Clients = {c1, c2}
    MaxRequests = 3
    MayFail = FALSE
SYMMETRY AlikeClients
CHECK_DEADLOCK FALSE
INVARIANTS
    UserIsWhole
