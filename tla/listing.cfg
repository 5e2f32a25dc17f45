SPECIFICATION Spec
CONSTANTS
    Publications <- ThreePublications
    Titles = {1, 2}
    Boxes <- TwoBoxes
    TextRank <- Ranks
    Lists <- SomeLists
    Actor = "actor"
    ActorRoles <- Roles
    OwnWorkspace <- OwnWorkspaces
    Tables <- SomeTables
    Requests <- SomeRequests
    MaxChanges = 2
INVARIANTS
    ListedWhole
CHECK_DEADLOCK FALSE
