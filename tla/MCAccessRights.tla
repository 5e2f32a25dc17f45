--------------------------- MODULE MCAccessRights ---------------------------
(* Instances of AccessRights for TLC: two users and one public workspace,  *)
(* and requests that are alike.                                            *)
EXTENDS AccessRights, TLC

SomeLists == { {"EVERYONE"}, {"ann", "bob", "ROLE"} }

AlikeClients == Permutations(Clients)
=============================================================================
