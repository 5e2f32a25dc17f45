------------------------------- MODULE MCMaps -------------------------------
(* Instance of Maps for TLC: a map that loses its layer and gets it back.  *)
(* The layer is behind a foreign one, so that the index of its row may be  *)
(* beyond a file that has the foreign one only.  The two users are alike.  *)
EXTENDS Maps, TLC

CONSTANTS u1, u2, l1, external

MCLayouts == {<<external, l1>>, <<external>>}
Symmetry == Permutations(Actor)
=============================================================================
