--------------------------- MODULE MCChunkUpload ---------------------------
(* Instances of ChunkUpload for TLC: numbers of chunks of two files. *)
EXTENDS ChunkUpload, TLC

CONSTANTS f1, f2, p1, p2

TwoAndOne == (f1 :> 2) @@ (f2 :> 1)

(* Processes are alike. *)
Symmetry == Permutations(Procs)
=============================================================================
