---------------------------- MODULE MCLayerChain ----------------------------
(* Instances of LayerChain for TLC: what the clients send to each process. *)
EXTENDS LayerChain, TLC

CONSTANTS p1, p2

(* All the requests that edit the layer come one after another, through    *)
(* p1; WFS-T and POST may come at any time.                                *)
OneEditor ==
    (p1 :> {"post", "patch", "delete", "bulk_delete", "wfst"}) @@ (p2 :> {"post", "wfst"})

(* All edits of the layer, and two DELETEs at once. *)
EditsAndDelete ==
    (p1 :> {"post", "patch", "sync_patch", "delete"}) @@ (p2 :> {"delete"})

TwoPatches == (p1 :> {"patch"}) @@ (p2 :> {"patch"})

UserDeletionAndFeatures == p1 :> {"sync_patch", "wfst"}

PostAndDelete == p1 :> {"post", "delete"}

(* Ids of chains mean nothing. *)
Symmetry == Permutations(Chains)
=============================================================================
