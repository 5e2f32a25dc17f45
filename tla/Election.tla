------------------------------ MODULE Election ------------------------------
(***************************************************************************)
(* What the key LAYMAN_DEPS_ADJUSTED promises to the processes of Layman   *)
(* that start at the same time: one of them adjusts the dependencies, and  *)
(* nobody serves before it has.  Start implements it.                      *)
(***************************************************************************)
CONSTANT Procs

VARIABLES
    phase,      \* "none", "processing" or "done"
    adjusting,  \* the processes that adjust the dependencies
    started     \* the processes that serve

vars == <<phase, adjusting, started>>

Init == phase = "none" /\ adjusting = {} /\ started = {}

Elect(p) ==
    /\ phase = "none" /\ adjusting = {}
    /\ phase' = "processing" /\ adjusting' = {p}
    /\ UNCHANGED started

(* The elected one has adjusted everything; the standalone upgrade does not *)
(* serve then.                                                              *)
Finish(p) ==
    /\ adjusting = {p} /\ phase = "processing"
    /\ phase' = "done" /\ adjusting' = {}
    /\ started' \in {started, started \cup {p}}

Serve(p) ==
    /\ phase = "done"
    /\ started' = started \cup {p}
    /\ UNCHANGED <<phase, adjusting>>

(* The elected one is lost: nobody else is elected until the next launch.  *)
Lose(p) ==
    /\ adjusting = {p} /\ phase = "processing"
    /\ adjusting' = {} /\ started' \in SUBSET started
    /\ UNCHANGED phase

Stop ==
    /\ started' \in SUBSET started
    /\ UNCHANGED <<phase, adjusting>>

Launch == phase' = "none" /\ adjusting' = {} /\ started' = {}

Next == Launch \/ Stop \/ \E p \in Procs : Elect(p) \/ Finish(p) \/ Serve(p) \/ Lose(p)

Spec == Init /\ [][Next]_vars
=============================================================================
