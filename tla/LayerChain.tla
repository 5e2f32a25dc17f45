----------------------------- MODULE LayerChain -----------------------------
(***************************************************************************)
(* The concurrency control of one layer of Layman: the write lock, the     *)
(* Celery chain that processes the layer and the queue of steps to be run  *)
(* after the chain.                                                        *)
(*                                                                         *)
(* Everything a layer's requests and tasks agree on is kept in Redis under *)
(* the layer's hash "workspace:type:name": the lock (common/redis.py), the *)
(* info on its last chain, the id of the chain's last task, and the steps  *)
(* to run after the chain (celery.py).  Requests are handled by Flask      *)
(* processes (Procs), tasks by Celery workers; a request may wait for      *)
(* tasks when it aborts a chain.                                           *)
(*                                                                         *)
(* One step of the model is what a process or a worker does between two    *)
(* waits (for a task, for another server, for the client): solving the     *)
(* lock, the synchronous part of a request, the epilogue of the lock       *)
(* decorator, one round of the abort loop, one state change of a task, the *)
(* halves of task_postrun.                                                 *)
(*                                                                         *)
(* Definitions marked as faulty are variants of the ones that follow them, *)
(* with a plausible bug; they show that the properties would notice it.    *)
(***************************************************************************)
EXTENDS Naturals, FiniteSets

CONSTANTS
    Chains,      \* ids of chains; an id is reused when nothing refers to it
    NoChain,     \* the null id
    Procs,       \* Flask processes, each handles one request at a time
    Kinds,       \* Kinds[p]: the kinds of requests that clients send to process p
    ChainLen,    \* number of tasks of a chain that publishes or refreshes data
    MayTimeOut,  \* may a wait for a task end before the task does?
    MayRaise     \* may the synchronous part of a request raise an exception?

AllKinds == {"post", "patch", "delete", "wfst", "sync_patch", "bulk_delete"}

ASSUME LayerChainAssumption ==
    /\ NoChain \notin Chains
    /\ Kinds \in [Procs -> SUBSET AllKinds]
    /\ ChainLen \in Nat /\ ChainLen >= 2
    /\ MayTimeOut \in BOOLEAN
    /\ MayRaise \in BOOLEAN

VARIABLES
    lock,       \* PUBLICATION_LOCKS: the layer's lock
    info,       \* PUBLICATION_CHAIN_INFOS: the layer's last chain
    lastTasks,  \* LAST_TASK_ID_IN_CHAIN_TO_PUBLICATION: chains whose last task is there
    runAfter,   \* RUN_AFTER_CHAIN: is the only step there is, patch_after_feature_change, queued?
    chain,      \* the chains themselves: messages, running tasks and stored results
    exists,     \* is the layer in prime DB schema?
    status,     \* column wfs_wms_status of the layer
    proc        \* what each Flask process is doing

vars == <<lock, info, lastTasks, runAfter, chain, exists, status, proc>>

-----------------------------------------------------------------------------
(* State space.                                                            *)

NoLock == "none"
Locks == {NoLock, "post", "patch", "delete", "feature_change"}

(* States of Celery results.  ABORTED is set by AbortableAsyncResult only; *)
(* it is not one of the states ready() accepts.                            *)
TaskStates == {"PENDING", "STARTED", "SUCCESS", "FAILURE", "ABORTED"}
ReadyStates == {"SUCCESS", "FAILURE"}
ChainStates == {"PENDING", "SUCCESS", "FAILURE", "ABORTED"}

(* "publish" chains of POST, and of PATCH that changes data or style;      *)
(* "metadata" chain of any other PATCH, which has the micka.soap task      *)
(* only; "refresh" chain of patch_after_feature_change.                    *)
ChainKinds == {"publish", "metadata", "refresh"}

(* Where the task at position pos is: its message waits in the broker; a   *)
(* worker runs it; its result is stored and task_postrun is to be called;  *)
(* task_postrun has finished the chain, and is to run the next one or to   *)
(* set the status after the failure; the chain is done with.               *)
Phases == {"queued", "running", "stored", "run_next", "set_status", "over"}

Positions == 1..ChainLen

ChainRecord == [kind : ChainKinds, pos : Positions, phase : Phases,
                result : [Positions -> TaskStates]]

ChainInfo == [id : Chains \cup {NoChain}, finished : BOOLEAN, state : ChainStates]

NoInfo == [id |-> NoChain, finished |-> TRUE, state |-> "SUCCESS"]

Statuses == {"none", "PREPARING", "AVAILABLE", "NOT_AVAILABLE"}

(* Where a request is:  "get_chain": about to look for the chain to abort; *)
(* "abort": in the loop of abort_task_chain; "assert": about to read the   *)
(* state of a task just aborted; "result": waiting for the result of an    *)
(* aborted task; "finish": in wait_for_abort; "body": in the synchronous   *)
(* part, the lock being held; "epilogue": the chain was started, the       *)
(* response is being prepared.                                             *)
Pcs == {"idle", "get_chain", "abort", "assert", "result", "finish", "body", "epilogue"}

ProcRecord == [pc : Pcs, kind : AllKinds, target : Chains \cup {NoChain},
               at : 1..ChainLen + 1, gone : BOOLEAN]

(* gone: the layer the request is about was deleted during the request; a  *)
(* layer posted later under the same name has another uuid.                *)
Idle == [pc |-> "idle", kind |-> "patch", target |-> NoChain, at |-> 1, gone |-> FALSE]

(* The lock is one of the kinds that somebody releases, and Redis, the row *)
(* and the processes hold what they are to hold.                           *)
(* Code: common/redis.py and celery.py.                                    *)
TypeOK ==
    /\ lock \in Locks
    /\ info \in ChainInfo
    /\ lastTasks \in SUBSET Chains
    /\ runAfter \in BOOLEAN
    /\ chain \in [Chains -> ChainRecord]
    /\ exists \in BOOLEAN
    /\ status \in Statuses
    /\ proc \in [Procs -> ProcRecord]

-----------------------------------------------------------------------------
(* Chains and their info.                                                  *)

LastPos(kind) == IF kind = "metadata" THEN 1 ELSE ChainLen

TasksOf(c) == 1..LastPos(chain[c].kind)

(* Faulty: the chain has no task that sets the status. *)
StatusPosMissing == 0

(* The task prime_db_schema.wfs_wms_status of a publish chain; of the      *)
(* tasks behind it, thumbnail and micka.soap, one is kept.                 *)
StatusPos == ChainLen - 1

(* Tasks of the chain still run, or will. *)
Live(c) == chain[c].phase \in {"queued", "running", "stored"}

ResultsReady(c) ==
    \/ chain[c].result[LastPos(chain[c].kind)] = "SUCCESS"
    \/ \E i \in TasksOf(c) : chain[c].result[i] = "FAILURE"

(* is_chain_ready of the recorded chain; no record counts as ready. *)
IsChainReady ==
    info.id # NoChain /\ info.state = "PENDING" => ResultsReady(info.id)

(* get_publication_chain_info does not wait for task_postrun. *)
ChainInfoSettled == info.id = NoChain \/ info.finished \/ ~IsChainReady

(* Ids that nothing refers to when the chains are ch, the registered last  *)
(* tasks last, and the recorded chain is about to be replaced.             *)
FreeChains(last, ch) ==
    {c \in Chains : ch[c].phase = "over" /\ c \notin last /\ \A p \in Procs : proc[p].target # c}

NewChain(kind) == [kind |-> kind, pos |-> 1, phase |-> "queued",
                   result |-> [i \in Positions |-> "PENDING"]]

(* An id Celery knows nothing of. *)
Unsent == [NewChain("metadata") EXCEPT !.phase = "over"]

(* A chain is started, and set_publication_chain_info records it; last is  *)
(* what the rest of the step leaves in lastTasks, ch what it leaves in     *)
(* chain.                                                                  *)
StartChain(kind, last, ch) ==
    \E c \in FreeChains(last, ch) :
        /\ chain' = [ch EXCEPT ![c] = NewChain(kind)]
        /\ info' = [id |-> c, finished |-> FALSE, state |-> "PENDING"]
        /\ lastTasks' = last \cup {c}

(* Faulty: the queued step is never run. *)
RunNextChainNever(l, newInfo, last, ch) ==
    /\ lock' = l
    /\ info' = newInfo
    /\ lastTasks' = last
    /\ chain' = ch
    /\ UNCHANGED runAfter

(* run_next_chain, called when the lock is l: the queued step is popped    *)
(* and patch_after_feature_change is called.  If the layer is locked, the  *)
(* step is pushed back.                                                    *)
RunNextChain(l, newInfo, last, ch) ==
    \/ /\ runAfter
       /\ l = NoLock
       /\ StartChain("refresh", last, ch)
       /\ lock' = "feature_change"
       /\ runAfter' = FALSE
    \/ /\ ~runAfter \/ l # NoLock
       /\ lock' = l
       /\ info' = newInfo
       /\ lastTasks' = last
       /\ chain' = ch
       /\ UNCHANGED runAfter

-----------------------------------------------------------------------------
(* The lock decorator and its relatives around the synchronous part.       *)

(* Requests of which the lock is taken by the decorator run the next       *)
(* chain; patch_publication and delete_workspace_publication do not.       *)
RunsNext(kind) == kind \in {"patch", "delete"}

UnlockAndRunNext(p) ==
    \/ /\ RunsNext(proc[p].kind)
       /\ RunNextChain(NoLock, info, lastTasks, chain)
    \/ /\ ~RunsNext(proc[p].kind)
       /\ lock' = NoLock
       /\ UNCHANGED <<info, lastTasks, chain, runAfter>>

(* Faulty: without the finally branch. *)
UnlockAfterExceptionIfReady(p, ready, newInfo, last) ==
    /\ lock' = IF ready THEN NoLock ELSE lock
    /\ info' = newInfo
    /\ lastTasks' = last
    /\ UNCHANGED <<chain, runAfter>>

(* What is done when the function raised.  If the decorator finds the      *)
(* chain ready, the layer is unlocked and the next chain run, and then, in *)
(* the finally branch, both are done again: the lock that the next chain   *)
(* has just taken is dropped.  Otherwise the finally branch alone is run.  *)
UnlockAfterException(p, ready, newInfo, last) ==
    \/ /\ RunsNext(proc[p].kind) /\ runAfter
       /\ StartChain("refresh", last, chain)
       /\ lock' = IF ready THEN NoLock ELSE "feature_change"
       /\ runAfter' = FALSE
    \/ /\ ~(RunsNext(proc[p].kind) /\ runAfter)
       /\ lock' = NoLock
       /\ info' = newInfo
       /\ lastTasks' = last
       /\ UNCHANGED <<chain, runAfter>>

Become(p, pc) == proc' = [proc EXCEPT ![p].pc = pc]
Finish(p) == proc' = [proc EXCEPT ![p] = Idle]

(* celery.delete_publication forgets the recorded chain. *)
ForgetLast == lastTasks \ {info.id}

(* REST handlers find the layer by uuid, the other functions by its name. *)
Missing(p) == IF RunsNext(proc[p].kind) THEN proc[p].gone ELSE ~exists

(* The decorator looks the chain up by uuid: a deleted layer has none. *)
LookupSettled(p) == ~(RunsNext(proc[p].kind) /\ proc[p].gone) => ChainInfoSettled
LookupReadyAlways(p) == TRUE  \* faulty: the lock is released though the chain runs
LookupReady(p) == ~(RunsNext(proc[p].kind) /\ proc[p].gone) => IsChainReady

(* The common end of a request that raised.  The exception path of         *)
(* patch_publication looks the chain up by the publication object instead  *)
(* of its name, so it never waits.                                         *)
Raised(p) ==
    /\ proc[p].kind = "sync_patch" \/ LookupSettled(p) \/ MayTimeOut
    /\ UnlockAfterException(p, LookupSettled(p) /\ LookupReady(p), info, lastTasks)
    /\ Finish(p)
    /\ UNCHANGED <<exists, status>>

-----------------------------------------------------------------------------
(* Requests of the clients.                                                *)

(* POST: the name is free and registered, and the layer is locked.  POST   *)
(* of a locked name ends with an exception.                                *)
Post(p) ==
    /\ "post" \in Kinds[p]
    /\ proc[p].pc = "idle"
    /\ ~exists
    /\ \A q \in Procs : ~(proc[q].kind = "post" /\ proc[q].pc = "body")
    /\ lock = NoLock
    /\ lock' = "post"
    /\ proc' = [proc EXCEPT ![p] = [Idle EXCEPT !.pc = "body", !.kind = "post"]]
    /\ UNCHANGED <<info, lastTasks, runAfter, chain, exists, status>>

PostBody(p) ==
    /\ proc[p].pc = "body" /\ proc[p].kind = "post"
    /\ exists' = TRUE
    /\ status' = "PREPARING"
    /\ StartChain("publish", lastTasks, chain)
    /\ Finish(p)
    /\ UNCHANGED <<lock, runAfter>>

(* The row may or may not be inserted by then. *)
PostRaises(p) ==
    /\ MayRaise
    /\ proc[p].pc = "body" /\ proc[p].kind = "post"
    /\ ChainInfoSettled \/ MayTimeOut
    /\ \/ exists' = TRUE /\ status' = "PREPARING"
       \/ UNCHANGED <<exists, status>>
    /\ lock' = NoLock
    /\ Finish(p)
    /\ UNCHANGED <<info, lastTasks, runAfter, chain>>

(* PATCH: create_lock.  Error 49 under any lock but feature_change, whose  *)
(* chain is aborted first.                                                 *)
Patch(p, kind) ==
    /\ kind \in Kinds[p] \cap {"patch", "sync_patch"}
    /\ proc[p].pc = "idle"
    /\ exists
    /\ \/ /\ lock = NoLock
          /\ lock' = "patch"
          /\ proc' = [proc EXCEPT ![p] = [Idle EXCEPT !.pc = "body", !.kind = kind]]
       \/ /\ lock = "feature_change"
          /\ proc' = [proc EXCEPT ![p] = [Idle EXCEPT !.pc = "get_chain", !.kind = kind]]
          /\ UNCHANGED lock
    /\ UNCHANGED <<info, lastTasks, runAfter, chain, exists, status>>

(* PATCH of data or style: what depends on them is deleted, the chain info *)
(* included, and published again.                                          *)
PatchData(p) ==
    /\ proc[p].pc = "body" /\ proc[p].kind = "patch"
    /\ ~Missing(p)
    /\ status' = "PREPARING"
    /\ StartChain("publish", ForgetLast, chain)
    /\ Become(p, "epilogue")
    /\ UNCHANGED <<lock, runAfter, exists>>

(* PATCH of other properties. *)
PatchMetadata(p) ==
    /\ proc[p].pc = "body" /\ proc[p].kind = "patch"
    /\ ~Missing(p)
    /\ StartChain("metadata", lastTasks, chain)
    /\ Become(p, "epilogue")
    /\ UNCHANGED <<lock, runAfter, exists, status>>

(* patch_publication of user deletion has no asynchronous part. *)
PatchSyncOnly(p) ==
    /\ proc[p].pc = "body" /\ proc[p].kind = "sync_patch"
    /\ ~Missing(p)
    /\ Become(p, "epilogue")
    /\ UNCHANGED <<lock, info, lastTasks, runAfter, chain, exists, status>>

(* Raised by a check, before anything is changed. *)
PatchRaises(p) ==
    /\ proc[p].pc = "body" /\ proc[p].kind \in {"patch", "sync_patch"}
    /\ MayRaise \/ Missing(p)
    /\ Raised(p)

(* Raised after the layer was set to PREPARING, before the chain starts. *)
PatchDataRaises(p) ==
    /\ MayRaise
    /\ proc[p].pc = "body" /\ proc[p].kind = "patch"
    /\ ~Missing(p)
    /\ status' = "PREPARING"
    /\ UnlockAfterException(p, TRUE, NoInfo, ForgetLast)
    /\ Finish(p)
    /\ UNCHANGED exists

Epilogue(p) ==
    /\ proc[p].pc = "epilogue"
    /\ \/ /\ LookupSettled(p) /\ LookupReady(p)
          /\ UnlockAndRunNext(p)
       \/ /\ LookupSettled(p) /\ ~LookupReady(p)
          /\ UNCHANGED <<lock, info, lastTasks, runAfter, chain>>
    /\ Finish(p)
    /\ UNCHANGED <<exists, status>>

(* Raised while the response is being prepared, or because task_postrun    *)
(* was waited for too long.                                                *)
ResponseRaises(p) ==
    /\ proc[p].pc = "epilogue"
    /\ MayRaise \/ Missing(p) \/ ~LookupSettled(p)
    /\ Raised(p)

(* DELETE takes the lock whatever it is and aborts the chain. *)
Delete(p, kind) ==
    /\ kind \in Kinds[p] \cap {"delete", "bulk_delete"}
    /\ proc[p].pc = "idle"
    /\ exists
    /\ lock' = "delete"
    /\ proc' = [proc EXCEPT ![p] = [Idle EXCEPT !.pc = "get_chain", !.kind = kind]]
    /\ UNCHANGED <<info, lastTasks, runAfter, chain, exists, status>>

DeleteBody(p) ==
    /\ proc[p].pc = "body" /\ proc[p].kind \in {"delete", "bulk_delete"}
    /\ RunsNext(proc[p].kind) => ~proc[p].gone
    /\ exists' = FALSE
    /\ status' = "none"
    /\ \/ /\ RunsNext(proc[p].kind)
          /\ RunNextChain(NoLock, NoInfo, ForgetLast, chain)
       \/ /\ ~RunsNext(proc[p].kind)
          /\ lock' = NoLock
          /\ info' = NoInfo
          /\ lastTasks' = ForgetLast
          /\ UNCHANGED <<chain, runAfter>>
    /\ proc' = [q \in Procs |-> IF q = p \/ proc[q].pc = "idle" THEN Idle
                                ELSE [proc[q] EXCEPT !.gone = TRUE]]

(* Raised by some source; the row of the layer is the last to be deleted. *)
DeleteRaises(p) ==
    /\ MayRaise \/ (RunsNext(proc[p].kind) /\ proc[p].gone)
    /\ proc[p].pc = "body" /\ proc[p].kind \in {"delete", "bulk_delete"}
    /\ Raised(p)

(* WFS-T: features were changed, patch_after_feature_change is called. *)
FeatureChange(p) ==
    /\ "wfst" \in Kinds[p]
    /\ proc[p].pc = "idle"
    /\ exists
    /\ \/ /\ lock = NoLock
          /\ lock' = "feature_change"
          /\ StartChain("refresh", lastTasks, chain)
          /\ UNCHANGED runAfter
       \/ /\ lock # NoLock
          /\ runAfter' = TRUE
          /\ UNCHANGED <<lock, info, lastTasks, chain>>
    /\ UNCHANGED <<exists, status, proc>>

-----------------------------------------------------------------------------
(* abort_publication_chain, called by PATCH over a WFS-T chain and by      *)
(* DELETE.                                                                 *)

(* Steps are cleared.  PATCH pushes its own and takes the lock. *)
Aborted(p, newInfo) ==
    /\ info' = newInfo
    /\ IF proc[p].kind \in {"patch", "sync_patch"}
          THEN runAfter' = TRUE /\ lock' = "patch"
          ELSE runAfter' = FALSE /\ UNCHANGED lock
    /\ proc' = [proc EXCEPT ![p].pc = "body"]

(* The lock of PATCH is not taken yet, so nothing is released. *)
AbortRaises(p) ==
    /\ IF proc[p].kind \in {"patch", "sync_patch"}
          THEN UNCHANGED <<lock, info, lastTasks, runAfter, chain>>
          ELSE UnlockAfterException(p, LookupSettled(p) /\ LookupReady(p), info, lastTasks)
    /\ Finish(p)

GetChain(p) ==
    /\ proc[p].pc = "get_chain"
    /\ ~(proc[p].kind = "delete" /\ proc[p].gone)
    /\ \/ /\ ChainInfoSettled /\ IsChainReady
          /\ Aborted(p, info)
          /\ UNCHANGED <<lastTasks, chain>>
       \/ /\ ChainInfoSettled /\ ~IsChainReady
          /\ proc' = [proc EXCEPT ![p].pc = "abort", ![p].target = info.id, ![p].at = 1]
          /\ UNCHANGED <<lock, info, lastTasks, runAfter, chain>>
       \/ /\ ~ChainInfoSettled /\ MayTimeOut
          /\ AbortRaises(p)
    /\ UNCHANGED <<exists, status>>

(* abort_layer_chain_by_uuid raises if the layer has been deleted. *)
GetChainRaises(p) ==
    /\ proc[p].pc = "get_chain"
    /\ proc[p].kind = "delete" /\ proc[p].gone
    /\ AbortRaises(p)
    /\ UNCHANGED <<exists, status>>

(* One round of the loop over the tasks; only a started task is waited for. *)
AbortTask(p) ==
    LET c == proc[p].target
        i == proc[p].at
    IN  /\ proc[p].pc = "abort"
        /\ \/ /\ i \notin TasksOf(c)
              /\ proc' = [proc EXCEPT ![p].pc = "finish", ![p].target = NoChain]
              /\ UNCHANGED chain
           \/ /\ i \in TasksOf(c) /\ chain[c].result[i] \in ReadyStates
              /\ proc' = [proc EXCEPT ![p].at = i + 1]
              /\ UNCHANGED chain
           \/ /\ i \in TasksOf(c) /\ chain[c].result[i] \notin ReadyStates
              /\ chain' = [chain EXCEPT ![c].result[i] = "ABORTED"]
              /\ proc' = IF chain[c].result[i] = "STARTED"
                           THEN [proc EXCEPT ![p].pc = "result"]
                           ELSE [proc EXCEPT ![p].at = i + 1]
        /\ UNCHANGED <<lock, info, lastTasks, runAfter, exists, status>>

(* The task is not started yet when it is aborted, so it may be before its *)
(* state is asserted.                                                      *)
AbortPending(p) ==
    LET c == proc[p].target
        i == proc[p].at
    IN  /\ MayRaise
        /\ proc[p].pc = "abort"
        /\ i \in TasksOf(c) /\ chain[c].result[i] = "PENDING"
        /\ chain' = [chain EXCEPT ![c].result[i] = "ABORTED"]
        /\ proc' = [proc EXCEPT ![p].pc = "assert"]
        /\ UNCHANGED <<lock, info, lastTasks, runAfter, exists, status>>

AssertAborted(p) ==
    LET state == chain[proc[p].target].result[proc[p].at]
    IN  /\ proc[p].pc = "assert"
        /\ \/ /\ state \in {"ABORTED"} \cup ReadyStates
              /\ proc' = [proc EXCEPT ![p].pc = "abort", ![p].at = @ + 1]
              /\ UNCHANGED <<lock, info, lastTasks, runAfter, chain>>
           \/ /\ state \notin {"ABORTED"} \cup ReadyStates
              /\ AbortRaises(p)
        /\ UNCHANGED <<exists, status>>

AwaitResult(p) ==
    /\ proc[p].pc = "result"
    /\ MayTimeOut \/ chain[proc[p].target].result[proc[p].at] \in ReadyStates
    /\ proc' = [proc EXCEPT ![p].pc = "abort", ![p].at = @ + 1]
    /\ UNCHANGED <<lock, info, lastTasks, runAfter, chain, exists, status>>

(* Faulty: set_publication_chain_finished without wait_for_abort. *)
WaitForAbortNot(p) ==
    /\ proc[p].pc = "finish"
    /\ info.id # NoChain
    /\ Aborted(p, [info EXCEPT !.finished = TRUE, !.state = "ABORTED"])
    /\ UNCHANGED <<lastTasks, chain, exists, status>>

(* wait_for_abort reads whatever chain is recorded now; so does            *)
(* set_publication_chain_finished, and both raise if there is none.        *)
WaitForAbort(p) ==
    /\ proc[p].pc = "finish"
    /\ \/ /\ info.id # NoChain
          /\ info.finished \/ MayTimeOut
          /\ Aborted(p, [info EXCEPT !.finished = TRUE, !.state = "ABORTED"])
          /\ UNCHANGED <<lastTasks, chain>>
       \/ /\ info.id = NoChain
          /\ AbortRaises(p)
    /\ UNCHANGED <<exists, status>>

-----------------------------------------------------------------------------
(* Celery workers.                                                         *)

(* STARTED replaces any state but SUCCESS, ABORTED too. *)
TaskPrerun(c) ==
    /\ chain[c].phase = "queued"
    /\ chain' = [chain EXCEPT ![c].phase = "running", ![c].result[chain[c].pos] = "STARTED"]
    /\ UNCHANGED <<lock, info, lastTasks, runAfter, exists, status, proc>>

(* The task returns; Celery sends the next task of the chain. *)
TaskSucceeds(c) ==
    /\ chain[c].phase = "running"
    /\ chain' = [chain EXCEPT
          ![c].result[chain[c].pos] = "SUCCESS",
          ![c].phase = IF chain[c].pos = LastPos(chain[c].kind) THEN "stored" ELSE "queued",
          ![c].pos = IF chain[c].pos = LastPos(chain[c].kind) THEN @ ELSE @ + 1]
    /\ status' = IF chain[c].kind = "publish" /\ chain[c].pos = StatusPos /\ exists
                    THEN "AVAILABLE" ELSE status
    /\ UNCHANGED <<lock, info, lastTasks, runAfter, exists, proc>>

(* The task raises, AbortedException included; Celery marks the rest of    *)
(* the chain as failed and does not send it.                               *)
TaskFails(c) ==
    /\ chain[c].phase = "running"
    /\ chain' = [chain EXCEPT
          ![c].phase = "stored",
          ![c].result = [i \in Positions |-> IF i >= chain[c].pos THEN "FAILURE" ELSE @[i]]]
    /\ UNCHANGED <<lock, info, lastTasks, runAfter, exists, status, proc>>

IsLastOfMany(c) == chain[c].pos = ChainLen  \* faulty: a chain of one task has no last one
IsLast(c) == chain[c].pos = LastPos(chain[c].kind)

PostrunState(c) == chain[c].result[chain[c].pos]

(* finish_publication_chain: the lock is released, whoever holds it, unless *)
(* it is the lock of DELETE.                                                *)
FinishedInfoOnlyState(state) == [info EXCEPT !.state = state]  \* faulty: 'finished' is not set
FinishedInfo(state) == [info EXCEPT !.finished = TRUE, !.state = state]

(* Faulty: the lock is emptied, not deleted; one kind of locks is left out. *)
FinishedLockEmptied == IF lock \in {"patch", "post", "feature_change"} THEN "" ELSE lock
FinishedLockButPost == IF lock \in {"patch", "feature_change"} THEN NoLock ELSE lock

FinishedLock == IF lock \in {"patch", "post", "feature_change"} THEN NoLock ELSE lock

(* task_postrun of the registered last task.  Without chain info,           *)
(* set_publication_chain_finished raises.                                   *)
PostrunOfLast(c) ==
    /\ chain[c].phase = "stored"
    /\ IsLast(c) /\ c \in lastTasks
    /\ lastTasks' = lastTasks \ {c}
    /\ \/ /\ info.id # NoChain
          /\ info' = FinishedInfo(PostrunState(c))
          /\ lock' = FinishedLock
          /\ chain' = [chain EXCEPT ![c].phase = "run_next"]
       \/ /\ info.id = NoChain
          /\ chain' = [chain EXCEPT ![c].phase = "over"]
          /\ UNCHANGED <<info, lock>>
    /\ UNCHANGED <<runAfter, exists, status, proc>>

(* update_related_publications_after_change reads the layer, and raises if  *)
(* it is gone; then the next chain is run.                                  *)
PostrunRunNext(c) ==
    /\ chain[c].phase = "run_next"
    /\ \/ /\ exists
          /\ RunNextChain(lock, info, lastTasks, [chain EXCEPT ![c].phase = "over"])
       \/ /\ ~exists
          /\ chain' = [chain EXCEPT ![c].phase = "over"]
          /\ UNCHANGED <<lock, info, lastTasks, runAfter>>
    /\ UNCHANGED <<exists, status, proc>>

(* task_postrun of another task.  If it failed, the recorded chain, be it   *)
(* this one or not, is finished and the steps are forgotten.                *)
PostrunOfOther(c) ==
    /\ chain[c].phase = "stored"
    /\ ~(IsLast(c) /\ c \in lastTasks)
    /\ \/ /\ PostrunState(c) = "FAILURE" /\ info.id # NoChain
          /\ runAfter' = FALSE
          /\ chain' = [chain EXCEPT ![c].phase = "set_status"]
          /\ IF info.id \in lastTasks
                THEN /\ lastTasks' = lastTasks \ {info.id}
                     /\ info' = FinishedInfo("FAILURE")
                     /\ lock' = FinishedLock
                ELSE UNCHANGED <<lastTasks, info, lock>>
       \/ /\ ~(PostrunState(c) = "FAILURE" /\ info.id # NoChain)
          /\ chain' = [chain EXCEPT ![c].phase = "over"]
          /\ UNCHANGED <<runAfter, lastTasks, info, lock>>
    /\ UNCHANGED <<exists, status, proc>>

(* set_wfs_wms_status_after_fail asks GeoServer what is there; it raises if *)
(* the layer is gone.                                                       *)
PostrunSetStatus(c) ==
    /\ chain[c].phase = "set_status"
    /\ chain' = [chain EXCEPT ![c].phase = "over"]
    /\ \/ exists /\ status' \in {"AVAILABLE", "NOT_AVAILABLE"}
       \/ ~exists /\ UNCHANGED status
    /\ UNCHANGED <<lock, info, lastTasks, runAfter, exists, proc>>

-----------------------------------------------------------------------------
(* Layman is restarted: Redis is flushed, the prime DB schema stays. *)
Restart ==
    /\ lock' = NoLock
    /\ info' = NoInfo
    /\ lastTasks' = {}
    /\ runAfter' = FALSE
    /\ chain' = [c \in Chains |-> Unsent]
    /\ status' = IF status = "PREPARING" THEN "NOT_AVAILABLE" ELSE status
    /\ proc' = [p \in Procs |-> Idle]
    /\ UNCHANGED exists

Init ==
    /\ lock = NoLock
    /\ info = NoInfo
    /\ lastTasks = {}
    /\ runAfter = FALSE
    /\ chain = [c \in Chains |-> Unsent]
    /\ exists \in BOOLEAN
    /\ status \in IF exists THEN {"AVAILABLE", "NOT_AVAILABLE"} ELSE {"none"}
    /\ proc = [p \in Procs |-> Idle]

Request(p) ==
    \/ Post(p)
    \/ \E kind \in {"patch", "sync_patch"} : Patch(p, kind)
    \/ \E kind \in {"delete", "bulk_delete"} : Delete(p, kind)
    \/ FeatureChange(p)

Handle(p) ==
    \/ PostBody(p) \/ PostRaises(p)
    \/ PatchData(p) \/ PatchMetadata(p) \/ PatchSyncOnly(p)
    \/ PatchRaises(p) \/ PatchDataRaises(p) \/ ResponseRaises(p) \/ Epilogue(p)
    \/ DeleteBody(p) \/ DeleteRaises(p)
    \/ GetChain(p) \/ GetChainRaises(p)
    \/ AbortTask(p) \/ AbortPending(p) \/ AssertAborted(p) \/ AwaitResult(p) \/ WaitForAbort(p)

RunTask(c) ==
    \/ TaskPrerun(c) \/ TaskSucceeds(c) \/ TaskFails(c)
    \/ PostrunOfLast(c) \/ PostrunRunNext(c)
    \/ PostrunOfOther(c) \/ PostrunSetStatus(c)

Next ==
    \/ \E p \in Procs : Request(p) \/ Handle(p)
    \/ \E c \in Chains : RunTask(c)
    \/ Restart

Spec == Init /\ [][Next]_vars

(* Processes go on with the requests they have and workers with the tasks  *)
(* they are sent; clients need not send anything.  A request polls for     *)
(* what it waits for, so it notices what becomes true again and again.     *)
Fairness ==
    /\ \A p \in Procs : SF_vars(Handle(p))
    /\ \A c \in Chains : WF_vars(RunTask(c))

FairSpec == Spec /\ Fairness

-----------------------------------------------------------------------------
(* Safety.                                                                 *)

(* A request that may change the layer now: it holds the lock, or DELETE,  *)
(* which took the lock before it aborts the chain.                         *)
Holding(p) ==
    \/ proc[p].pc \in {"body", "epilogue"}
    \/ proc[p].pc # "idle" /\ proc[p].kind \in {"delete", "bulk_delete"}

Recorded == info.id # NoChain /\ info.state = "PENDING"

(* The lock is never left behind: whoever holds it, and however requests   *)
(* and tasks interleave, time out or fail, some request in progress or the *)
(* recorded chain, which still runs, is there to release it.  Otherwise    *)
(* the layer could not be changed until Layman is restarted.               *)
(* Code: the decorator and its relatives, finish_publication_chain.        *)
LockOwned ==
    lock # NoLock =>
        \/ \E p \in Procs : Holding(p)
        \/ Recorded /\ Live(info.id)

(* A chain runs under the layer's lock and it is the recorded one; so      *)
(* there is at most one.  Broken if the lock is released by somebody else  *)
(* than the chain's own task_postrun or by a DELETE that aborted it.       *)
(* Code: solve_locks, is_layer_chain_ready in the decorator.               *)
ChainUnderLock == \A c \in Chains : Live(c) => lock # NoLock /\ info.id = c

(* While the synchronous part of a POST, PATCH or DELETE changes the       *)
(* layer, no chain does: a chain still running was to be refused (error    *)
(* 49) or to be aborted first.                                             *)
(* Code: solve_locks, abort_publication_chain.                             *)
EditedAlone ==
    \A p \in Procs : proc[p].pc = "body" => \A c \in Chains : ~Live(c)

(* abort_task_chain asserts that a task it has aborted is aborted, or has  *)
(* finished in the meantime.  Not so if a worker starts it right then: the *)
(* request fails, and the chain goes on.                                   *)
AbortAsserted ==
    \A p \in Procs : proc[p].pc = "assert" =>
        chain[proc[p].target].result[proc[p].at] \in {"ABORTED"} \cup ReadyStates

(* What uuid.py's check_redis_consistency asserts of chains: once          *)
(* get_publication_chain_info has nothing to wait for, 'finished' tells    *)
(* whether the chain is ready and its last task is registered iff it is    *)
(* not.  Moreover no last task of an older chain is registered: its        *)
(* task_postrun would finish the chain of now.                             *)
(* Code: set_publication_chain_info, finish_publication_chain,             *)
(* celery.delete_publication.                                              *)
RedisConsistent ==
    /\ lastTasks \subseteq {info.id}
    /\ info.id # NoChain /\ ChainInfoSettled =>
          /\ info.finished <=> IsChainReady
          /\ info.id \notin lastTasks <=> IsChainReady

(* A step that waits in the queue of an existing layer waits for a chain   *)
(* or for a request: a step queued for an unlocked layer would be          *)
(* forgotten until some later request.                                     *)
(* Code: push_step_to_run_after_chain, run_next_chain.                     *)
StepAwaited ==
    runAfter /\ exists => lock # NoLock \/ \E c \in Chains : chain[c].phase = "run_next"

(* wfs_wms_status PREPARING lasts no longer than the chain that publishes  *)
(* the layer: the chain's task, or the handler of its failure, replaces it.*)
(* Code: refresh_wfs_wms_status, set_wfs_wms_status_after_fail.            *)
PreparingAwaited ==
    status = "PREPARING" =>
        \/ Recorded /\ chain[info.id].kind = "publish"
        \/ \E c \in Chains : chain[c].phase = "set_status"

-----------------------------------------------------------------------------
(* Liveness, of FairSpec.                                                  *)

(* A request is answered: none waits for ever for an aborted chain.        *)
(* Code: abort_task_chain, wait_for_abort, get_publication_chain_info.     *)
RequestEnds == \A p \in Procs : proc[p].pc # "idle" ~> proc[p].pc = "idle"

(* A chain that is recorded as running is recorded as finished or replaced *)
(* or forgotten; GET of the layer would report UPDATING for ever otherwise.*)
(* Code: task_postrun, finish_publication_chain.                           *)
ChainEnds ==
    \A c \in Chains : info.id = c /\ ~info.finished ~> (info.id # c \/ info.finished)

(* When no more requests come, the layer settles: no request or chain is   *)
(* in progress, the lock is released, every step of an existing layer was  *)
(* run or given up, and the status is not PREPARING.                       *)
(* Code: the decorator, task_postrun, run_next_chain.                      *)
Settled ==
    /\ \A p \in Procs : proc[p].pc = "idle"
    /\ \A c \in Chains : chain[c].phase = "over"
    /\ lock = NoLock
    /\ ~(runAfter /\ exists)
    /\ status # "PREPARING"

Settles == <>[][\A p \in Procs : ~Request(p)]_vars => <>[]Settled
=============================================================================
