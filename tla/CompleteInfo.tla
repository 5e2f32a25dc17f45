---------------------------- MODULE CompleteInfo ----------------------------
(***************************************************************************)
(* GET of a layer or a map (get_complete_publication_info of               *)
(* layman/util.py), which takes no lock, while requests change the         *)
(* publication and their chains run.  The answer is put together of what   *)
(* each source has, of the states of the tasks of the last chain, and of   *)
(* whether the publication is being updated, each read at its own time;    *)
(* it is made again if an update began or ended in between.                *)
(*                                                                         *)
(* A key of the answer belongs to one source and one task, in the order of *)
(* both; a source has a version of its data, 0 if it has none.  What a     *)
(* request does before its chain is one step (see LayerSources), sending   *)
(* and recording the chain too (see LayerChain); so is aborting the tasks  *)
(* of a chain that PATCH or DELETE takes the publication over from.  The   *)
(* end of a chain, state and lock, is one step for whoever waits for that, *)
(* who waits long enough, and nobody else begins meanwhile (LayerChain     *)
(* says what comes of it otherwise); a DELETE that succeeds, which leaves  *)
(* nothing to GET, and one beside another request are left out.            *)
(***************************************************************************)
EXTENDS Naturals, Sequences

CONSTANTS
    Last,           \* number of keys, each with its source and its task
    MaxRequests     \* bound of requests that change the publication

ASSUME CompleteInfoAssumption == Last \in Nat \ {0}

Keys     == 1 .. Last
Methods  == {"patch", "delete", "feature_change"}
NoResult == [k \in Keys |-> "SUCCESS"]
NoChain  == [id |-> 0, finished |-> TRUE, state |-> "SUCCESS"]
NoState  == [k \in Keys |-> ""]

VARIABLES
    source,      \* version of the data each source has, 0 if none
    lock,        \* "" or who holds the lock: the "request", or the "chain" it has started
    chain_info,  \* the dict in Redis: id of the chain, finished, state
    results,     \* results[id]: states of the tasks of each chain, as celery's backend has them
    from,        \* first task of the last chain
    task,        \* the task at work, 0 if none
    by,          \* method of the last request that took the lock
    abort,       \* "" or the method of the request that waits for the chain it has aborted
    pc, purpose, \* what GET does next, and what it reads the chain for
    key,         \* next source or task to read
    chain,       \* the dict GET has read
    lock_read, failed,      \* the lock, and a failed task, GET has read
    before, after,          \* is_updating_before, is_updating_after
    info, status,           \* the answer: versions and statuses of keys
    begun,       \* history: a request has begun since GET has
    requests

requestVars == <<source, lock, chain_info, results, from, task, by, abort, begun, requests>>
getVars     == <<pc, purpose, key, chain, lock_read, failed, before, after, info, status>>
infoVars    == <<requestVars, getVars>>

InitInfo ==
    /\ source = [k \in Keys |-> 1] /\ lock = "" /\ chain_info = NoChain
    /\ results = <<>> /\ from = 1 /\ task = 0 /\ by = "patch" /\ abort = ""
    /\ pc = "idle" /\ purpose = "before" /\ key = 1 /\ chain = NoChain /\ lock_read = FALSE /\ failed = FALSE
    /\ before = FALSE /\ after = FALSE /\ info = [k \in Keys |-> 0] /\ status = NoState
    /\ begun = FALSE /\ requests = 0

Result(id) == IF id = 0 THEN NoResult ELSE results[id]

is_chain_successful(c) == c.state = "SUCCESS" \/ Result(c.id)[Last] = "SUCCESS"
is_chain_failed(c)     == c.state = "FAILURE" \/ \E k \in Keys : Result(c.id)[k] = "FAILURE"
is_chain_ready(c)      == c.state = "ABORTED" \/ is_chain_successful(c) \/ is_chain_failed(c)

(* celery has forgotten the result by which the chain failed.              *)
is_chain_failed_without_info(c) ==
    c.finished /\ c.state = "FAILURE" /\ \A k \in Keys : Result(c.id)[k] # "FAILURE"
-----------------------------------------------------------------------------
(* A request takes the lock; PATCH and DELETE delete the sources from some *)
(* on, and PATCH, when it is through with that, the dict of the chain, too *)
(* (delete_layer).  Of DELETE, only what it does before it fails is here.  *)
TakesLock(method, k, delete) ==
    /\ delete => method # "feature_change"
    /\ lock' = "request" /\ by' = method /\ abort' = ""
    /\ begun' = TRUE /\ requests' = requests + 1 /\ from' = k
    /\ source' = [j \in Keys |-> IF delete /\ j >= k THEN 0 ELSE source[j]]

Leaves(c, method, delete) == chain_info' = c \/ (method = "patch" /\ delete /\ chain_info' = NoChain)

Begin(method, k, delete) ==
    /\ lock = "" /\ abort = "" /\ requests < MaxRequests
    /\ TakesLock(method, k, delete) /\ Leaves(chain_info, method, delete)
    /\ UNCHANGED <<results, task, getVars>>

set_publication_chain_info ==
    /\ lock = "request" /\ by # "delete" /\ abort = ""
    /\ lock' = "chain"
    /\ results' = Append(results, [k \in Keys |-> IF k < from THEN "SUCCESS" ELSE "PENDING"])
    /\ chain_info' = [id |-> Len(results'), finished |-> FALSE, state |-> "PENDING"]
    /\ UNCHANGED <<source, from, task, by, abort, begun, requests, getVars>>

Running == ~chain_info.finished /\ ~is_chain_ready(chain_info)

(* Celery runs a task when those before it were successful.                *)
Current(k) ==
    /\ Running /\ Result(chain_info.id)[k] # "SUCCESS"
    /\ \A j \in Keys : j < k => Result(chain_info.id)[j] = "SUCCESS"

TaskStarts(k) ==
    /\ Current(k) /\ task = 0
    /\ task' = k /\ results' = [results EXCEPT ![chain_info.id][k] = "STARTED"]
    /\ UNCHANGED <<source, lock, chain_info, from, by, abort, begun, requests, getVars>>

(* The data are there before the task is successful.                       *)
TaskWrites(k) ==
    /\ Current(k) /\ task = k /\ source[k] # requests + 1
    /\ source' = [source EXCEPT ![k] = requests + 1]
    /\ UNCHANGED <<lock, chain_info, results, from, task, by, abort, begun, requests, getVars>>

(* A task that fails, as aborted ones do that find it out, takes with it   *)
(* the rest of the chain.                                                  *)
TaskEnds(k) ==
    /\ Current(k) /\ task = k /\ task' = 0
    /\ \/ source[k] = requests + 1 /\ results' = [results EXCEPT ![chain_info.id][k] = "SUCCESS"]
       \/ results' = [results EXCEPT ![chain_info.id] = [j \in Keys |-> IF j < k THEN "SUCCESS" ELSE "FAILURE"]]
    /\ UNCHANGED <<source, lock, chain_info, from, by, abort, begun, requests, getVars>>

(* abort_chain: PATCH takes over from a change of features, DELETE from    *)
(* whoever has sent a chain; only DELETE has the lock from now on.         *)
Abort(method) ==
    /\ lock = "chain" /\ abort = "" /\ Running /\ requests < MaxRequests
    /\ method = "delete" \/ (method = "patch" /\ by = "feature_change")
    /\ abort' = method /\ lock' = (IF method = "delete" THEN "request" ELSE "chain")
    /\ results' = [results EXCEPT ![chain_info.id] =
                      [k \in Keys |-> IF Result(chain_info.id)[k] = "SUCCESS" THEN "SUCCESS" ELSE "ABORTED"]]
    /\ begun' = TRUE
    /\ UNCHANGED <<source, chain_info, from, task, by, requests, getVars>>

(* It has waited until the chain is finished.                              *)
AbortEnds(k, delete) ==
    /\ abort # "" /\ chain_info.finished /\ lock # "chain"
    /\ TakesLock(abort, k, delete) /\ Leaves([chain_info EXCEPT !.state = "ABORTED"], abort, delete)
    /\ UNCHANGED <<results, task, getVars>>

(* task_postrun of the last task, or of the one that failed: the chain is  *)
(* finished, then the lock is released, unless it is that of DELETE.       *)
set_publication_chain_finished ==
    /\ ~chain_info.finished /\ is_chain_ready(chain_info)
    /\ chain_info' = [chain_info EXCEPT !.finished = TRUE,
                                        !.state = IF is_chain_successful(chain_info) THEN "SUCCESS" ELSE "FAILURE"]
    /\ UNCHANGED <<source, lock, results, from, task, by, abort, begun, requests, getVars>>

(* A request that raises before its chain releases the lock itself.        *)
unlock_publication ==
    /\ (lock = "request" /\ abort = "") \/ (lock = "chain" /\ chain_info.finished)
    /\ lock' = ""
    /\ UNCHANGED <<source, chain_info, results, from, task, by, abort, begun, requests, getVars>>

(* celery forgets results after a day, much longer than GET takes.         *)
Forget ==
    /\ pc \in {"idle", "answered", "raised"} /\ lock = "" /\ chain_info # NoChain
    /\ results' = [results EXCEPT ![chain_info.id] = [k \in Keys |-> "PENDING"]]
    /\ results' # results
    /\ UNCHANGED <<source, lock, chain_info, from, task, by, abort, begun, requests, getVars>>
-----------------------------------------------------------------------------
GetInfo ==
    /\ pc \in {"idle", "answered", "raised"}
    /\ pc' = "chain" /\ purpose' = "before" /\ begun' = FALSE
    /\ after' = FALSE /\ before' = FALSE /\ info' = [k \in Keys |-> 0] /\ status' = NoState
    /\ key' = 1 /\ chain' = NoChain /\ lock_read' = FALSE /\ failed' = FALSE
    /\ UNCHANGED <<source, lock, chain_info, results, from, task, by, abort, requests>>

(* What GET does with the chain it has read.                               *)
HasChain ==
    /\ chain' = chain_info
    /\ pc' = IF purpose = "info" THEN "states" ELSE "lock"

(* get_publication_chain_info: it waits for task_postrun of a chain that   *)
(* is ready, until the chain the dict then has is finished.                *)
get_publication_chain_info ==
    /\ pc = "chain"
    /\ IF ~chain_info.finished /\ is_chain_ready(chain_info)
       THEN pc' = "wait" /\ UNCHANGED chain
       ELSE HasChain
    /\ UNCHANGED <<requestVars, purpose, key, lock_read, failed, before, after, info, status>>

Waited ==
    /\ pc = "wait" /\ chain_info.finished
    /\ HasChain
    /\ UNCHANGED <<requestVars, purpose, key, lock_read, failed, before, after, info, status>>

WaitedTooLong ==
    /\ pc = "wait" /\ ~chain_info.finished
    /\ pc' = "raised"
    /\ UNCHANGED <<requestVars, purpose, key, chain, lock_read, failed, before, after, info, status>>

get_publication_lock ==
    /\ pc = "lock"
    /\ lock_read' = (lock # "") /\ pc' = "ready"
    /\ UNCHANGED <<requestVars, purpose, key, chain, failed, before, after, info, status>>

(* is_publication_updating asks for the results of the chain last.         *)
is_publication_updating == ~is_chain_ready(chain) \/ lock_read

(* The sources are read for the first time, or again.                      *)
ReadSources(updating) ==
    /\ before' = updating /\ pc' = "sources" /\ key' = 1
    /\ info' = [k \in Keys |-> 0] /\ status' = NoState

UpdatingBefore ==
    /\ pc = "ready" /\ purpose = "before"
    /\ ReadSources(is_publication_updating)
    /\ UNCHANGED <<requestVars, purpose, chain, lock_read, failed, after>>

(* Faulty: the sources are not read again after an update.                 *)
AnswerAtOnce ==
    /\ pc = "ready" /\ purpose = "after"
    /\ after' = is_publication_updating /\ pc' = "answered"
    /\ UNCHANGED <<requestVars, purpose, key, chain, lock_read, failed, before, info, status>>

Answer ==
    /\ pc = "ready" /\ purpose = "after"
    /\ after' = is_publication_updating
    /\ IF after' = before
       THEN pc' = "answered" /\ UNCHANGED <<key, before, info, status>>
       ELSE ReadSources(after')
    /\ UNCHANGED <<requestVars, purpose, chain, lock_read, failed>>

(* get_publication_info: source by source.                                 *)
get_layer_info ==
    /\ pc = "sources"
    /\ info' = [info EXCEPT ![key] = source[key]]
    /\ IF key < Last THEN key' = key + 1 /\ UNCHANGED <<pc, purpose>>
                     ELSE key' = 1 /\ pc' = "chain" /\ purpose' = "info"
    /\ UNCHANGED <<requestVars, chain, lock_read, failed, before, after, status>>

(* The keys no source has are not available.                               *)
Missing(s) == [k \in Keys |-> IF info[k] = 0 /\ s[k] = "" THEN "NOT_AVAILABLE" ELSE s[k]]

(* get_info_with_statuses: nothing to fill in, or nothing known but that   *)
(* the chain failed, or task by task, each state read as it is then.       *)
get_info_with_statuses ==
    /\ pc = "states"
    /\ key' = 1
    /\ IF is_chain_successful(chain) \/ is_chain_failed_without_info(chain)
       THEN status' = Missing(status) /\ pc' = "chain" /\ purpose' = "after"
       ELSE pc' = "tasks" /\ UNCHANGED <<status, purpose>>
    /\ UNCHANGED <<requestVars, chain, lock_read, failed, before, after, info>>

TaskStatus ==
    /\ pc = "tasks"
    /\ LET state  == Result(chain.id)[key]
           filled == IF info[key] = 0 \/ state # "SUCCESS"
                     THEN [status EXCEPT ![key] = IF failed THEN "NOT_AVAILABLE" ELSE state]
                     ELSE status
       IN  /\ failed' = (key < Last /\ (failed \/ state = "FAILURE"))
           /\ IF key < Last
              THEN status' = filled /\ key' = key + 1 /\ UNCHANGED <<pc, purpose>>
              ELSE status' = Missing(filled) /\ key' = 1 /\ pc' = "chain" /\ purpose' = "after"
    /\ UNCHANGED <<requestVars, chain, lock_read, before, after, info>>

publication_status == IF after THEN "UPDATING"
                      ELSE IF \E k \in Keys : status[k] # "" THEN "INCOMPLETE"
                      ELSE "COMPLETE"
-----------------------------------------------------------------------------
Updates == \/ set_publication_chain_info \/ set_publication_chain_finished \/ unlock_publication
           \/ \E k \in Keys : TaskStarts(k) \/ TaskWrites(k) \/ TaskEnds(k)

Reads == \/ get_publication_chain_info \/ Waited \/ get_publication_lock \/ UpdatingBefore \/ Answer
         \/ get_layer_info \/ get_info_with_statuses \/ TaskStatus

NextInfo == \/ \E k \in Keys, delete \in BOOLEAN :
                  AbortEnds(k, delete) \/ \E method \in Methods : Begin(method, k, delete)
            \/ \E method \in Methods : Abort(method)
            \/ Updates \/ Forget \/ GetInfo \/ Reads \/ WaitedTooLong

SpecInfo == InitInfo /\ [][NextInfo]_infoVars
-----------------------------------------------------------------------------
(* An answer that is not UPDATING, made while no request began, is what    *)
(* the publication has: the data of every source as they are, nothing      *)
(* said to be pending, started or aborted, and COMPLETE only if nothing is *)
(* missing.  Everything in it was read at a different time, and a chain    *)
(* may have ended in between, or been aborted by a request that then       *)
(* failed; what statuses say of such a chain once celery has forgotten its *)
(* results is StatusesFinal.                                               *)
Forgotten(c) == c.state = "ABORTED" /\ \A k \in Keys : Result(c.id)[k] = "PENDING"

AnswerHolds ==
    pc = "answered" /\ ~after /\ ~begun =>
        /\ info = source
        /\ ~Forgotten(chain_info) => \A k \in Keys : status[k] \notin {"PENDING", "STARTED", "ABORTED"}
        /\ publication_status = "COMPLETE" => \A k \in Keys : source[k] # 0

(* "PENDING: publishing of this source is queued, but it did not start     *)
(* yet" (doc/rest.md): an answer that is not UPDATING has no such source.  *)
(* It does not hold: is_chain_failed_without_info knows of no chain that   *)
(* was aborted, and to celery what it has forgotten is pending.            *)
StatusesFinal ==
    pc = "answered" /\ ~after /\ ~begun => \A k \in Keys : status[k] # "PENDING"

(* "COMPLETE: the layer is fully updated and response is final and         *)
(* up-to-date" (doc/rest.md): when GET answers COMPLETE, and nobody has    *)
(* the publication, the answer shows what it has.  It does not hold: an    *)
(* update that begins and ends between the two looks at whether there is   *)
(* one goes unnoticed.                                                     *)
CompleteIsUpToDate ==
    [][pc # "answered" /\ pc' = "answered" /\ publication_status' = "COMPLETE" /\ lock = ""
        => info' = source]_infoVars
=============================================================================
