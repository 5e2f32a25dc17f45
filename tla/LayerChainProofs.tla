-------------------------- MODULE LayerChainProofs --------------------------
(***************************************************************************)
(* Theorems about LayerChain, for every value of its constants: any number *)
(* of processes, of chains and of tasks in a chain, any requests, with or  *)
(* without time-outs and exceptions.                                       *)
(***************************************************************************)
EXTENDS LayerChain, TLAPS

(* Records of chains that can be: the position is one of the tasks;        *)
(* task_postrun sees a ready result, that of a failure unless the task is  *)
(* the last one.                                                           *)
ChainOK(r) ==
    /\ r.pos <= LastPos(r.kind)
    /\ r.phase = "stored" =>
          /\ r.result[r.pos] \in ReadyStates
          /\ r.pos # LastPos(r.kind) => r.result[r.pos] = "FAILURE"

GoodChain == {r \in ChainRecord : ChainOK(r)}

(* The abort loop works with a chain and a position within it; there is    *)
(* nothing to be done after the synchronous part but in PATCH.             *)
ProcOK(r) ==
    /\ r.pc \in {"abort", "assert", "result"} => r.target \in Chains
    /\ r.pc \in {"assert", "result"} => r.at \in Positions
    /\ r.pc = "assert" => MayRaise
    /\ r.pc = "epilogue" => r.kind \in {"patch", "sync_patch"}

GoodProc == {r \in ProcRecord : ProcOK(r)}

TypeInv ==
    /\ lock \in Locks
    /\ info \in ChainInfo
    /\ lastTasks \in SUBSET Chains
    /\ runAfter \in BOOLEAN
    /\ chain \in [Chains -> GoodChain]
    /\ exists \in BOOLEAN
    /\ status \in Statuses
    /\ proc \in [Procs -> GoodProc]

(* While a chain is recorded as running, its last task is registered: its  *)
(* task_postrun is still to come, and will finish it.                      *)
RecordedRuns == Recorded => info.id \in lastTasks /\ Live(info.id)

Deleting(p) == proc[p].pc # "idle" /\ proc[p].kind \in {"delete", "bulk_delete"}

(* The lock of DELETE, which task_postrun does not release, is its own.    *)
DeleteInProgress == lock = "delete" => \E p \in Procs : Deleting(p)

LockHasOwner == lock # NoLock => Recorded \/ \E p \in Procs : Holding(p)

IInv ==
    /\ TypeInv
    /\ RecordedRuns
    /\ DeleteInProgress
    /\ LockHasOwner

-----------------------------------------------------------------------------
(* Records of chains.                                                      *)

(* A chain that is started is in order. *)
LEMMA NewChainGood == \A kind \in ChainKinds : NewChain(kind) \in GoodChain
BY LayerChainAssumption
   DEF NewChain, GoodChain, ChainRecord, ChainOK, ChainKinds, Phases, Positions, TaskStates, LastPos

(* An id that Celery does not know is in order. *)
LEMMA UnsentGood == Unsent \in GoodChain
BY LayerChainAssumption
   DEF Unsent, NewChain, GoodChain, ChainRecord, ChainOK, ChainKinds, Phases, Positions, TaskStates, LastPos

(* task_postrun moves a chain on. *)
LEMMA PhaseGood ==
    \A r \in GoodChain : \A ph \in Phases \ {"stored"} : [r EXCEPT !.phase = ph] \in GoodChain
BY DEF GoodChain, ChainRecord, ChainOK

(* abort() of a result that is not ready. *)
LEMMA AbortGood ==
    ASSUME NEW r \in GoodChain, NEW i \in Positions, r.result[i] \notin ReadyStates
    PROVE  [r EXCEPT !.result[i] = "ABORTED"] \in GoodChain
BY DEF GoodChain, ChainRecord, ChainOK, TaskStates, ReadyStates

-----------------------------------------------------------------------------
(* The operators that start chains.                                        *)

(* What starting a chain changes: it is recorded, runs, and its last task  *)
(* is registered.                                                          *)
LEMMA StartChainFacts ==
    ASSUME NEW kind \in ChainKinds, NEW last \in SUBSET Chains, NEW ch \in [Chains -> GoodChain],
           StartChain(kind, last, ch)
    PROVE  /\ chain' \in [Chains -> GoodChain]
           /\ info' \in ChainInfo
           /\ lastTasks' \in SUBSET Chains
           /\ Recorded' /\ RecordedRuns'
<1>1. PICK c \in FreeChains(last, ch) :
         /\ chain' = [ch EXCEPT ![c] = NewChain(kind)]
         /\ info' = [id |-> c, finished |-> FALSE, state |-> "PENDING"]
         /\ lastTasks' = last \cup {c}
  BY DEF StartChain
<1>2. c \in Chains /\ c # NoChain
  BY LayerChainAssumption DEF FreeChains
<1>3. chain' \in [Chains -> GoodChain]
  BY <1>1, <1>2, NewChainGood
<1>4. info' \in ChainInfo /\ lastTasks' \in SUBSET Chains
  BY <1>1, <1>2 DEF ChainInfo, ChainStates
<1>5. Recorded' /\ info'.id \in lastTasks'
  BY <1>1, <1>2 DEF Recorded
<1>6. Live(info.id)'
  <2>1. chain'[c] = NewChain(kind)
    BY <1>1, <1>2
  <2>. QED
    BY <2>1, <1>1 DEF Live, NewChain
<1>. QED
  BY <1>3, <1>4, <1>5, <1>6 DEF RecordedRuns

(* What running the next chain changes: if there is a step, its chain and  *)
(* its lock.                                                               *)
LEMMA RunNextChainFacts ==
    ASSUME NEW l \in Locks, NEW newInfo \in ChainInfo, NEW last \in SUBSET Chains,
           NEW ch \in [Chains -> GoodChain], runAfter \in BOOLEAN,
           RunNextChain(l, newInfo, last, ch)
    PROVE  /\ chain' \in [Chains -> GoodChain]
           /\ info' \in ChainInfo
           /\ lastTasks' \in SUBSET Chains
           /\ runAfter' \in BOOLEAN
           /\ lock' \in Locks
           /\ \/ l = NoLock /\ lock' = "feature_change" /\ Recorded' /\ RecordedRuns'
              \/ lock' = l /\ info' = newInfo /\ lastTasks' = last /\ chain' = ch
<1>1. CASE StartChain("refresh", last, ch) /\ l = NoLock /\ lock' = "feature_change" /\ runAfter' = FALSE
  BY <1>1, StartChainFacts DEF ChainKinds, Locks
<1>2. CASE lock' = l /\ info' = newInfo /\ lastTasks' = last /\ chain' = ch /\ runAfter' = runAfter
  BY <1>2
<1>. QED
  BY <1>1, <1>2 DEF RunNextChain

(* What the exception path leaves: no lock, or that of a chain that runs. *)
LEMMA UnlockAfterExceptionFacts ==
    ASSUME NEW p, NEW ready, NEW newInfo \in ChainInfo, NEW last \in SUBSET Chains,
           chain \in [Chains -> GoodChain], runAfter \in BOOLEAN,
           UnlockAfterException(p, ready, newInfo, last)
    PROVE  /\ chain' \in [Chains -> GoodChain]
           /\ info' \in ChainInfo
           /\ lastTasks' \in SUBSET Chains
           /\ runAfter' \in BOOLEAN
           /\ lock' \in {NoLock, "feature_change"}
           /\ \/ Recorded' /\ RecordedRuns'
              \/ lock' = NoLock /\ info' = newInfo /\ lastTasks' = last /\ chain' = chain
<1>1. CASE StartChain("refresh", last, chain) /\ lock' \in {NoLock, "feature_change"} /\ runAfter' = FALSE
  BY <1>1, StartChainFacts DEF ChainKinds
<1>2. CASE lock' = NoLock /\ info' = newInfo /\ lastTasks' = last /\ chain' = chain /\ runAfter' = runAfter
  BY <1>2
<1>. QED
  BY <1>1, <1>2 DEF UnlockAfterException

-----------------------------------------------------------------------------
(* Processes.                                                              *)

(* The record of an idle process is in order. *)
LEMMA IdleGood == Idle \in GoodProc
BY LayerChainAssumption
   DEF Idle, GoodProc, ProcRecord, ProcOK, Pcs, AllKinds, Positions

(* A request that is not at the abort loop keeps to what is said of it. *)
LEMMA BeginGood ==
    ASSUME NEW kind \in AllKinds, NEW pc \in {"body", "get_chain"}
    PROVE  [Idle EXCEPT !.pc = pc, !.kind = kind] \in GoodProc
<1>1. Idle \in ProcRecord
  BY IdleGood DEF GoodProc
<1>2. \A r \in ProcRecord : [r EXCEPT !.pc = pc, !.kind = kind] \in ProcRecord
  BY DEF ProcRecord, Pcs
<1>3. \A r \in ProcRecord : [r EXCEPT !.pc = pc, !.kind = kind].pc = pc
  BY DEF ProcRecord
<1>. QED
  BY <1>1, <1>2, <1>3 DEF GoodProc, ProcOK

(* A process that goes on to another place of its request stays in order. *)
LEMMA BecomeGood ==
    ASSUME NEW r \in GoodProc, NEW pc \in {"body", "epilogue"},
           pc = "epilogue" => r.kind \in {"patch", "sync_patch"}
    PROVE  [r EXCEPT !.pc = pc] \in GoodProc
BY DEF GoodProc, ProcRecord, ProcOK, Pcs

(* A request that keeps neither the lock of DELETE nor any other may end   *)
(* or go on without the owners of the lock being changed.                  *)
LEMMA OwnersKept ==
    ASSUME IInv, NEW p \in Procs, ~Deleting(p), ~Holding(p),
           NEW r, proc' = [proc EXCEPT ![p] = r], lock' = lock, info' = info
    PROVE  DeleteInProgress' /\ LockHasOwner'
<1>1. \A q \in Procs : Deleting(q) => Deleting(q)'
  BY DEF Deleting, IInv, TypeInv
<1>2. \A q \in Procs : Holding(q) => Holding(q)'
  BY DEF Holding, Deleting, IInv, TypeInv
<1>. QED
  BY <1>1, <1>2 DEF IInv, DeleteInProgress, LockHasOwner, Recorded

(* What releases the lock, or hands it over to a chain of WFS-T, needs no  *)
(* owner.                                                                  *)
LEMMA Released ==
    ASSUME \/ lock' = NoLock
           \/ lock' \in {NoLock, "feature_change"} /\ Recorded'
    PROVE  DeleteInProgress' /\ LockHasOwner'
BY DEF DeleteInProgress, LockHasOwner, NoLock

(* The owners of the lock are what they were when no request moves and the *)
(* recorded chain is the same. *)
LEMMA OwnersSame ==
    ASSUME IInv, proc' = proc, lock' = lock, info' = info
    PROVE  DeleteInProgress' /\ LockHasOwner'
BY DEF IInv, DeleteInProgress, LockHasOwner, Deleting, Holding, Recorded

-----------------------------------------------------------------------------
(* Requests of the clients.                                                *)

(* Post preserves the invariant. *)
LEMMA PostStep == ASSUME IInv, NEW p \in Procs, Post(p) PROVE IInv'
<1>1. TypeInv'
  BY BeginGood DEF Post, IInv, TypeInv, Locks, AllKinds
<1>2. RecordedRuns'
  BY DEF Post, IInv, RecordedRuns, Recorded, Live
<1>3. Holding(p)'
  BY DEF Post, IInv, TypeInv, Holding, Idle
<1>. QED
  BY <1>1, <1>2, <1>3 DEF Post, IInv, DeleteInProgress, LockHasOwner

(* PostBody preserves the invariant. *)
LEMMA PostBodyStep == ASSUME IInv, NEW p \in Procs, PostBody(p) PROVE IInv'
<1>1. /\ chain' \in [Chains -> GoodChain] /\ info' \in ChainInfo
      /\ lastTasks' \in SUBSET Chains /\ Recorded' /\ RecordedRuns'
  BY StartChainFacts DEF PostBody, IInv, TypeInv, ChainKinds
<1>2. TypeInv'
  BY <1>1, IdleGood DEF PostBody, Finish, IInv, TypeInv, Statuses
<1>3. DeleteInProgress'
  <2>1. \A q \in Procs : Deleting(q) => Deleting(q)'
    BY DEF PostBody, Finish, Deleting, IInv, TypeInv
  <2>. QED
    BY <2>1 DEF PostBody, IInv, DeleteInProgress
<1>. QED
  BY <1>1, <1>2, <1>3 DEF IInv, LockHasOwner

(* PostRaises preserves the invariant. *)
LEMMA PostRaisesStep == ASSUME IInv, NEW p \in Procs, PostRaises(p) PROVE IInv'
<1>1. TypeInv'
  BY IdleGood DEF PostRaises, Finish, IInv, TypeInv, Statuses, Locks
<1>2. RecordedRuns'
  BY DEF PostRaises, IInv, RecordedRuns, Recorded, Live
<1>. QED
  BY <1>1, <1>2, Released DEF PostRaises, IInv

(* Patch preserves the invariant. *)
LEMMA PatchStep ==
    ASSUME IInv, NEW p \in Procs, NEW kind \in {"patch", "sync_patch"}, Patch(p, kind)
    PROVE  IInv'
<1>1. CASE /\ lock = NoLock /\ lock' = "patch"
           /\ proc' = [proc EXCEPT ![p] = [Idle EXCEPT !.pc = "body", !.kind = kind]]
  <2>1. TypeInv'
    BY <1>1, BeginGood DEF Patch, IInv, TypeInv, Locks, AllKinds
  <2>2. RecordedRuns'
    BY DEF Patch, IInv, RecordedRuns, Recorded, Live
  <2>3. Holding(p)'
    BY <1>1 DEF IInv, TypeInv, Holding, Idle
  <2>. QED
    BY <1>1, <2>1, <2>2, <2>3 DEF IInv, DeleteInProgress, LockHasOwner
<1>2. CASE /\ lock' = lock
           /\ proc' = [proc EXCEPT ![p] = [Idle EXCEPT !.pc = "get_chain", !.kind = kind]]
  <2>1. TypeInv'
    BY <1>2, BeginGood DEF Patch, IInv, TypeInv, Locks, AllKinds
  <2>2. RecordedRuns'
    BY DEF Patch, IInv, RecordedRuns, Recorded, Live
  <2>3. ~Deleting(p) /\ ~Holding(p)
    BY DEF Patch, Deleting, Holding
  <2>. QED
    BY <1>2, <2>1, <2>2, <2>3, OwnersKept DEF IInv, Patch
<1>. QED
  BY <1>1, <1>2 DEF Patch

(* The parts of PATCH that start a chain and go on to the epilogue. *)
LEMMA PatchBodyStep ==
    ASSUME IInv, NEW p \in Procs, PatchData(p) \/ PatchMetadata(p) \/ PatchSyncOnly(p)
    PROVE  IInv'
<1>1. proc[p].pc = "body" /\ proc[p].kind \in {"patch", "sync_patch"} /\ lock' = lock
  BY DEF PatchData, PatchMetadata, PatchSyncOnly
<1>2. proc' = [proc EXCEPT ![p].pc = "epilogue"]
  BY DEF PatchData, PatchMetadata, PatchSyncOnly, Become
<1>3. /\ chain' \in [Chains -> GoodChain] /\ info' \in ChainInfo
      /\ lastTasks' \in SUBSET Chains /\ RecordedRuns'
  <2>1. CASE PatchData(p)
    BY <2>1, StartChainFacts DEF PatchData, ForgetLast, IInv, TypeInv, ChainKinds
  <2>2. CASE PatchMetadata(p)
    BY <2>2, StartChainFacts DEF PatchMetadata, IInv, TypeInv, ChainKinds
  <2>3. CASE PatchSyncOnly(p)
    BY <2>3 DEF PatchSyncOnly, IInv, TypeInv, RecordedRuns, Recorded, Live
  <2>. QED
    BY <2>1, <2>2, <2>3
<1>4. proc' \in [Procs -> GoodProc]
  BY <1>1, <1>2, BecomeGood DEF IInv, TypeInv
<1>5. TypeInv'
  BY <1>3, <1>4 DEF PatchData, PatchMetadata, PatchSyncOnly, IInv, TypeInv, Statuses
<1>6. Holding(p)' /\ \A q \in Procs : Deleting(q) => Deleting(q)'
  BY <1>1, <1>2 DEF Holding, Deleting, IInv, TypeInv
<1>. QED
  BY <1>1, <1>3, <1>5, <1>6 DEF IInv, DeleteInProgress, LockHasOwner

(* A request that raises releases the lock. *)
LEMMA ExceptionStep ==
    ASSUME IInv, NEW p \in Procs, NEW ready, NEW newInfo \in {info, NoInfo}, NEW last \in SUBSET Chains,
           newInfo = info => last = lastTasks,
           UnlockAfterException(p, ready, newInfo, last), Finish(p),
           exists' \in BOOLEAN, status' \in Statuses
    PROVE  IInv'
<1>1. newInfo \in ChainInfo
  <2>1. NoInfo \in ChainInfo
    BY DEF NoInfo, ChainInfo, ChainStates
  <2>. QED
    BY <2>1 DEF IInv, TypeInv
<1>2. /\ chain' \in [Chains -> GoodChain] /\ info' \in ChainInfo
      /\ lastTasks' \in SUBSET Chains /\ runAfter' \in BOOLEAN
      /\ lock' \in {NoLock, "feature_change"}
      /\ \/ Recorded' /\ RecordedRuns'
         \/ lock' = NoLock /\ info' = newInfo /\ lastTasks' = last /\ chain' = chain
  BY <1>1, UnlockAfterExceptionFacts DEF IInv, TypeInv
<1>3. TypeInv'
  BY <1>2, IdleGood DEF Finish, IInv, TypeInv, Locks
<1>4. RecordedRuns'
  BY <1>2 DEF IInv, RecordedRuns, Recorded, Live, NoInfo
<1>. QED
  BY <1>2, <1>3, <1>4, Released DEF IInv

(* Raised preserves the invariant. *)
LEMMA RaisedStep == ASSUME IInv, NEW p \in Procs, Raised(p) PROVE IInv'
BY ExceptionStep DEF Raised, IInv, TypeInv

(* PatchDataRaises preserves the invariant. *)
LEMMA PatchDataRaisesStep == ASSUME IInv, NEW p \in Procs, PatchDataRaises(p) PROVE IInv'
<1>1. ForgetLast \in SUBSET Chains /\ (NoInfo = info => ForgetLast = lastTasks)
  BY LayerChainAssumption DEF ForgetLast, NoInfo, IInv, TypeInv
<1>. QED
  BY <1>1, ExceptionStep DEF PatchDataRaises, IInv, TypeInv, Statuses

(* Epilogue preserves the invariant. *)
LEMMA EpilogueStep == ASSUME IInv, NEW p \in Procs, Epilogue(p) PROVE IInv'
<1>1. CASE UnlockAndRunNext(p)
  <2>1. /\ chain' \in [Chains -> GoodChain] /\ info' \in ChainInfo
        /\ lastTasks' \in SUBSET Chains /\ runAfter' \in BOOLEAN
        /\ lock' \in {NoLock, "feature_change"}
        /\ \/ Recorded' /\ RecordedRuns'
           \/ lock' = NoLock /\ info' = info /\ lastTasks' = lastTasks /\ chain' = chain
    <3>1. CASE RunNextChain(NoLock, info, lastTasks, chain)
      BY <3>1, RunNextChainFacts DEF IInv, TypeInv, Locks
    <3>2. CASE lock' = NoLock /\ UNCHANGED <<info, lastTasks, chain, runAfter>>
      BY <3>2 DEF IInv, TypeInv
    <3>. QED
      BY <1>1, <3>1, <3>2 DEF UnlockAndRunNext
  <2>2. TypeInv'
    BY <2>1, IdleGood DEF Epilogue, Finish, IInv, TypeInv, Locks
  <2>3. RecordedRuns'
    BY <2>1 DEF IInv, RecordedRuns, Recorded, Live
  <2>. QED
    BY <2>1, <2>2, <2>3, Released DEF IInv
<1>2. CASE ~LookupReady(p) /\ UNCHANGED <<lock, info, lastTasks, runAfter, chain>>
  <2>1. Recorded'
    BY <1>2 DEF LookupReady, IsChainReady, Recorded
  <2>2. TypeInv'
    BY <1>2, IdleGood DEF Epilogue, Finish, IInv, TypeInv
  <2>3. RecordedRuns'
    BY <1>2 DEF IInv, RecordedRuns, Recorded, Live
  <2>4. \A q \in Procs : Deleting(q) => Deleting(q)'
    BY DEF Epilogue, Finish, Deleting, IInv, TypeInv, GoodProc, ProcOK
  <2>. QED
    BY <1>2, <2>1, <2>2, <2>3, <2>4 DEF IInv, LockHasOwner, DeleteInProgress
<1>. QED
  BY <1>1, <1>2 DEF Epilogue

(* Delete preserves the invariant. *)
LEMMA DeleteStep ==
    ASSUME IInv, NEW p \in Procs, NEW kind \in {"delete", "bulk_delete"}, Delete(p, kind)
    PROVE  IInv'
<1>1. TypeInv'
  BY BeginGood DEF Delete, IInv, TypeInv, Locks, AllKinds
<1>2. RecordedRuns'
  BY DEF Delete, IInv, RecordedRuns, Recorded, Live
<1>3. Deleting(p)' /\ Holding(p)'
  BY DEF Delete, IInv, TypeInv, Deleting, Holding, Idle
<1>. QED
  BY <1>1, <1>2, <1>3 DEF IInv, DeleteInProgress, LockHasOwner

(* DeleteBody preserves the invariant. *)
LEMMA DeleteBodyStep == ASSUME IInv, NEW p \in Procs, DeleteBody(p) PROVE IInv'
<1>1. ForgetLast \in SUBSET Chains /\ NoInfo \in ChainInfo
  BY DEF ForgetLast, IInv, TypeInv, NoInfo, ChainInfo, ChainStates
<1>2. /\ chain' \in [Chains -> GoodChain] /\ info' \in ChainInfo
      /\ lastTasks' \in SUBSET Chains /\ runAfter' \in BOOLEAN
      /\ lock' \in {NoLock, "feature_change"}
      /\ \/ Recorded' /\ RecordedRuns'
         \/ lock' = NoLock /\ info' = NoInfo
  <2>1. CASE RunNextChain(NoLock, NoInfo, ForgetLast, chain)
    BY <1>1, <2>1, RunNextChainFacts DEF IInv, TypeInv, Locks
  <2>2. CASE lock' = NoLock /\ info' = NoInfo /\ lastTasks' = ForgetLast /\ UNCHANGED <<chain, runAfter>>
    BY <1>1, <2>2 DEF IInv, TypeInv
  <2>. QED
    BY <2>1, <2>2 DEF DeleteBody
<1>3. proc' \in [Procs -> GoodProc]
  <2>1. \A r \in GoodProc : [r EXCEPT !.gone = TRUE] \in GoodProc
    BY DEF GoodProc, ProcRecord, ProcOK
  <2>. QED
    BY <2>1, IdleGood DEF DeleteBody, IInv, TypeInv
<1>4. TypeInv'
  BY <1>2, <1>3 DEF DeleteBody, TypeInv, Locks, Statuses
<1>5. RecordedRuns'
  BY <1>2 DEF RecordedRuns, Recorded, NoInfo
<1>. QED
  BY <1>2, <1>4, <1>5, Released DEF IInv

(* FeatureChange preserves the invariant. *)
LEMMA FeatureChangeStep == ASSUME IInv, NEW p \in Procs, FeatureChange(p) PROVE IInv'
<1>1. CASE lock' = "feature_change" /\ StartChain("refresh", lastTasks, chain) /\ runAfter' = runAfter
  <2>1. /\ chain' \in [Chains -> GoodChain] /\ info' \in ChainInfo
        /\ lastTasks' \in SUBSET Chains /\ Recorded' /\ RecordedRuns'
    BY <1>1, StartChainFacts DEF IInv, TypeInv, ChainKinds
  <2>2. TypeInv'
    BY <1>1, <2>1 DEF FeatureChange, IInv, TypeInv, Locks
  <2>. QED
    BY <1>1, <2>1, <2>2, Released DEF IInv
<1>2. CASE runAfter' = TRUE /\ UNCHANGED <<lock, info, lastTasks, chain>>
  <2>1. TypeInv'
    BY <1>2 DEF FeatureChange, IInv, TypeInv
  <2>2. RecordedRuns'
    BY <1>2 DEF IInv, RecordedRuns, Recorded, Live
  <2>. QED
    BY <1>2, <2>1, <2>2, OwnersSame DEF IInv, FeatureChange
<1>. QED
  BY <1>1, <1>2 DEF FeatureChange

-----------------------------------------------------------------------------
(* abort_publication_chain.                                                *)

(* PATCH takes the lock, DELETE has it; the recorded chain is as it was or *)
(* is finished. *)
LEMMA AbortedStep ==
    ASSUME IInv, NEW p \in Procs, proc[p].pc \in {"get_chain", "finish"},
           NEW newInfo \in ChainInfo, newInfo = info \/ newInfo.state # "PENDING",
           Aborted(p, newInfo), UNCHANGED <<lastTasks, chain, exists, status>>
    PROVE  IInv'
<1>1. proc' = [proc EXCEPT ![p].pc = "body"] /\ info' = newInfo
  BY DEF Aborted
<1>2. lock' \in {"patch", lock} /\ runAfter' \in BOOLEAN
  BY DEF Aborted
<1>3. proc' \in [Procs -> GoodProc]
  BY <1>1, BecomeGood DEF IInv, TypeInv
<1>4. TypeInv'
  BY <1>1, <1>2, <1>3 DEF IInv, TypeInv, Locks
<1>5. RecordedRuns'
  BY <1>1 DEF IInv, RecordedRuns, Recorded, Live
<1>6. Holding(p)' /\ \A q \in Procs : Deleting(q) => Deleting(q)'
  BY <1>1 DEF Holding, Deleting, IInv, TypeInv
<1>. QED
  BY <1>2, <1>4, <1>5, <1>6 DEF IInv, DeleteInProgress, LockHasOwner

(* An abortion that raises preserves the invariant. *)
LEMMA AbortRaisesStep ==
    ASSUME IInv, NEW p \in Procs, proc[p].pc \in {"get_chain", "assert", "finish"}, AbortRaises(p),
           UNCHANGED <<exists, status>>
    PROVE  IInv'
<1>1. CASE /\ proc[p].kind \in {"patch", "sync_patch"}
           /\ UNCHANGED <<lock, info, lastTasks, runAfter, chain>>
  <2>1. TypeInv'
    BY <1>1, IdleGood DEF AbortRaises, Finish, IInv, TypeInv
  <2>2. RecordedRuns'
    BY <1>1 DEF IInv, RecordedRuns, Recorded, Live
  <2>3. ~Deleting(p) /\ ~Holding(p)
    BY <1>1 DEF Deleting, Holding
  <2>. QED
    BY <1>1, <2>1, <2>2, <2>3, OwnersKept DEF IInv, AbortRaises, Finish
<1>2. CASE UnlockAfterException(p, LookupSettled(p) /\ LookupReady(p), info, lastTasks)
  BY <1>2, ExceptionStep DEF AbortRaises, IInv, TypeInv
<1>. QED
  BY <1>1, <1>2 DEF AbortRaises

(* A step of the abort loop. *)
LEMMA LoopStep ==
    ASSUME IInv, NEW p \in Procs, proc[p].pc \in {"get_chain", "abort", "assert", "result"},
           NEW r \in GoodProc, r.kind = proc[p].kind, r.pc \in {"abort", "assert", "result", "finish"},
           proc' = [proc EXCEPT ![p] = r], chain' \in [Chains -> GoodChain],
           Live(info.id) => Live(info.id)',
           UNCHANGED <<lock, info, lastTasks, runAfter, exists, status>>
    PROVE  IInv'
<1>1. TypeInv'
  BY DEF IInv, TypeInv
<1>2. RecordedRuns'
  BY DEF IInv, RecordedRuns, Recorded, Live
<1>3. \A q \in Procs : /\ Deleting(q) => Deleting(q)'
                       /\ Holding(q) => Holding(q)'
  BY DEF Deleting, Holding, IInv, TypeInv
<1>. QED
  BY <1>1, <1>2, <1>3 DEF IInv, DeleteInProgress, LockHasOwner, Recorded

(* GetChain preserves the invariant. *)
LEMMA GetChainStep == ASSUME IInv, NEW p \in Procs, GetChain(p) PROVE IInv'
<1>1. CASE Aborted(p, info) /\ UNCHANGED <<lastTasks, chain>>
  BY <1>1, AbortedStep DEF GetChain, IInv, TypeInv
<1>2. CASE /\ ~IsChainReady
           /\ proc' = [proc EXCEPT ![p].pc = "abort", ![p].target = info.id, ![p].at = 1]
           /\ UNCHANGED <<lock, info, lastTasks, runAfter, chain>>
  <2>1. info.id \in Chains
    BY <1>2 DEF IsChainReady, IInv, TypeInv, ChainInfo
  <2>2. \A r \in GoodProc : [r EXCEPT !.pc = "abort", !.target = info.id, !.at = 1] \in GoodProc
    <3>1. 1 \in 1..ChainLen + 1
      BY LayerChainAssumption
    <3>2. \A r \in ProcRecord :
            [r EXCEPT !.pc = "abort", !.target = info.id, !.at = 1] \in ProcRecord
      BY <2>1, <3>1 DEF ProcRecord, Pcs
    <3>3. \A r \in ProcRecord :
            LET s == [r EXCEPT !.pc = "abort", !.target = info.id, !.at = 1]
            IN  s.pc = "abort" /\ s.target = info.id
      BY DEF ProcRecord
    <3>. QED
      BY <2>1, <3>2, <3>3 DEF GoodProc, ProcOK
  <2>3. proc[p] \in GoodProc
    BY DEF IInv, TypeInv
  <2>4. LET r == [proc[p] EXCEPT !.pc = "abort", !.target = info.id, !.at = 1]
        IN  r.kind = proc[p].kind /\ r.pc = "abort"
    BY <2>3 DEF GoodProc, ProcRecord
  <2>5. proc' = [proc EXCEPT ![p] = [proc[p] EXCEPT !.pc = "abort", !.target = info.id, !.at = 1]]
    BY <1>2 DEF IInv, TypeInv
  <2>. QED
    BY <1>2, <2>2, <2>3, <2>4, <2>5, LoopStep DEF GetChain, IInv, TypeInv, Live
<1>3. CASE AbortRaises(p)
  BY <1>3, AbortRaisesStep DEF GetChain
<1>. QED
  BY <1>1, <1>2, <1>3 DEF GetChain

(* GetChainRaises preserves the invariant. *)
LEMMA GetChainRaisesStep == ASSUME IInv, NEW p \in Procs, GetChainRaises(p) PROVE IInv'
BY AbortRaisesStep DEF GetChainRaises

(* WaitForAbort preserves the invariant. *)
LEMMA WaitForAbortStep == ASSUME IInv, NEW p \in Procs, WaitForAbort(p) PROVE IInv'
<1>1. CASE /\ Aborted(p, [info EXCEPT !.finished = TRUE, !.state = "ABORTED"])
           /\ UNCHANGED <<lastTasks, chain>>
  <2>1. [info EXCEPT !.finished = TRUE, !.state = "ABORTED"] \in ChainInfo
    BY DEF IInv, TypeInv, ChainInfo, ChainStates
  <2>2. [info EXCEPT !.finished = TRUE, !.state = "ABORTED"].state # "PENDING"
    BY DEF IInv, TypeInv, ChainInfo
  <2>. QED
    BY <1>1, <2>1, <2>2, AbortedStep DEF WaitForAbort
<1>2. CASE AbortRaises(p)
  BY <1>2, AbortRaisesStep DEF WaitForAbort
<1>. QED
  BY <1>1, <1>2 DEF WaitForAbort

(* AbortTask preserves the invariant. *)
LEMMA AbortTaskStep == ASSUME IInv, NEW p \in Procs, AbortTask(p) PROVE IInv'
<1>1. proc[p] \in GoodProc /\ proc[p].pc = "abort"
  BY DEF AbortTask, IInv, TypeInv
<1>2. proc[p].target \in Chains /\ chain[proc[p].target] \in GoodChain
  BY <1>1 DEF GoodProc, ProcOK, IInv, TypeInv
<1>3. proc[p].at \in TasksOf(proc[p].target) => proc[p].at \in Positions
  BY <1>2, LayerChainAssumption DEF TasksOf, Positions, LastPos
<1>4. CASE /\ proc' = [proc EXCEPT ![p].pc = "finish", ![p].target = NoChain]
           /\ UNCHANGED chain
  <2>1. \A r \in ProcRecord : LET s == [r EXCEPT !.pc = "finish", !.target = NoChain]
                              IN  s \in ProcRecord /\ s.pc = "finish" /\ s.kind = r.kind
    BY DEF ProcRecord, Pcs
  <2>2. LET s == [proc[p] EXCEPT !.pc = "finish", !.target = NoChain]
        IN  s \in GoodProc /\ s.pc = "finish" /\ s.kind = proc[p].kind
    BY <1>1, <2>1 DEF GoodProc, ProcOK
  <2>3. proc' = [proc EXCEPT ![p] = [proc[p] EXCEPT !.pc = "finish", !.target = NoChain]]
    BY <1>4 DEF IInv, TypeInv
  <2>. QED
    BY <1>1, <1>4, <2>2, <2>3, LoopStep DEF AbortTask, IInv, TypeInv, Live
<1>5. proc[p].at \in Positions =>
        LET s == [proc[p] EXCEPT !.at = proc[p].at + 1]
        IN  s \in GoodProc /\ s.pc = "abort" /\ s.kind = proc[p].kind
  <2>1. \A r \in ProcRecord : r.at \in Positions =>
          LET s == [r EXCEPT !.at = r.at + 1]
          IN  s \in ProcRecord /\ s.pc = r.pc /\ s.kind = r.kind /\ s.target = r.target
    BY LayerChainAssumption DEF ProcRecord, Positions
  <2>. QED
    BY <1>1, <2>1 DEF GoodProc, ProcOK
<1>6. CASE /\ proc[p].at \in TasksOf(proc[p].target)
           /\ proc' = [proc EXCEPT ![p].at = proc[p].at + 1]
           /\ UNCHANGED chain
  <2>1. proc' = [proc EXCEPT ![p] = [proc[p] EXCEPT !.at = proc[p].at + 1]]
    BY <1>6 DEF IInv, TypeInv
  <2>. QED
    BY <1>1, <1>3, <1>5, <1>6, <2>1, LoopStep DEF AbortTask, IInv, TypeInv, Live
<1>7. CASE /\ proc[p].at \in TasksOf(proc[p].target)
           /\ chain[proc[p].target].result[proc[p].at] \notin ReadyStates
           /\ chain' = [chain EXCEPT ![proc[p].target].result[proc[p].at] = "ABORTED"]
           /\ \/ proc' = [proc EXCEPT ![p].pc = "result"]
              \/ proc' = [proc EXCEPT ![p].at = proc[p].at + 1]
  <2>1. chain' = [chain EXCEPT ![proc[p].target] =
                     [chain[proc[p].target] EXCEPT !.result[proc[p].at] = "ABORTED"]]
    BY <1>7, <1>2 DEF IInv, TypeInv
  <2>2. chain' \in [Chains -> GoodChain]
    BY <1>2, <1>3, <1>7, <2>1, AbortGood DEF IInv, TypeInv
  <2>3. \A c \in Chains : chain'[c].phase = chain[c].phase
    BY <1>2, <2>1 DEF IInv, TypeInv, GoodChain, ChainRecord
  <2>4. Live(info.id) => Live(info.id)'
    <3>1. CASE info.id \in Chains
      BY <2>3, <3>1 DEF Live, AbortTask
    <3>2. CASE info.id \notin Chains
      BY <2>1, <3>2, <1>2 DEF Live, AbortTask, IInv, TypeInv
    <3>. QED
      BY <3>1, <3>2
  <2>5. CASE proc' = [proc EXCEPT ![p].pc = "result"]
    <3>1. \A r \in ProcRecord : LET s == [r EXCEPT !.pc = "result"]
                                IN  /\ s \in ProcRecord /\ s.pc = "result" /\ s.kind = r.kind
                                    /\ s.target = r.target /\ s.at = r.at
      BY DEF ProcRecord, Pcs
    <3>2. LET s == [proc[p] EXCEPT !.pc = "result"]
          IN  s \in GoodProc /\ s.pc = "result" /\ s.kind = proc[p].kind
      BY <1>1, <1>2, <1>3, <1>7, <3>1 DEF GoodProc, ProcOK
    <3>3. proc' = [proc EXCEPT ![p] = [proc[p] EXCEPT !.pc = "result"]]
      BY <2>5 DEF IInv, TypeInv
    <3>. QED
      BY <1>1, <2>2, <2>4, <3>2, <3>3, LoopStep DEF AbortTask
  <2>6. CASE proc' = [proc EXCEPT ![p].at = proc[p].at + 1]
    <3>1. proc' = [proc EXCEPT ![p] = [proc[p] EXCEPT !.at = proc[p].at + 1]]
      BY <2>6 DEF IInv, TypeInv
    <3>. QED
      BY <1>1, <1>3, <1>5, <1>7, <2>2, <2>4, <3>1, LoopStep DEF AbortTask
  <2>. QED
    BY <1>7, <2>5, <2>6
<1>. QED
  BY <1>4, <1>6, <1>7 DEF AbortTask

(* AbortPending preserves the invariant. *)
LEMMA AbortPendingStep == ASSUME IInv, NEW p \in Procs, AbortPending(p) PROVE IInv'
<1>1. proc[p] \in GoodProc /\ proc[p].pc = "abort" /\ MayRaise
  BY DEF AbortPending, IInv, TypeInv
<1>2. proc[p].target \in Chains /\ chain[proc[p].target] \in GoodChain
  BY <1>1 DEF GoodProc, ProcOK, IInv, TypeInv
<1>3. proc[p].at \in Positions /\ chain[proc[p].target].result[proc[p].at] \notin ReadyStates
  BY <1>2, LayerChainAssumption DEF AbortPending, TasksOf, Positions, LastPos, ReadyStates
<1>4. chain' = [chain EXCEPT ![proc[p].target] =
                   [chain[proc[p].target] EXCEPT !.result[proc[p].at] = "ABORTED"]]
  BY <1>2 DEF AbortPending, IInv, TypeInv
<1>5. chain' \in [Chains -> GoodChain]
  BY <1>2, <1>3, <1>4, AbortGood DEF IInv, TypeInv
<1>6. \A c \in Chains : chain'[c].phase = chain[c].phase
  BY <1>2, <1>4 DEF IInv, TypeInv, GoodChain, ChainRecord
<1>7. Live(info.id) => Live(info.id)'
  <2>1. CASE info.id \in Chains
    BY <1>6, <2>1 DEF Live, AbortPending
  <2>2. CASE info.id \notin Chains
    BY <1>4, <2>2, <1>2 DEF Live, AbortPending, IInv, TypeInv
  <2>. QED  BY <2>1, <2>2
<1>8. \A r \in ProcRecord : LET s == [r EXCEPT !.pc = "assert"]
                            IN  /\ s \in ProcRecord /\ s.pc = "assert" /\ s.kind = r.kind
                                /\ s.target = r.target /\ s.at = r.at
  BY DEF ProcRecord, Pcs
<1>9. LET s == [proc[p] EXCEPT !.pc = "assert"]
      IN  s \in GoodProc /\ s.pc = "assert" /\ s.kind = proc[p].kind
  BY <1>1, <1>2, <1>3, <1>8 DEF GoodProc, ProcOK
<1>10. proc' = [proc EXCEPT ![p] = [proc[p] EXCEPT !.pc = "assert"]]
  BY DEF AbortPending, IInv, TypeInv
<1>. QED
  BY <1>1, <1>5, <1>7, <1>9, <1>10, LoopStep DEF AbortPending

(* On to the next task of the abort loop. *)
LEMMA NextTaskStep ==
    ASSUME IInv, NEW p \in Procs, proc[p].pc \in {"assert", "result"},
           proc' = [proc EXCEPT ![p].pc = "abort", ![p].at = @ + 1],
           UNCHANGED <<lock, info, lastTasks, runAfter, chain, exists, status>>
    PROVE  IInv'
<1>1. proc[p] \in GoodProc /\ proc[p].pc \in {"assert", "result"}
  BY DEF IInv, TypeInv
<1>2. proc[p].at \in Positions /\ proc[p].target \in Chains
  BY <1>1 DEF GoodProc, ProcOK
<1>3. \A r \in ProcRecord : \A i \in 1..ChainLen + 1 :
        LET s == [r EXCEPT !.pc = "abort", !.at = i]
        IN  s \in ProcRecord /\ s.pc = "abort" /\ s.kind = r.kind /\ s.target = r.target
  BY DEF ProcRecord, Pcs
<1>4. proc[p].at + 1 \in 1..ChainLen + 1
  BY <1>2, LayerChainAssumption DEF Positions
<1>5. LET s == [proc[p] EXCEPT !.pc = "abort", !.at = proc[p].at + 1]
      IN  s \in GoodProc /\ s.pc = "abort" /\ s.kind = proc[p].kind
  BY <1>1, <1>2, <1>3, <1>4 DEF GoodProc, ProcOK
<1>6. proc' = [proc EXCEPT ![p] = [proc[p] EXCEPT !.pc = "abort", !.at = proc[p].at + 1]]
  BY DEF IInv, TypeInv
<1>. QED
  BY <1>1, <1>5, <1>6, LoopStep DEF IInv, TypeInv, Live

(* AssertAborted preserves the invariant. *)
LEMMA AssertAbortedStep == ASSUME IInv, NEW p \in Procs, AssertAborted(p) PROVE IInv'
<1>1. CASE AbortRaises(p)
  BY <1>1, AbortRaisesStep DEF AssertAborted
<1>2. CASE ~AbortRaises(p)
  BY <1>2, NextTaskStep DEF AssertAborted
<1>. QED  BY <1>1, <1>2

(* AwaitResult preserves the invariant. *)
LEMMA AwaitResultStep == ASSUME IInv, NEW p \in Procs, AwaitResult(p) PROVE IInv'
BY NextTaskStep DEF AwaitResult

-----------------------------------------------------------------------------
(* Celery workers.                                                         *)

(* A chain goes on, its info stays, no request moves. *)
LEMMA ChainGoesOn ==
    ASSUME IInv, NEW c \in Chains, NEW r \in GoodChain, chain' = [chain EXCEPT ![c] = r],
           Live(c) => r.phase \in {"queued", "running", "stored"},
           exists' \in BOOLEAN, status' \in Statuses,
           UNCHANGED <<lock, info, lastTasks, runAfter, proc>>
    PROVE  IInv'
<1>1. TypeInv'
  BY DEF IInv, TypeInv
<1>2. RecordedRuns'
  BY DEF IInv, TypeInv, RecordedRuns, Recorded, Live
<1>. QED
  BY <1>1, <1>2, OwnersSame DEF IInv

(* TaskPrerun preserves the invariant. *)
LEMMA TaskPrerunStep == ASSUME IInv, NEW c \in Chains, TaskPrerun(c) PROVE IInv'
<1>1. chain[c] \in GoodChain
  BY DEF IInv, TypeInv
<1>2. \A r \in ChainRecord :
        LET s == [r EXCEPT !.phase = "running", !.result[r.pos] = "STARTED"]
        IN  s \in ChainRecord /\ s.phase = "running" /\ s.kind = r.kind /\ s.pos = r.pos
  BY DEF ChainRecord, Phases, TaskStates
<1>3. LET s == [chain[c] EXCEPT !.phase = "running", !.result[chain[c].pos] = "STARTED"]
      IN  s \in GoodChain /\ s.phase = "running"
  BY <1>1, <1>2 DEF GoodChain, ChainOK
<1>4. chain' = [chain EXCEPT ![c] =
                  [chain[c] EXCEPT !.phase = "running", !.result[chain[c].pos] = "STARTED"]]
  BY DEF TaskPrerun, IInv, TypeInv
<1>. QED
  BY <1>3, <1>4, ChainGoesOn DEF TaskPrerun, IInv, TypeInv

(* TaskSucceeds preserves the invariant. *)
LEMMA TaskSucceedsStep == ASSUME IInv, NEW c \in Chains, TaskSucceeds(c) PROVE IInv'
<1>1. chain[c] \in GoodChain
  BY DEF IInv, TypeInv
<1>2. LastPos(chain[c].kind) \in Positions
  BY LayerChainAssumption DEF LastPos, Positions
<1>3. status' \in Statuses
  BY DEF TaskSucceeds, IInv, TypeInv, Statuses
<1>4. CASE chain[c].pos = LastPos(chain[c].kind)
  <2>1. \A r \in ChainRecord :
          LET s == [r EXCEPT !.result[r.pos] = "SUCCESS", !.phase = "stored", !.pos = r.pos]
          IN  /\ s \in ChainRecord /\ s.phase = "stored" /\ s.kind = r.kind /\ s.pos = r.pos
              /\ s.result[s.pos] = "SUCCESS"
    BY DEF ChainRecord, Phases, TaskStates
  <2>2. LET s == [chain[c] EXCEPT !.result[chain[c].pos] = "SUCCESS", !.phase = "stored",
                                  !.pos = chain[c].pos]
        IN  s \in GoodChain /\ s.phase = "stored"
    BY <1>1, <1>4, <2>1 DEF GoodChain, ChainOK, ReadyStates
  <2>3. chain' = [chain EXCEPT ![c] =
                    [chain[c] EXCEPT !.result[chain[c].pos] = "SUCCESS", !.phase = "stored",
                                     !.pos = chain[c].pos]]
    BY <1>4 DEF TaskSucceeds, IInv, TypeInv
  <2>. QED
    BY <1>3, <2>2, <2>3, ChainGoesOn DEF TaskSucceeds, IInv, TypeInv
<1>5. CASE chain[c].pos # LastPos(chain[c].kind)
  <2>1. chain[c].pos + 1 \in Positions /\ chain[c].pos + 1 <= LastPos(chain[c].kind)
    BY <1>1, <1>2, <1>5, LayerChainAssumption DEF GoodChain, ChainRecord, ChainOK, Positions
  <2>2. \A r \in ChainRecord : \A i \in Positions :
          LET s == [r EXCEPT !.result[r.pos] = "SUCCESS", !.phase = "queued", !.pos = i]
          IN  s \in ChainRecord /\ s.phase = "queued" /\ s.kind = r.kind /\ s.pos = i
    BY DEF ChainRecord, Phases, TaskStates
  <2>3. LET s == [chain[c] EXCEPT !.result[chain[c].pos] = "SUCCESS", !.phase = "queued",
                                  !.pos = chain[c].pos + 1]
        IN  s \in GoodChain /\ s.phase = "queued"
    BY <1>1, <2>1, <2>2 DEF GoodChain, ChainOK
  <2>4. chain' = [chain EXCEPT ![c] =
                    [chain[c] EXCEPT !.result[chain[c].pos] = "SUCCESS", !.phase = "queued",
                                     !.pos = chain[c].pos + 1]]
    BY <1>5 DEF TaskSucceeds, IInv, TypeInv
  <2>. QED
    BY <1>3, <2>3, <2>4, ChainGoesOn DEF TaskSucceeds, IInv, TypeInv
<1>. QED
  BY <1>4, <1>5

(* TaskFails preserves the invariant. *)
LEMMA TaskFailsStep == ASSUME IInv, NEW c \in Chains, TaskFails(c) PROVE IInv'
<1>1. chain[c] \in GoodChain
  BY DEF IInv, TypeInv
<1>2. \A g \in [Positions -> TaskStates] : \A j \in Positions :
        LET f == [i \in Positions |-> IF i >= j THEN "FAILURE" ELSE g[i]]
        IN  f \in [Positions -> TaskStates] /\ f[j] = "FAILURE"
  <2>1. TAKE g \in [Positions -> TaskStates]
  <2>2. TAKE j \in Positions
  <2>3. j >= j
    BY DEF Positions
  <2>. QED
    BY <2>3 DEF TaskStates
<1>3. \A r \in ChainRecord : \A f \in [Positions -> TaskStates] :
        LET s == [r EXCEPT !.phase = "stored", !.result = f]
        IN  /\ s \in ChainRecord /\ s.phase = "stored" /\ s.kind = r.kind /\ s.pos = r.pos
            /\ s.result = f
  BY DEF ChainRecord, Phases
<1>4. DEFINE f == [i \in Positions |-> IF i >= chain[c].pos THEN "FAILURE" ELSE chain[c].result[i]]
             s == [chain[c] EXCEPT !.phase = "stored", !.result = f]
<1>5. f \in [Positions -> TaskStates] /\ f[chain[c].pos] = "FAILURE"
  BY <1>1, <1>2 DEF GoodChain, ChainRecord
<1>6. chain' = [chain EXCEPT ![c] = s]
  BY DEF TaskFails, IInv, TypeInv
<1>7. s \in GoodChain /\ s.phase = "stored"
  <2>. HIDE DEF f
  <2>. QED
    BY <1>1, <1>3, <1>5 DEF GoodChain, ChainOK, ReadyStates
<1>. QED
  BY <1>6, <1>7, ChainGoesOn DEF TaskFails, IInv, TypeInv

(* finish_publication_chain releases the lock, but that of DELETE, which   *)
(* its request releases; the recorded chain counts as running no more.     *)
LEMMA FinishedFacts ==
    ASSUME IInv, NEW state \in ReadyStates, info' = FinishedInfo(state), lock' = FinishedLock,
           proc' = proc
    PROVE  /\ info' \in ChainInfo /\ lock' \in Locks
           /\ RecordedRuns' /\ DeleteInProgress' /\ LockHasOwner'
<1>1. info' \in ChainInfo /\ info'.state = state
  <2>1. \A i \in ChainInfo : \A st \in ChainStates :
          LET j == [i EXCEPT !.finished = TRUE, !.state = st]
          IN  j \in ChainInfo /\ j.state = st
    BY DEF ChainInfo
  <2>2. state \in ChainStates /\ info \in ChainInfo
    BY DEF ReadyStates, ChainStates, IInv, TypeInv
  <2>3. info' = [info EXCEPT !.finished = TRUE, !.state = state]
    BY DEF FinishedInfo
  <2>. QED
    BY <2>1, <2>2, <2>3
<1>2. lock' = NoLock \/ (lock' = "delete" /\ lock = "delete")
  BY DEF FinishedLock, IInv, TypeInv, Locks, NoLock
<1>3. RecordedRuns'
  BY <1>1 DEF RecordedRuns, Recorded, ReadyStates
<1>4. CASE lock' = NoLock
  BY <1>1, <1>3, <1>4, Released DEF Locks
<1>5. CASE lock' = "delete" /\ lock = "delete"
  <2>1. PICK q \in Procs : Deleting(q)
    BY <1>5 DEF IInv, DeleteInProgress
  <2>2. Deleting(q)' /\ Holding(q)'
    BY <2>1 DEF Deleting, Holding
  <2>. QED
    BY <1>1, <1>3, <1>5, <2>2 DEF DeleteInProgress, LockHasOwner, Locks
<1>. QED
  BY <1>2, <1>4, <1>5

(* task_postrun is called with a result that is ready. *)
LEMMA PostrunStateReady ==
    ASSUME IInv, NEW c \in Chains, chain[c].phase = "stored"
    PROVE  /\ PostrunState(c) \in ReadyStates
           /\ ~IsLast(c) => PostrunState(c) = "FAILURE"
BY DEF IInv, TypeInv, GoodChain, ChainOK, PostrunState, IsLast

(* PostrunOfLast preserves the invariant. *)
LEMMA PostrunOfLastStep == ASSUME IInv, NEW c \in Chains, PostrunOfLast(c) PROVE IInv'
<1>1. chain' \in [Chains -> GoodChain]
  BY PhaseGood DEF PostrunOfLast, IInv, TypeInv, Phases
<1>2. CASE info' = FinishedInfo(PostrunState(c)) /\ lock' = FinishedLock
  <2>1. /\ info' \in ChainInfo /\ lock' \in Locks
        /\ RecordedRuns' /\ DeleteInProgress' /\ LockHasOwner'
    BY <1>2, PostrunStateReady, FinishedFacts DEF PostrunOfLast
  <2>. QED
    BY <1>1, <2>1 DEF PostrunOfLast, IInv, TypeInv
<1>3. CASE info.id = NoChain /\ UNCHANGED <<info, lock>>
  <2>1. TypeInv'
    BY <1>1, <1>3 DEF PostrunOfLast, IInv, TypeInv
  <2>2. RecordedRuns'
    BY <1>3 DEF RecordedRuns, Recorded
  <2>. QED
    BY <1>3, <2>1, <2>2, OwnersSame DEF PostrunOfLast, IInv
<1>. QED
  BY <1>2, <1>3 DEF PostrunOfLast

(* A chain that is over, or as good as over, may be forgotten. *)
LEMMA ChainOverKept ==
    ASSUME IInv, NEW c \in Chains, NEW ph \in Phases \ {"stored"},
           chain' = [chain EXCEPT ![c].phase = ph],
           ~Live(c) \/ ~Recorded \/ info.id # c,
           UNCHANGED <<lock, info, lastTasks, proc>>,
           runAfter' \in BOOLEAN, exists' \in BOOLEAN, status' \in Statuses
    PROVE  IInv'
<1>1. TypeInv'
  BY PhaseGood DEF IInv, TypeInv
<1>2. RecordedRuns'
  BY DEF IInv, TypeInv, RecordedRuns, Recorded, Live
<1>. QED
  BY <1>1, <1>2, OwnersSame DEF IInv

(* PostrunRunNext preserves the invariant. *)
LEMMA PostrunRunNextStep == ASSUME IInv, NEW c \in Chains, PostrunRunNext(c) PROVE IInv'
<1>1. ~Live(c)
  BY DEF PostrunRunNext, Live
<1>2. CASE RunNextChain(lock, info, lastTasks, [chain EXCEPT ![c].phase = "over"])
  <2>1. [chain EXCEPT ![c].phase = "over"] \in [Chains -> GoodChain]
    BY PhaseGood DEF IInv, TypeInv, Phases
  <2>2. /\ chain' \in [Chains -> GoodChain] /\ info' \in ChainInfo
        /\ lastTasks' \in SUBSET Chains /\ runAfter' \in BOOLEAN /\ lock' \in Locks
        /\ \/ lock' = "feature_change" /\ Recorded' /\ RecordedRuns'
           \/ /\ lock' = lock /\ info' = info /\ lastTasks' = lastTasks
              /\ chain' = [chain EXCEPT ![c].phase = "over"]
    BY <1>2, <2>1, RunNextChainFacts DEF IInv, TypeInv
  <2>3. CASE lock' = "feature_change" /\ Recorded' /\ RecordedRuns'
    BY <2>2, <2>3, Released DEF PostrunRunNext, IInv, TypeInv
  <2>4. CASE /\ lock' = lock /\ info' = info /\ lastTasks' = lastTasks
             /\ chain' = [chain EXCEPT ![c].phase = "over"]
    BY <1>1, <2>2, <2>4, ChainOverKept DEF PostrunRunNext, IInv, TypeInv, Phases
  <2>. QED
    BY <2>2, <2>3, <2>4
<1>3. CASE /\ chain' = [chain EXCEPT ![c].phase = "over"]
           /\ UNCHANGED <<lock, info, lastTasks, runAfter>>
  BY <1>1, <1>3, ChainOverKept DEF PostrunRunNext, IInv, TypeInv, Phases
<1>. QED
  BY <1>2, <1>3 DEF PostrunRunNext

(* PostrunOfOther preserves the invariant. *)
LEMMA PostrunOfOtherStep == ASSUME IInv, NEW c \in Chains, PostrunOfOther(c) PROVE IInv'
<1>1. CASE /\ chain' = [chain EXCEPT ![c].phase = "set_status"]
           /\ info.id \in lastTasks
           /\ lastTasks' = lastTasks \ {info.id}
           /\ info' = FinishedInfo("FAILURE")
           /\ lock' = FinishedLock
           /\ runAfter' = FALSE
  <2>1. /\ info' \in ChainInfo /\ lock' \in Locks
        /\ RecordedRuns' /\ DeleteInProgress' /\ LockHasOwner'
    BY <1>1, FinishedFacts DEF PostrunOfOther, ReadyStates
  <2>2. chain' \in [Chains -> GoodChain]
    BY <1>1, PhaseGood DEF IInv, TypeInv, Phases
  <2>. QED
    BY <1>1, <2>1, <2>2 DEF PostrunOfOther, IInv, TypeInv
<1>2. CASE /\ chain' = [chain EXCEPT ![c].phase = "set_status"]
           /\ info.id \notin lastTasks
           /\ UNCHANGED <<lastTasks, info, lock>>
           /\ runAfter' = FALSE
  <2>1. ~Recorded
    BY <1>2 DEF IInv, RecordedRuns
  <2>. QED
    BY <1>2, <2>1, ChainOverKept DEF PostrunOfOther, IInv, TypeInv, Phases
<1>3. CASE /\ ~(PostrunState(c) = "FAILURE" /\ info.id # NoChain)
           /\ chain' = [chain EXCEPT ![c].phase = "over"]
           /\ UNCHANGED <<runAfter, lastTasks, info, lock>>
  <2>1. ~Recorded \/ info.id # c
    <3>1. SUFFICES ASSUME Recorded, info.id = c
                   PROVE  FALSE
      OBVIOUS
    <3>2. ~IsLast(c)
      BY <3>1 DEF PostrunOfOther, IInv, RecordedRuns
    <3>. QED
      BY <1>3, <3>1, <3>2, PostrunStateReady DEF PostrunOfOther, Recorded
  <2>. QED
    BY <1>3, <2>1, ChainOverKept DEF PostrunOfOther, IInv, TypeInv, Phases
<1>. QED
  BY <1>1, <1>2, <1>3 DEF PostrunOfOther

(* PostrunSetStatus preserves the invariant. *)
LEMMA PostrunSetStatusStep == ASSUME IInv, NEW c \in Chains, PostrunSetStatus(c) PROVE IInv'
<1>1. ~Live(c)
  BY DEF PostrunSetStatus, Live
<1>2. status' \in Statuses
  BY DEF PostrunSetStatus, IInv, TypeInv, Statuses
<1>. QED
  BY <1>1, <1>2, ChainOverKept DEF PostrunSetStatus, IInv, TypeInv, Phases

-----------------------------------------------------------------------------
(* The invariant.                                                          *)

(* Without chain info, nothing is recorded as running. *)
LEMMA NothingRecorded ==
    ASSUME lock = NoLock, info = NoInfo
    PROVE  RecordedRuns /\ DeleteInProgress /\ LockHasOwner
BY DEF NoInfo, RecordedRuns, Recorded, DeleteInProgress, LockHasOwner, NoLock

(* The invariant holds initially. *)
LEMMA InitInv == Init => IInv
<1>1. NoInfo \in ChainInfo
  BY DEF NoInfo, ChainInfo, ChainStates
<1>2. Init => TypeInv
  BY <1>1, IdleGood, UnsentGood DEF Init, TypeInv, Locks, Statuses
<1>. QED
  BY <1>2, NothingRecorded DEF Init, IInv

(* A restart preserves the invariant. *)
LEMMA RestartStep == IInv /\ Restart => IInv'
<1>1. NoInfo \in ChainInfo
  BY DEF NoInfo, ChainInfo, ChainStates
<1>2. IInv /\ Restart => TypeInv'
  BY <1>1, IdleGood, UnsentGood DEF Restart, IInv, TypeInv, Locks, Statuses
<1>3. Restart => RecordedRuns' /\ DeleteInProgress' /\ LockHasOwner'
  BY DEF Restart, NoInfo, RecordedRuns, Recorded, DeleteInProgress, LockHasOwner, NoLock
<1>. QED
  BY <1>2, <1>3 DEF IInv

(* Every step preserves the invariant. *)
LEMMA StepInv == IInv /\ [Next]_vars => IInv'
<1>. SUFFICES ASSUME IInv, [Next]_vars
              PROVE  IInv'
  OBVIOUS
<1>1. CASE UNCHANGED vars
  BY <1>1 DEF vars, IInv, TypeInv, RecordedRuns, Recorded, Live, DeleteInProgress, Deleting,
              LockHasOwner, Holding
<1>2. ASSUME NEW p \in Procs, Request(p)
      PROVE  IInv'
  BY <1>2, PostStep, PatchStep, DeleteStep, FeatureChangeStep DEF Request
<1>3. ASSUME NEW p \in Procs, Handle(p)
      PROVE  IInv'
  <2>1. CASE PatchRaises(p) \/ ResponseRaises(p) \/ DeleteRaises(p)
    BY <2>1, RaisedStep DEF PatchRaises, ResponseRaises, DeleteRaises
  <2>2. CASE PostBody(p) \/ PostRaises(p)
    BY <2>2, PostBodyStep, PostRaisesStep
  <2>3. CASE \/ PatchData(p) \/ PatchMetadata(p) \/ PatchSyncOnly(p)
             \/ PatchDataRaises(p) \/ Epilogue(p)
    BY <2>3, PatchBodyStep, PatchDataRaisesStep, EpilogueStep
  <2>4. CASE \/ DeleteBody(p) \/ GetChain(p) \/ GetChainRaises(p)
             \/ AbortTask(p) \/ AbortPending(p) \/ AssertAborted(p)
             \/ AwaitResult(p) \/ WaitForAbort(p)
    BY <2>4, DeleteBodyStep, GetChainStep, GetChainRaisesStep, AbortTaskStep, AbortPendingStep,
       AssertAbortedStep, AwaitResultStep, WaitForAbortStep
  <2>. QED
    BY <1>3, <2>1, <2>2, <2>3, <2>4 DEF Handle
<1>4. ASSUME NEW c \in Chains, RunTask(c)
      PROVE  IInv'
  BY <1>4, TaskPrerunStep, TaskSucceedsStep, TaskFailsStep, PostrunOfLastStep, PostrunRunNextStep,
     PostrunOfOtherStep, PostrunSetStatusStep DEF RunTask
<1>5. CASE Restart
  BY <1>5, RestartStep
<1>. QED
  BY <1>1, <1>2, <1>3, <1>4, <1>5 DEF Next

(* The variables keep their types, whatever the requests.                  *)
(* Code: common/redis.py and celery.py, that alone write what they hold.   *)
THEOREM TypeCorrect == Spec => []TypeOK
<1>1. IInv => TypeOK
  BY DEF IInv, TypeInv, TypeOK, GoodChain, GoodProc
<1>. QED
  BY <1>1, InitInv, StepInv, PTL DEF Spec

(* The lock of a layer is never left behind: however many processes, in    *)
(* whatever order requests and tasks interleave, time out or raise, there  *)
(* is a request in progress or a running chain that will release the lock. *)
(* Code: the lock decorator and its relatives, finish_publication_chain.   *)
THEOREM LockNeverLeftBehind == Spec => []LockOwned
<1>1. IInv => LockOwned
  BY DEF IInv, RecordedRuns, LockHasOwner, LockOwned
<1>. QED
  BY <1>1, InitInv, StepInv, PTL DEF Spec
-----------------------------------------------------------------------------
(***************************************************************************)
(* Theorems about LayerChain when one process sends all the edits of the   *)
(* layer, one after another; the others post it and change its features,   *)
(* whenever they like.  Nothing raises and no wait times out; processes,   *)
(* chains and tasks in a chain are as many as they are.                    *)
(***************************************************************************)

(* Only process e patches or deletes the layer.                            *)
EditsComeFrom(e) == \A q \in Procs : q # e => Kinds[q] \subseteq {"post", "wfst"}

OneEditor == \E e \in Procs : EditsComeFrom(e)

NoFaults == ~MayTimeOut /\ ~MayRaise

-----------------------------------------------------------------------------
(* The inductive invariant.                                                *)

NoneLive == \A c \in Chains : ~Live(c)

(* A chain that runs is the recorded one, under a lock.                    *)
LiveRecorded == \A c \in Chains : Live(c) => Recorded /\ info.id = c /\ lock # NoLock

InfoTells ==
    /\ info.finished <=> info.state # "PENDING"
    /\ info.state = "PENDING" => info.id # NoChain

LastTasksLive == \A c \in lastTasks : Live(c)

ChainInv == LiveRecorded /\ InfoTells /\ LastTasksLive

LockOf(kind) == IF kind = "post" THEN "post"
                ELSE IF kind \in {"delete", "bulk_delete"} THEN "delete"
                ELSE "patch"

(* A request of process p, of the record r, when e is the editor.          *)
RequestOK(e, p, r) ==
    /\ ~r.gone
    /\ r.pc # "idle" =>
          /\ r.kind \in Kinds[p] \ {"wfst"}
          /\ r.kind = "post" => r.pc = "body" /\ ~exists
          /\ r.kind # "post" => p = e /\ exists
          /\ r.pc = "body" \/ (r.pc = "epilogue" /\ r.kind = "sync_patch") => NoneLive /\ lock = LockOf(r.kind)
          /\ r.kind \in {"delete", "bulk_delete"} => lock = "delete"
          /\ r.pc \in {"abort", "result", "finish"} => info.id # NoChain

Alone(p) == \A q \in Procs : q # p => proc[q].pc = "idle"

Requests(e) ==
    /\ \A p \in Procs : RequestOK(e, p, proc[p])
    /\ \A p \in Procs : proc[p].pc # "idle" => Alone(p)

StatusOfNone == ~exists => status = "none"

(* A layer that is being published exists, and has its status once the     *)
(* task that sets it is over.                                              *)
StatusSet == \A c \in Chains :
    Live(c) /\ chain[c].kind = "publish" => exists /\ (chain[c].pos > StatusPos => status # "PREPARING")

StepsAwaited == (\A p \in Procs : "sync_patch" \notin Kinds[p]) => StepAwaited

StatusInv == StatusOfNone /\ StatusSet /\ StepsAwaited /\ PreparingAwaited

EInv(e) == IInv /\ ChainInv /\ Requests(e) /\ StatusInv

-----------------------------------------------------------------------------
(* Chains.                                                                 *)

(* When nothing is recorded as running, nothing runs.                      *)
LEMMA NoneRecorded ==
    ASSUME NEW e, EInv(e), ~Recorded \/ lock = NoLock
    PROVE  NoneLive /\ lastTasks = {} /\ ~Recorded
<1>1. NoneLive
  BY DEF EInv, ChainInv, LiveRecorded, NoneLive
<1>2. lastTasks \subseteq Chains
  BY DEF EInv, IInv, TypeInv
<1>3. lastTasks = {}
  BY <1>1, <1>2 DEF EInv, ChainInv, LastTasksLive, NoneLive
<1>. QED  BY <1>1, <1>3 DEF EInv, IInv, RecordedRuns

LEMMA NoneLiveRecorded ==
    ASSUME NEW e, EInv(e), NoneLive
    PROVE  lastTasks = {} /\ ~Recorded
<1>1. ~Recorded
  <2>1. Recorded => info.id \in Chains /\ Live(info.id)
    BY DEF EInv, IInv, RecordedRuns, TypeInv, ChainInfo, Recorded
  <2>. QED  BY <2>1 DEF NoneLive
<1>. QED  BY <1>1, NoneRecorded

(* What get_publication_chain_info says of a chain.                        *)
LEMMA ReadyFacts ==
    ASSUME NEW e, EInv(e)
    PROVE  /\ ChainInfoSettled /\ IsChainReady => ~Recorded
           /\ ~IsChainReady => Recorded
           /\ NoneLive => ChainInfoSettled /\ IsChainReady
<1>1. InfoTells
  BY DEF EInv, ChainInv
<1>2. NoneLive => ~Recorded
  BY NoneLiveRecorded
<1>. QED  BY <1>1, <1>2 DEF InfoTells, ChainInfoSettled, IsChainReady, Recorded

(* A chain is started while no other runs.                                 *)
LEMMA StartFacts ==
    ASSUME NEW kind \in ChainKinds, NEW ch \in [Chains -> GoodChain],
           \A c \in Chains : ch[c].phase \notin {"queued", "running", "stored"},
           StartChain(kind, {}, ch), lock' # NoLock
    PROVE  /\ ChainInv' /\ Recorded' /\ info'.id \in Chains
           /\ chain'[info'.id].kind = kind /\ chain'[info'.id].pos = 1
           /\ \A c \in Chains : Live(c)' => c = info'.id
           /\ \A c \in Chains : ch[c].phase # "over" => chain'[c] = ch[c]
<1>1. PICK n \in FreeChains({}, ch) :
         /\ chain' = [ch EXCEPT ![n] = NewChain(kind)]
         /\ info' = [id |-> n, finished |-> FALSE, state |-> "PENDING"]
         /\ lastTasks' = {n}
  BY DEF StartChain
<1>2. n \in Chains /\ n # NoChain /\ ch[n].phase = "over"
  BY LayerChainAssumption DEF FreeChains
<1>3. info'.id = n /\ info'.state = "PENDING" /\ ~info'.finished
  BY <1>1
<1>4. chain'[n] = NewChain(kind) /\ \A c \in Chains : c # n => chain'[c] = ch[c]
  BY <1>1, <1>2
<1>5. chain'[n].kind = kind /\ chain'[n].pos = 1 /\ Live(n)'
  BY <1>4 DEF NewChain, Live
<1>6. \A c \in Chains : Live(c)' => c = n
  BY <1>4 DEF Live
<1>7. Recorded'
  BY <1>2, <1>3 DEF Recorded
<1>8. ChainInv'
  BY <1>1, <1>2, <1>3, <1>5, <1>6, <1>7 DEF ChainInv, LiveRecorded, InfoTells, LastTasksLive
<1>. QED  BY <1>2, <1>3, <1>4, <1>5, <1>6, <1>7, <1>8

(* The status of the layer when a chain has started.                       *)
LEMMA StartStatus ==
    ASSUME NEW e, EInv(e), NoneLive, NEW kind \in ChainKinds, NEW ch,
           \A c \in Chains : chain[c].phase = "set_status" => ch[c].phase = "set_status",
           Recorded', info'.id \in Chains, chain'[info'.id].kind = kind, chain'[info'.id].pos = 1,
           \A c \in Chains : Live(c)' => c = info'.id,
           \A c \in Chains : ch[c].phase # "over" => chain'[c] = ch[c],
           lock' # NoLock,
           kind = "publish" => exists',
           kind # "publish" => status' = status \/ status' # "PREPARING",
           ~exists' => status' = "none"
    PROVE  StatusInv'
<1>1. StatusOfNone' /\ StepsAwaited'
  BY DEF StatusOfNone, StepsAwaited, StepAwaited
<1>2. StatusSet'
  <2>1. ~(1 > StatusPos)
    BY LayerChainAssumption DEF StatusPos
  <2>. QED  BY <2>1 DEF StatusSet
<1>3. PreparingAwaited'
  <2> SUFFICES ASSUME status' = "PREPARING", kind # "publish"
               PROVE  \E c \in Chains : chain'[c].phase = "set_status"
    BY DEF PreparingAwaited
  <2>1. status = "PREPARING"
    OBVIOUS
  <2>2. ~Recorded
    BY NoneLiveRecorded
  <2>3. PICK c \in Chains : chain[c].phase = "set_status"
    BY <2>1, <2>2 DEF EInv, StatusInv, PreparingAwaited
  <2>4. ch[c].phase = "set_status"
    BY <2>3
  <2>. QED  BY <2>4
<1>. QED  BY <1>1, <1>2, <1>3 DEF StatusInv

(* Chains are left alone.                                                  *)
LEMMA ChainSame ==
    ASSUME NEW e, EInv(e), UNCHANGED <<chain, info, lastTasks>>, NoneLive \/ lock' # NoLock \/ lock' = lock
    PROVE  ChainInv' /\ (NoneLive' <=> NoneLive)
BY DEF EInv, ChainInv, LiveRecorded, InfoTells, LastTasksLive, Live, Recorded, NoneLive

LEMMA StatusSame ==
    ASSUME NEW e, EInv(e), UNCHANGED <<chain, info, exists, status>>,
           runAfter' /\ exists /\ lock' = NoLock => (runAfter /\ lock = NoLock)
                                                   \/ \E p \in Procs : "sync_patch" \in Kinds[p]
    PROVE  StatusInv'
<1>1. StatusOfNone' /\ StatusSet'
  BY DEF EInv, StatusInv, StatusOfNone, StatusSet, Live
<1>2. PreparingAwaited'
  BY DEF EInv, StatusInv, PreparingAwaited, Recorded
<1>3. StepsAwaited'
  BY DEF EInv, StatusInv, StepsAwaited, StepAwaited
<1>. QED  BY <1>1, <1>2, <1>3 DEF StatusInv

-----------------------------------------------------------------------------
(* Requests.                                                               *)

(* Nobody else has a request while the layer exists, or one begins.        *)
LEMMA OthersIdle ==
    ASSUME NEW e, EInv(e), NEW p \in Procs,
           \/ proc[p].pc # "idle"
           \/ exists /\ p = e
           \/ ~exists /\ \A q \in Procs : ~(proc[q].kind = "post" /\ proc[q].pc = "body")
    PROVE  Alone(p)
<1>1. \A q \in Procs : RequestOK(e, q, proc[q])
  BY DEF EInv, Requests
<1>2. CASE proc[p].pc # "idle"
  BY <1>2 DEF EInv, Requests
<1>3. CASE exists /\ p = e
  BY <1>1, <1>3 DEF RequestOK, Alone
<1>4. CASE ~exists /\ \A q \in Procs : ~(proc[q].kind = "post" /\ proc[q].pc = "body")
  BY <1>1, <1>4 DEF RequestOK, Alone
<1>. QED  BY <1>2, <1>3, <1>4

(* The only process that has a request goes on with it.                    *)
LEMMA OneGoesOn ==
    ASSUME NEW e, EInv(e), NEW p \in Procs, Alone(p), NEW r,
           proc' = [proc EXCEPT ![p] = r], RequestOK(e, p, proc[p])'
    PROVE  Requests(e)'
<1>1. proc'[p] = r /\ \A q \in Procs : q # p => proc'[q] = proc[q]
  BY DEF EInv, IInv, TypeInv
<1>2. \A q \in Procs : q # p => RequestOK(e, q, proc[q])'
  BY <1>1 DEF EInv, Requests, Alone, RequestOK
<1>3. \A q \in Procs : proc'[q].pc # "idle" => Alone(q)'
  BY <1>1 DEF Alone
<1>. QED  BY <1>2, <1>3 DEF Requests

LEMMA OneEnds ==
    ASSUME NEW e, EInv(e), NEW p \in Procs, proc[p].pc # "idle", Finish(p)
    PROVE  Requests(e)'
<1>1. Alone(p)
  BY OthersIdle
<1>2. proc' = [proc EXCEPT ![p] = Idle]
  BY DEF Finish
<1>3. proc'[p] = Idle
  BY <1>2 DEF EInv, IInv, TypeInv
<1>4. RequestOK(e, p, proc[p])'
  BY <1>3 DEF RequestOK, Idle
<1>. QED  BY <1>1, <1>2, <1>4, OneGoesOn

(* What happens beside the requests leaves them as they are, unless it     *)
(* starts a chain under one that edits, or releases its lock.              *)
LEMMA RequestsSame ==
    ASSUME NEW e, EInv(e), UNCHANGED <<proc, exists>>,
           NoneLive /\ lock # NoLock => NoneLive' /\ lock' = lock,
           lock = "delete" => lock' = "delete",
           info.id # NoChain => info'.id # NoChain
    PROVE  Requests(e)'
<1>1. ASSUME NEW p \in Procs PROVE RequestOK(e, p, proc[p])'
  <2>1. RequestOK(e, p, proc[p])
    BY DEF EInv, Requests
  <2>2. LockOf(proc[p].kind) # NoLock
    BY DEF LockOf, NoLock
  <2>. QED  BY <2>1, <2>2 DEF RequestOK
<1>2. \A p \in Procs : proc'[p].pc # "idle" => Alone(p)'
  BY DEF EInv, Requests, Alone
<1>. QED  BY <1>1, <1>2 DEF Requests

(* A request of p goes on.                                                 *)
LEMMA GoesOn ==
    ASSUME NEW e, EInv(e), NEW p \in Procs, proc[p].pc # "idle", proc[p].kind # "post",
           NEW r, proc' = [proc EXCEPT ![p] = r], r.kind = proc[p].kind, r.gone = proc[p].gone,
           exists' = exists,
           r.pc = "body" \/ (r.pc = "epilogue" /\ r.kind = "sync_patch") =>
               NoneLive' /\ lock' = LockOf(r.kind),
           r.kind \in {"delete", "bulk_delete"} => lock' = lock,
           r.pc \in {"abort", "result", "finish"} => info'.id # NoChain
    PROVE  Requests(e)'
<1>1. Alone(p) /\ RequestOK(e, p, proc[p])
  BY OthersIdle DEF EInv, Requests
<1>2. proc'[p] = r
  BY DEF EInv, IInv, TypeInv
<1>3. RequestOK(e, p, proc[p])'
  BY <1>1, <1>2 DEF RequestOK
<1>. QED  BY <1>1, <1>3, OneGoesOn

-----------------------------------------------------------------------------
(* Every step keeps the invariant, but for IInv, which StepInv is about.   *)

Kept(e) == ChainInv' /\ Requests(e)' /\ StatusInv'

(* Post keeps the invariant.                                               *)
LEMMA PostKept == ASSUME NEW e, EInv(e), NEW p \in Procs, Post(p) PROVE Kept(e)
<1>1. NoneLive
  BY NoneRecorded DEF Post
<1>2. Alone(p)
  BY OthersIdle DEF Post
<1>3. ChainInv' /\ NoneLive'
  BY <1>1, ChainSame DEF Post
<1>4. proc'[p] = [Idle EXCEPT !.pc = "body", !.kind = "post"]
  BY DEF Post, EInv, IInv, TypeInv
<1>5. RequestOK(e, p, proc[p])'
  <2>1. proc'[p].pc = "body" /\ proc'[p].kind = "post" /\ ~proc'[p].gone
    BY <1>4 DEF Idle
  <2>2. "post" \in Kinds[p] /\ ~exists' /\ lock' = LockOf("post")
    BY DEF Post, LockOf
  <2>. QED  BY <1>3, <2>1, <2>2 DEF RequestOK
<1>6. Requests(e)'
  BY <1>2, <1>5, OneGoesOn DEF Post
<1>7. StatusInv'
  BY StatusSame DEF Post, NoLock
<1>. QED  BY <1>3, <1>6, <1>7 DEF Kept

(* PostBody keeps the invariant.                                           *)
LEMMA PostBodyKept == ASSUME NEW e, EInv(e), NEW p \in Procs, PostBody(p) PROVE Kept(e)
<1>1. RequestOK(e, p, proc[p])
  BY DEF EInv, Requests
<1>2. NoneLive /\ lock = "post" /\ lock' = lock
  BY <1>1 DEF PostBody, RequestOK, LockOf
<1>3. lastTasks = {} /\ chain \in [Chains -> GoodChain]
  BY <1>2, NoneLiveRecorded DEF EInv, IInv, TypeInv
<1>4. StartChain("publish", {}, chain)
  BY <1>3 DEF PostBody
<1>5. /\ ChainInv' /\ Recorded' /\ info'.id \in Chains
      /\ chain'[info'.id].kind = "publish" /\ chain'[info'.id].pos = 1
      /\ \A c \in Chains : Live(c)' => c = info'.id
      /\ \A c \in Chains : chain[c].phase # "over" => chain'[c] = chain[c]
  <2>1. \A c \in Chains : chain[c].phase \notin {"queued", "running", "stored"}
    BY <1>2 DEF NoneLive, Live
  <2>. QED  BY <2>1, <1>2, <1>3, <1>4, StartFacts DEF ChainKinds, NoLock
<1>6. Requests(e)'
  BY OneEnds DEF PostBody
<1>7. StatusInv'
  BY <1>2, <1>5, StartStatus DEF PostBody, ChainKinds, NoLock
<1>. QED  BY <1>5, <1>6, <1>7 DEF Kept

(* Patch keeps the invariant.                                              *)
LEMMA PatchKept ==
    ASSUME NEW e, EditsComeFrom(e), EInv(e), NEW p \in Procs, NEW kind \in {"patch", "sync_patch"},
           Patch(p, kind)
    PROVE  Kept(e)
<1>1. kind \in Kinds[p] /\ p = e
  BY DEF Patch, EditsComeFrom
<1>2. Alone(p)
  BY <1>1, OthersIdle DEF Patch
<1>3. ChainInv' /\ (NoneLive' <=> NoneLive)
  <2>1. lock' = lock \/ lock' # NoLock
    BY DEF Patch, NoLock
  <2>. QED  BY <2>1, ChainSame DEF Patch
<1>4. Requests(e)'
  <2>1. CASE /\ lock = NoLock /\ lock' = "patch"
             /\ proc' = [proc EXCEPT ![p] = [Idle EXCEPT !.pc = "body", !.kind = kind]]
    <3>1. NoneLive
      BY <2>1, NoneRecorded
    <3>2. proc'[p] = [Idle EXCEPT !.pc = "body", !.kind = kind]
      BY <2>1 DEF EInv, IInv, TypeInv
    <3>3. RequestOK(e, p, proc[p])'
      <4>1. proc'[p].pc = "body" /\ proc'[p].kind = kind /\ ~proc'[p].gone
        BY <3>2 DEF Idle
      <4>2. exists' /\ lock' = LockOf(kind) /\ NoneLive'
        BY <1>3, <2>1, <3>1 DEF Patch, LockOf
      <4>. QED  BY <1>1, <4>1, <4>2 DEF RequestOK
    <3>. QED  BY <1>2, <2>1, <3>3, OneGoesOn
  <2>2. CASE /\ lock = "feature_change"
             /\ proc' = [proc EXCEPT ![p] = [Idle EXCEPT !.pc = "get_chain", !.kind = kind]]
             /\ UNCHANGED lock
    <3>1. proc'[p] = [Idle EXCEPT !.pc = "get_chain", !.kind = kind]
      BY <2>2 DEF EInv, IInv, TypeInv
    <3>2. RequestOK(e, p, proc[p])'
      BY <1>1, <3>1 DEF Patch, RequestOK, Idle
    <3>. QED  BY <1>2, <2>2, <3>2, OneGoesOn
  <2>. QED  BY <2>1, <2>2 DEF Patch
<1>5. StatusInv'
  <2>1. lock' = lock \/ lock' # NoLock
    BY DEF Patch, NoLock
  <2>. QED  BY <2>1, StatusSame DEF Patch
<1>. QED  BY <1>3, <1>4, <1>5 DEF Kept

(* The parts of PATCH that start a chain keep the invariant.               *)
LEMMA PatchBodyKept ==
    ASSUME NEW e, EInv(e), NEW p \in Procs, PatchData(p) \/ PatchMetadata(p)
    PROVE  Kept(e)
<1>1. RequestOK(e, p, proc[p]) /\ proc[p].pc = "body" /\ proc[p].kind = "patch"
  BY DEF EInv, Requests, PatchData, PatchMetadata
<1>2. NoneLive /\ lock = "patch" /\ lock' = lock /\ exists /\ exists' = exists
  BY <1>1 DEF PatchData, PatchMetadata, RequestOK, LockOf
<1>3. lastTasks = {} /\ ForgetLast = {} /\ chain \in [Chains -> GoodChain]
  BY <1>2, NoneLiveRecorded DEF EInv, IInv, TypeInv, ForgetLast
<1>4. PICK kind \in ChainKinds :
         /\ StartChain(kind, {}, chain)
         /\ kind # "publish" => status' = status
  BY <1>3 DEF PatchData, PatchMetadata, ChainKinds
<1>5. /\ ChainInv' /\ Recorded' /\ info'.id \in Chains
      /\ chain'[info'.id].kind = kind /\ chain'[info'.id].pos = 1
      /\ \A c \in Chains : Live(c)' => c = info'.id
      /\ \A c \in Chains : chain[c].phase # "over" => chain'[c] = chain[c]
  <2>1. \A c \in Chains : chain[c].phase \notin {"queued", "running", "stored"}
    BY <1>2 DEF NoneLive, Live
  <2>. QED  BY <2>1, <1>2, <1>3, <1>4, StartFacts DEF NoLock
<1>6. Requests(e)'
  <2>1. proc' = [proc EXCEPT ![p] = [proc[p] EXCEPT !.pc = "epilogue"]]
    BY DEF PatchData, PatchMetadata, Become
  <2>2. proc[p] \in ProcRecord
    BY DEF EInv, IInv, TypeInv, GoodProc
  <2> DEFINE r == [proc[p] EXCEPT !.pc = "epilogue"]
  <2>3. r.kind = "patch" /\ r.kind = proc[p].kind /\ r.gone = proc[p].gone /\ r.pc = "epilogue"
    BY <1>1, <2>2 DEF ProcRecord
  <2> HIDE DEF r
  <2>. QED  BY <1>1, <1>2, <2>1, <2>3, GoesOn DEF r
<1>7. StatusInv'
  BY <1>2, <1>4, <1>5, StartStatus DEF NoLock
<1>. QED  BY <1>5, <1>6, <1>7 DEF Kept

(* PatchSyncOnly keeps the invariant.                                      *)
LEMMA PatchSyncOnlyKept == ASSUME NEW e, EInv(e), NEW p \in Procs, PatchSyncOnly(p) PROVE Kept(e)
<1>1. RequestOK(e, p, proc[p]) /\ proc[p].pc = "body" /\ proc[p].kind = "sync_patch"
  BY DEF EInv, Requests, PatchSyncOnly
<1>2. NoneLive /\ lock = LockOf(proc[p].kind) /\ lock' = lock
  BY <1>1 DEF PatchSyncOnly, RequestOK
<1>3. ChainInv' /\ NoneLive'
  BY <1>2, ChainSame DEF PatchSyncOnly
<1>4. Requests(e)'
  <2>1. proc' = [proc EXCEPT ![p] = [proc[p] EXCEPT !.pc = "epilogue"]]
    BY DEF PatchSyncOnly, Become
  <2>2. proc[p] \in ProcRecord
    BY DEF EInv, IInv, TypeInv, GoodProc
  <2> DEFINE r == [proc[p] EXCEPT !.pc = "epilogue"]
  <2>3. r.kind = proc[p].kind /\ r.gone = proc[p].gone /\ r.pc = "epilogue"
    BY <2>2 DEF ProcRecord
  <2>4. proc' = [proc EXCEPT ![p] = r] /\ exists' = exists
    BY <2>1 DEF PatchSyncOnly
  <2> HIDE DEF r
  <2>. QED  BY <1>1, <1>2, <1>3, <2>3, <2>4, GoesOn
<1>5. StatusInv'
  BY StatusSame DEF PatchSyncOnly
<1>. QED  BY <1>3, <1>4, <1>5 DEF Kept

(* With one editor and no faults, no request raises: its layer is there,   *)
(* and there is nothing to wait for.                                       *)
LEMMA NothingRaises ==
    ASSUME NoFaults, NEW e, EInv(e), NEW p \in Procs
    PROVE  /\ ~PostRaises(p) /\ ~PatchRaises(p) /\ ~PatchDataRaises(p) /\ ~ResponseRaises(p)
           /\ ~DeleteRaises(p) /\ ~GetChainRaises(p) /\ ~AbortPending(p) /\ ~AssertAborted(p)
<1>1. RequestOK(e, p, proc[p])
  BY DEF EInv, Requests
<1>2. ~MayRaise /\ ~MayTimeOut
  BY DEF NoFaults
<1>3. ~PostRaises(p) /\ ~PatchDataRaises(p) /\ ~DeleteRaises(p) /\ ~GetChainRaises(p)
  BY <1>1, <1>2 DEF PostRaises, PatchDataRaises, DeleteRaises, GetChainRaises, RequestOK
<1>4. ~PatchRaises(p)
  BY <1>1, <1>2 DEF PatchRaises, Missing, RunsNext, RequestOK
<1>5. ~ResponseRaises(p)
  <2> SUFFICES ASSUME ResponseRaises(p) PROVE FALSE
    OBVIOUS
  <2>1. proc[p].pc = "epilogue" /\ ~proc[p].gone /\ exists
    BY <1>1 DEF ResponseRaises, RequestOK
  <2>2. ~Missing(p)
    BY <2>1 DEF Missing
  <2>3. ~LookupSettled(p) /\ proc[p].kind = "sync_patch"
    BY <1>2, <2>2 DEF ResponseRaises, Raised
  <2>4. NoneLive
    BY <1>1, <2>1, <2>3 DEF RequestOK
  <2>. QED  BY <2>3, <2>4, ReadyFacts DEF LookupSettled
<1>6. ~AbortPending(p)
  BY <1>2 DEF AbortPending
<1>7. ~AssertAborted(p)
  BY <1>2 DEF AssertAborted, EInv, IInv, TypeInv, GoodProc, ProcOK
<1>. QED  BY <1>3, <1>4, <1>5, <1>6, <1>7

(* What run_next_chain does once no chain runs.                            *)
LEMMA RunNextKept ==
    ASSUME NEW e, EInv(e), NoneLive, NEW newInfo \in {info, NoInfo},
           RunNextChain(NoLock, newInfo, {}, chain),
           \/ UNCHANGED <<exists, status>>
           \/ ~exists' /\ status' = "none"
    PROVE  ChainInv' /\ StatusInv'
<1>0. \A c \in Chains : chain[c].phase \notin {"queued", "running", "stored"}
  BY DEF NoneLive, Live
<1>1. CASE /\ StartChain("refresh", {}, chain)
           /\ lock' = "feature_change"
  <2>1. lock' # NoLock /\ chain \in [Chains -> GoodChain]
    BY <1>1 DEF NoLock, EInv, IInv, TypeInv
  <2>2. /\ ChainInv' /\ Recorded' /\ info'.id \in Chains
        /\ chain'[info'.id].kind = "refresh" /\ chain'[info'.id].pos = 1
        /\ \A c \in Chains : Live(c)' => c = info'.id
        /\ \A c \in Chains : chain[c].phase # "over" => chain'[c] = chain[c]
    BY <1>0, <1>1, <2>1, StartFacts DEF ChainKinds
  <2>3. /\ status' = status \/ status' # "PREPARING"
        /\ ~exists' => status' = "none"
    BY DEF EInv, StatusInv, StatusOfNone
  <2>4. StatusInv'
    BY <2>1, <2>2, <2>3, StartStatus DEF ChainKinds
  <2>. QED  BY <2>2, <2>4
<1>2. CASE /\ ~runAfter /\ runAfter' = runAfter
           /\ lock' = NoLock /\ info' = newInfo /\ lastTasks' = {} /\ chain' = chain
  <2>1. NoneLive'
    BY <1>2 DEF NoneLive, Live
  <2>2. ChainInv'
    <3>1. InfoTells'
      BY <1>2 DEF EInv, ChainInv, InfoTells, NoInfo
    <3>. QED  BY <1>2, <2>1, <3>1 DEF ChainInv, LiveRecorded, LastTasksLive, NoneLive
  <2>3. StatusOfNone' /\ StatusSet' /\ StepsAwaited'
    BY <1>2, <2>1 DEF EInv, StatusInv, StatusOfNone, StatusSet, StepsAwaited, StepAwaited, NoneLive
  <2>4. PreparingAwaited'
    <3>1. ~Recorded
      BY NoneLiveRecorded
    <3>. QED  BY <1>2, <3>1 DEF EInv, StatusInv, PreparingAwaited
  <2>. QED  BY <2>2, <2>3, <2>4 DEF StatusInv
<1>. QED  BY <1>1, <1>2 DEF RunNextChain

(* Epilogue keeps the invariant.                                           *)
LEMMA EpilogueKept == ASSUME NEW e, EInv(e), NEW p \in Procs, Epilogue(p) PROVE Kept(e)
<1>1. Requests(e)'
  BY OneEnds DEF Epilogue
<1>2. RequestOK(e, p, proc[p]) /\ proc[p].pc = "epilogue"
  BY DEF EInv, Requests, Epilogue
<1>3. CASE LookupSettled(p) /\ LookupReady(p) /\ UnlockAndRunNext(p)
  <2>1. ChainInfoSettled /\ IsChainReady
    BY <1>2, <1>3 DEF LookupSettled, LookupReady, RequestOK
  <2>2. NoneLive /\ lastTasks = {}
    BY <2>1, ReadyFacts, NoneRecorded
  <2>3. CASE RunNextChain(NoLock, info, lastTasks, chain)
    BY <1>1, <2>2, <2>3, RunNextKept DEF Epilogue, Kept
  <2>4. CASE ~RunsNext(proc[p].kind) /\ lock' = NoLock /\ UNCHANGED <<info, lastTasks, chain, runAfter>>
    <3>1. proc[p].kind = "sync_patch" /\ "sync_patch" \in Kinds[p]
      BY <1>2, <2>4 DEF RunsNext, RequestOK, EInv, IInv, TypeInv, GoodProc, ProcOK
    <3>2. ChainInv'
      BY <2>2, <2>4, ChainSame
    <3>3. StatusInv'
      BY <2>4, <3>1, StatusSame DEF Epilogue
    <3>. QED  BY <1>1, <3>2, <3>3 DEF Kept
  <2>. QED  BY <1>3, <2>3, <2>4 DEF UnlockAndRunNext
<1>4. CASE UNCHANGED <<lock, info, lastTasks, runAfter, chain>>
  BY <1>1, <1>4, ChainSame, StatusSame DEF Epilogue, Kept
<1>. QED  BY <1>3, <1>4 DEF Epilogue

(* Delete keeps the invariant.                                             *)
LEMMA DeleteKept ==
    ASSUME NEW e, EditsComeFrom(e), EInv(e), NEW p \in Procs, NEW kind \in {"delete", "bulk_delete"},
           Delete(p, kind)
    PROVE  Kept(e)
<1>1. kind \in Kinds[p] /\ p = e
  BY DEF Delete, EditsComeFrom
<1>2. Alone(p)
  BY <1>1, OthersIdle DEF Delete
<1>3. lock' = "delete" /\ lock' # NoLock
  BY DEF Delete, NoLock
<1>4. proc'[p] = [Idle EXCEPT !.pc = "get_chain", !.kind = kind]
  BY DEF Delete, EInv, IInv, TypeInv
<1>5. RequestOK(e, p, proc[p])'
  <2>1. proc'[p].pc = "get_chain" /\ proc'[p].kind = kind /\ ~proc'[p].gone
    BY <1>4 DEF Idle
  <2>. QED  BY <1>1, <1>3, <2>1 DEF Delete, RequestOK
<1>6. Requests(e)'
  BY <1>2, <1>5, OneGoesOn DEF Delete
<1>7. ChainInv' /\ StatusInv'
  BY <1>3, ChainSame, StatusSame DEF Delete
<1>. QED  BY <1>6, <1>7 DEF Kept

(* DeleteBody keeps the invariant.                                         *)
LEMMA DeleteBodyKept == ASSUME NEW e, EInv(e), NEW p \in Procs, DeleteBody(p) PROVE Kept(e)
<1>1. RequestOK(e, p, proc[p]) /\ proc[p].pc = "body" /\ Alone(p)
  BY OthersIdle DEF EInv, Requests, DeleteBody
<1>2. NoneLive
  BY <1>1 DEF RequestOK
<1>3. ForgetLast = {}
  BY <1>2, NoneLiveRecorded DEF ForgetLast
<1>4. Requests(e)'
  <2>1. \A q \in Procs : proc'[q] = Idle
    BY <1>1 DEF DeleteBody, Alone
  <2>. QED  BY <2>1 DEF Requests, RequestOK, Idle
<1>5. ~exists' /\ status' = "none"
  BY DEF DeleteBody
<1>6. CASE RunNextChain(NoLock, NoInfo, ForgetLast, chain)
  BY <1>2, <1>3, <1>4, <1>5, <1>6, RunNextKept DEF Kept
<1>7. CASE lock' = NoLock /\ info' = NoInfo /\ lastTasks' = ForgetLast /\ UNCHANGED <<chain, runAfter>>
  <2>1. NoneLive'
    BY <1>2, <1>7 DEF NoneLive, Live
  <2>2. ChainInv'
    <3>1. InfoTells'
      BY <1>7 DEF InfoTells, NoInfo
    <3>. QED  BY <1>3, <1>7, <2>1, <3>1 DEF ChainInv, LiveRecorded, LastTasksLive, NoneLive
  <2>3. StatusInv'
    BY <1>5, <2>1 DEF StatusInv, StatusOfNone, StatusSet, StepsAwaited, StepAwaited, PreparingAwaited, NoneLive
  <2>. QED  BY <1>4, <2>2, <2>3 DEF Kept
<1>. QED  BY <1>6, <1>7 DEF DeleteBody

(* FeatureChange keeps the invariant.                                      *)
LEMMA FeatureChangeKept == ASSUME NEW e, EInv(e), NEW p \in Procs, FeatureChange(p) PROVE Kept(e)
<1>1. CASE lock = NoLock /\ lock' = "feature_change" /\ StartChain("refresh", lastTasks, chain)
  <2>1. NoneLive /\ lastTasks = {} /\ chain \in [Chains -> GoodChain]
    BY <1>1, NoneRecorded DEF EInv, IInv, TypeInv
  <2>2. StartChain("refresh", {}, chain) /\ lock' # NoLock
    BY <1>1, <2>1 DEF NoLock
  <2>3. /\ ChainInv' /\ Recorded' /\ info'.id \in Chains
        /\ chain'[info'.id].kind = "refresh" /\ chain'[info'.id].pos = 1
        /\ \A c \in Chains : Live(c)' => c = info'.id
        /\ \A c \in Chains : chain[c].phase # "over" => chain'[c] = chain[c]
    <3>1. \A c \in Chains : chain[c].phase \notin {"queued", "running", "stored"}
      BY <2>1 DEF NoneLive, Live
    <3>. QED  BY <2>1, <2>2, <3>1, StartFacts DEF ChainKinds
  <2>4. StatusInv'
    BY <2>1, <2>2, <2>3, StartStatus DEF FeatureChange, ChainKinds
  <2>5. Requests(e)'
    <3>1. info'.id # NoChain /\ lock # "delete"
      BY <1>1, <2>3 DEF Recorded, NoLock
    <3>. QED  BY <1>1, <3>1, RequestsSame DEF FeatureChange
  <2>. QED  BY <2>3, <2>4, <2>5 DEF Kept
<1>2. CASE lock # NoLock /\ UNCHANGED <<lock, info, lastTasks, chain>>
  <2>1. ChainInv' /\ (NoneLive' <=> NoneLive)
    BY <1>2, ChainSame
  <2>2. StatusInv'
    BY <1>2, StatusSame DEF FeatureChange
  <2>3. Requests(e)'
    BY <1>2, <2>1, RequestsSame DEF FeatureChange
  <2>. QED  BY <2>1, <2>2, <2>3 DEF Kept
<1>. QED  BY <1>1, <1>2 DEF FeatureChange

-----------------------------------------------------------------------------
(* Aborting a chain.                                                       *)

(* The editor has the layer to itself once the chain is aborted.           *)
LEMMA AbortedKept ==
    ASSUME NEW e, EInv(e), NEW p \in Procs, proc[p].pc \in {"get_chain", "finish"}, ~Recorded,
           NEW newInfo, InfoTells, newInfo.finished <=> newInfo.state # "PENDING",
           newInfo.state # "PENDING", Aborted(p, newInfo), UNCHANGED <<lastTasks, chain, exists, status>>
    PROVE  Kept(e)
<1>1. RequestOK(e, p, proc[p])
  BY DEF EInv, Requests
<1>2. NoneLive /\ lastTasks = {}
  BY NoneRecorded
<1>3. NoneLive'
  BY <1>2 DEF NoneLive, Live
<1>4. ChainInv'
  BY <1>2, <1>3 DEF Aborted, ChainInv, LiveRecorded, InfoTells, LastTasksLive, NoneLive
<1>5. proc[p].kind \in AllKinds /\ proc[p].kind # "post" /\ exists
  BY <1>1 DEF RequestOK, EInv, IInv, TypeInv, GoodProc, ProcRecord
<1>6. lock' = LockOf(proc[p].kind)
  BY <1>1, <1>5 DEF Aborted, LockOf, RequestOK, AllKinds
<1>7. Requests(e)'
  <2> DEFINE r == [proc[p] EXCEPT !.pc = "body"]
  <2>1. proc[p] \in ProcRecord /\ proc' = [proc EXCEPT ![p] = r]
    BY DEF Aborted, EInv, IInv, TypeInv, GoodProc
  <2>2. r.kind = proc[p].kind /\ r.gone = proc[p].gone /\ r.pc = "body"
    BY <2>1 DEF ProcRecord
  <2>3. r.kind \in {"delete", "bulk_delete"} => lock' = lock
    BY <2>2 DEF Aborted
  <2> HIDE DEF r
  <2>. QED  BY <1>3, <1>5, <1>6, <2>1, <2>2, <2>3, GoesOn
<1>8. StatusInv'
  <2>1. StatusOfNone' /\ StatusSet'
    BY <1>3 DEF EInv, StatusInv, StatusOfNone, StatusSet, NoneLive
  <2>2. lock' # NoLock
    BY <1>6 DEF LockOf, NoLock
  <2>3. PreparingAwaited'
    BY DEF EInv, StatusInv, PreparingAwaited
  <2>. QED  BY <2>1, <2>2, <2>3 DEF StatusInv, StepsAwaited, StepAwaited
<1>. QED  BY <1>4, <1>7, <1>8 DEF Kept

(* GetChain keeps the invariant.                                           *)
LEMMA GetChainKept == ASSUME NoFaults, NEW e, EInv(e), NEW p \in Procs, GetChain(p) PROVE Kept(e)
<1>1. CASE ChainInfoSettled /\ IsChainReady /\ Aborted(p, info) /\ UNCHANGED <<lastTasks, chain>>
  <2>1. ~Recorded /\ InfoTells
    BY <1>1, ReadyFacts DEF EInv, ChainInv
  <2>2. info.state # "PENDING"
    BY <2>1 DEF Recorded, InfoTells
  <2>. QED  BY <1>1, <2>1, <2>2, AbortedKept DEF GetChain, InfoTells
<1>2. CASE /\ ~IsChainReady
           /\ proc' = [proc EXCEPT ![p].pc = "abort", ![p].target = info.id, ![p].at = 1]
           /\ UNCHANGED <<lock, info, lastTasks, runAfter, chain>>
  <2>1. Recorded
    BY <1>2, ReadyFacts
  <2>2. RequestOK(e, p, proc[p]) /\ proc[p].pc = "get_chain"
    BY DEF EInv, Requests, GetChain
  <2> DEFINE r == [proc[p] EXCEPT !.pc = "abort", !.target = info.id, !.at = 1]
  <2>3. proc[p] \in ProcRecord /\ proc' = [proc EXCEPT ![p] = r]
    BY <1>2 DEF EInv, IInv, TypeInv, GoodProc
  <2>4. r.kind = proc[p].kind /\ r.gone = proc[p].gone /\ r.pc = "abort"
    BY <2>3 DEF ProcRecord
  <2>5. info'.id # NoChain /\ lock' = lock /\ exists' = exists /\ proc[p].kind # "post"
    BY <1>2, <2>1, <2>2 DEF Recorded, GetChain, RequestOK
  <2> HIDE DEF r
  <2>6. Requests(e)'
    BY <2>2, <2>3, <2>4, <2>5, GoesOn
  <2>. QED  BY <1>2, <2>6, ChainSame, StatusSame DEF GetChain, Kept
<1>. QED  BY <1>1, <1>2 DEF GetChain, NoFaults

(* WaitForAbort keeps the invariant.                                       *)
LEMMA WaitForAbortKept == ASSUME NoFaults, NEW e, EInv(e), NEW p \in Procs, WaitForAbort(p) PROVE Kept(e)
<1>1. RequestOK(e, p, proc[p]) /\ proc[p].pc = "finish" /\ InfoTells
  BY DEF EInv, Requests, ChainInv, WaitForAbort
<1>2. info.id # NoChain
  BY <1>1 DEF RequestOK
<1> DEFINE newInfo == [info EXCEPT !.finished = TRUE, !.state = "ABORTED"]
<1>3. info.finished /\ Aborted(p, newInfo) /\ UNCHANGED <<lastTasks, chain, exists, status>>
  BY <1>2 DEF WaitForAbort, NoFaults
<1>4. ~Recorded
  BY <1>1, <1>3 DEF InfoTells, Recorded
<1>5. info \in ChainInfo
  BY DEF EInv, IInv, TypeInv
<1>6. newInfo.finished /\ newInfo.state # "PENDING"
  BY <1>5 DEF ChainInfo
<1> HIDE DEF newInfo
<1>. QED  BY <1>1, <1>3, <1>4, <1>6, AbortedKept

-----------------------------------------------------------------------------
(* Chains that go on.                                                      *)

(* As long as the same chain runs, there is no change in what runs.        *)
LEMMA ChainsGoOn ==
    ASSUME NEW e, EInv(e), UNCHANGED <<lock, info, lastTasks>>,
           \A d \in Chains : Live(d)' <=> Live(d)
    PROVE  ChainInv' /\ (NoneLive' <=> NoneLive)
BY DEF EInv, ChainInv, LiveRecorded, InfoTells, LastTasksLive, Recorded, NoneLive, IInv, TypeInv

(* The status of a layer waits for the same.                               *)
LEMMA PreparingKept ==
    ASSUME NEW e, EInv(e), info' = info, status' = "PREPARING" => status = "PREPARING",
           \A d \in Chains : chain'[d].kind = chain[d].kind,
           \A d \in Chains : chain[d].phase = "set_status" => chain'[d].phase = "set_status"
    PROVE  PreparingAwaited'
<1> SUFFICES ASSUME status' = "PREPARING" PROVE PreparingAwaited'
  BY DEF PreparingAwaited
<1>1. CASE Recorded /\ chain[info.id].kind = "publish"
  <2>1. info.id \in Chains
    BY <1>1 DEF Recorded, EInv, IInv, TypeInv, ChainInfo
  <2>. QED  BY <1>1, <2>1 DEF PreparingAwaited, Recorded
<1>2. CASE \E c \in Chains : chain[c].phase = "set_status"
  BY <1>2 DEF PreparingAwaited
<1>. QED  BY <1>1, <1>2 DEF EInv, StatusInv, PreparingAwaited

(* A step that changes no more than results of tasks, and where a request  *)
(* is in the abort loop.                                                   *)
LEMMA LoopKept ==
    ASSUME NEW e, EInv(e), NEW p \in Procs, proc[p].pc \in {"abort", "result"},
           UNCHANGED <<lock, info, lastTasks, runAfter, exists, status>>,
           \A d \in Chains : /\ chain'[d].kind = chain[d].kind
                             /\ chain'[d].pos = chain[d].pos
                             /\ chain'[d].phase = chain[d].phase,
           NEW r, proc' = [proc EXCEPT ![p] = r], r.kind = proc[p].kind, r.gone = proc[p].gone,
           r.pc \in {"abort", "result", "finish"}
    PROVE  Kept(e)
<1>1. \A d \in Chains : Live(d)' <=> Live(d)
  BY DEF Live
<1>2. ChainInv' /\ PreparingAwaited'
  BY <1>1, ChainsGoOn, PreparingKept
<1>3. StatusOfNone' /\ StatusSet' /\ StepsAwaited'
  BY <1>1 DEF EInv, StatusInv, StatusOfNone, StatusSet, StepsAwaited, StepAwaited
<1>4. RequestOK(e, p, proc[p])
  BY DEF EInv, Requests
<1>5. info.id # NoChain /\ proc[p].kind # "post"
  BY <1>4 DEF RequestOK
<1>6. Requests(e)'
  BY <1>4, <1>5, GoesOn
<1>. QED  BY <1>2, <1>3, <1>6 DEF Kept, StatusInv

(* AbortTask keeps the invariant.                                          *)
LEMMA AbortTaskKept == ASSUME NEW e, EInv(e), NEW p \in Procs, AbortTask(p) PROVE Kept(e)
<1> DEFINE c == proc[p].target
           i == proc[p].at
<1>1. /\ proc[p].pc = "abort"
      /\ UNCHANGED <<lock, info, lastTasks, runAfter, exists, status>>
  BY DEF AbortTask
<1>2. proc[p] \in ProcRecord /\ c \in Chains
  BY <1>1 DEF EInv, IInv, TypeInv, GoodProc, ProcOK
<1>3. chain \in [Chains -> ChainRecord]
  BY DEF EInv, IInv, TypeInv, GoodChain
<1>4. chain' = chain \/ chain' = [chain EXCEPT ![c].result[i] = "ABORTED"]
  BY DEF AbortTask
<1>5. \A d \in Chains : /\ chain'[d].kind = chain[d].kind
                        /\ chain'[d].pos = chain[d].pos
                        /\ chain'[d].phase = chain[d].phase
  <2>1. CASE chain' = chain
    BY <2>1
  <2>2. CASE chain' = [chain EXCEPT ![c].result[i] = "ABORTED"]
    <3>1. chain[c] \in ChainRecord
      BY <1>2, <1>3
    <3>2. chain'[c] = [chain[c] EXCEPT !.result[i] = "ABORTED"]
      BY <1>2, <1>3, <2>2
    <3>3. chain'[c].kind = chain[c].kind /\ chain'[c].pos = chain[c].pos /\ chain'[c].phase = chain[c].phase
      BY <3>1, <3>2 DEF ChainRecord
    <3>4. \A d \in Chains : d # c => chain'[d] = chain[d]
      BY <1>3, <2>2
    <3>. QED  BY <3>3, <3>4
  <2>. QED  BY <1>4, <2>1, <2>2
<1>6. PICK r : /\ proc' = [proc EXCEPT ![p] = r]
               /\ r.kind = proc[p].kind /\ r.gone = proc[p].gone
               /\ r.pc \in {"abort", "result", "finish"}
  <2> DEFINE r1 == [proc[p] EXCEPT !.pc = "finish", !.target = NoChain]
             r2 == [proc[p] EXCEPT !.at = i + 1]
             r3 == [proc[p] EXCEPT !.pc = "result"]
  <2>1. proc' \in {[proc EXCEPT ![p] = r1], [proc EXCEPT ![p] = r2], [proc EXCEPT ![p] = r3]}
    BY DEF AbortTask
  <2>2. \A r \in {r1, r2, r3} : /\ r.kind = proc[p].kind /\ r.gone = proc[p].gone
                                /\ r.pc \in {"abort", "result", "finish"}
    BY <1>1, <1>2 DEF ProcRecord
  <2> HIDE DEF r1, r2, r3
  <2>3. PICK r \in {r1, r2, r3} : proc' = [proc EXCEPT ![p] = r]
    BY <2>1
  <2>. QED  BY <2>2, <2>3
<1>. QED  BY <1>1, <1>5, <1>6, LoopKept

(* AwaitResult keeps the invariant.                                        *)
LEMMA AwaitResultKept == ASSUME NEW e, EInv(e), NEW p \in Procs, AwaitResult(p) PROVE Kept(e)
<1> DEFINE r == [proc[p] EXCEPT !.pc = "abort", !.at = @ + 1]
<1>1. proc[p] \in ProcRecord /\ proc' = [proc EXCEPT ![p] = r]
  BY DEF AwaitResult, EInv, IInv, TypeInv, GoodProc
<1>2. r.kind = proc[p].kind /\ r.gone = proc[p].gone /\ r.pc = "abort"
  BY <1>1 DEF ProcRecord
<1> HIDE DEF r
<1>. QED  BY <1>1, <1>2, LoopKept DEF AwaitResult

(* What the workers do beside the requests.                                *)
LEMMA WorkKept ==
    ASSUME NEW e, EInv(e), UNCHANGED <<lock, info, lastTasks, runAfter, exists, proc>>,
           status' = "PREPARING" => status = "PREPARING", StatusOfNone', StatusSet',
           \A d \in Chains : Live(d)' <=> Live(d),
           \A d \in Chains : chain'[d].kind = chain[d].kind,
           \A d \in Chains : chain[d].phase \in {"set_status", "run_next"} => chain'[d].phase = chain[d].phase
    PROVE  Kept(e)
<1>1. ChainInv' /\ (NoneLive' <=> NoneLive) /\ PreparingAwaited'
  BY ChainsGoOn, PreparingKept
<1>2. StepsAwaited'
  BY DEF EInv, StatusInv, StepsAwaited, StepAwaited
<1>3. Requests(e)'
  BY <1>1, RequestsSame
<1>. QED  BY <1>1, <1>2, <1>3 DEF Kept, StatusInv

(* TaskPrerun keeps the invariant.                                         *)
LEMMA TaskPrerunKept == ASSUME NEW e, EInv(e), NEW c \in Chains, TaskPrerun(c) PROVE Kept(e)
<1>1. chain \in [Chains -> ChainRecord]
  BY DEF EInv, IInv, TypeInv, GoodChain
<1>2. chain'[c] = [chain[c] EXCEPT !.phase = "running", !.result[chain[c].pos] = "STARTED"]
  BY <1>1 DEF TaskPrerun
<1>3. chain'[c].kind = chain[c].kind /\ chain'[c].pos = chain[c].pos /\ chain'[c].phase = "running"
  BY <1>1, <1>2 DEF ChainRecord
<1>4. \A d \in Chains : d # c => chain'[d] = chain[d]
  BY <1>1 DEF TaskPrerun
<1>5. chain[c].phase = "queued"
  BY DEF TaskPrerun
<1>6. \A d \in Chains : Live(d)' <=> Live(d)
  BY <1>3, <1>4, <1>5 DEF Live
<1>7. StatusOfNone' /\ StatusSet'
  <2>1. StatusOfNone'
    BY DEF TaskPrerun, EInv, StatusInv, StatusOfNone
  <2>2. \A d \in Chains : chain'[d].kind = chain[d].kind /\ chain'[d].pos = chain[d].pos
    BY <1>3, <1>4
  <2>3. StatusSet'
    BY <1>6, <2>2 DEF TaskPrerun, EInv, StatusInv, StatusSet
  <2>. QED  BY <2>1, <2>3
<1>. QED  BY <1>3, <1>4, <1>5, <1>6, <1>7, WorkKept DEF TaskPrerun

(* TaskFails keeps the invariant.                                          *)
LEMMA TaskFailsKept == ASSUME NEW e, EInv(e), NEW c \in Chains, TaskFails(c) PROVE Kept(e)
<1>1. chain \in [Chains -> ChainRecord]
  BY DEF EInv, IInv, TypeInv, GoodChain
<1>2. PICK res : chain'[c] = [chain[c] EXCEPT !.phase = "stored", !.result = res]
  BY <1>1 DEF TaskFails
<1>3. chain'[c].kind = chain[c].kind /\ chain'[c].pos = chain[c].pos /\ chain'[c].phase = "stored"
  BY <1>1, <1>2 DEF ChainRecord
<1>4. \A d \in Chains : d # c => chain'[d] = chain[d]
  BY <1>1 DEF TaskFails
<1>5. chain[c].phase = "running"
  BY DEF TaskFails
<1>6. \A d \in Chains : Live(d)' <=> Live(d)
  BY <1>3, <1>4, <1>5 DEF Live
<1>7. StatusOfNone' /\ StatusSet'
  <2>1. StatusOfNone'
    BY DEF TaskFails, EInv, StatusInv, StatusOfNone
  <2>2. \A d \in Chains : chain'[d].kind = chain[d].kind /\ chain'[d].pos = chain[d].pos
    BY <1>3, <1>4
  <2>3. StatusSet'
    BY <1>6, <2>2 DEF TaskFails, EInv, StatusInv, StatusSet
  <2>. QED  BY <2>1, <2>3
<1>. QED  BY <1>3, <1>4, <1>5, <1>6, <1>7, WorkKept DEF TaskFails

(* TaskSucceeds keeps the invariant.                                       *)
LEMMA TaskSucceedsKept == ASSUME NEW e, EInv(e), NEW c \in Chains, TaskSucceeds(c) PROVE Kept(e)
<1>1. chain \in [Chains -> ChainRecord]
  BY DEF EInv, IInv, TypeInv, GoodChain
<1>2. PICK ph \in {"stored", "queued"}, ps \in {chain[c].pos, chain[c].pos + 1},
           res \in {[chain[c].result EXCEPT ![chain[c].pos] = "SUCCESS"]} :
         chain'[c] = [chain[c] EXCEPT !.result = res, !.phase = ph, !.pos = ps]
  BY <1>1 DEF TaskSucceeds
<1>3. chain'[c].kind = chain[c].kind /\ chain'[c].pos = ps /\ chain'[c].phase = ph
  BY <1>1, <1>2 DEF ChainRecord
<1>4. \A d \in Chains : d # c => chain'[d] = chain[d]
  BY <1>1 DEF TaskSucceeds
<1>5. chain[c].phase = "running" /\ Live(c)
  BY DEF TaskSucceeds, Live
<1>6. \A d \in Chains : Live(d)' <=> Live(d)
  BY <1>3, <1>4, <1>5 DEF Live
<1>7. status' = "PREPARING" => status = "PREPARING"
  BY DEF TaskSucceeds
<1>8. StatusOfNone'
  BY DEF TaskSucceeds, EInv, StatusInv, StatusOfNone
<1>9. StatusSet'
  <2> SUFFICES ASSUME NEW d \in Chains, Live(d), chain'[d].kind = "publish"
               PROVE  exists /\ (chain'[d].pos > StatusPos => status' # "PREPARING")
    BY <1>6 DEF StatusSet, TaskSucceeds, StatusPos
  <2>1. exists /\ (chain[d].pos > StatusPos => status # "PREPARING")
    BY <1>3, <1>4 DEF EInv, StatusInv, StatusSet
  <2>2. CASE d # c
    BY <1>4, <1>7, <2>1, <2>2
  <2>3. CASE d = c /\ ps = chain[c].pos
    BY <1>3, <1>7, <2>1, <2>3
  <2>4. CASE d = c /\ ps = chain[c].pos + 1
    <3>1. chain[c].pos \in Nat /\ StatusPos \in Nat
      BY <1>1, LayerChainAssumption DEF ChainRecord, Positions, StatusPos
    <3>2. chain[c].pos + 1 > StatusPos => chain[c].pos > StatusPos \/ chain[c].pos = StatusPos
      BY <3>1
    <3>3. chain[c].pos = StatusPos => status' = "AVAILABLE"
      BY <1>3, <2>1, <2>4 DEF TaskSucceeds
    <3>. QED  BY <1>3, <1>7, <2>1, <2>4, <3>2, <3>3
  <2>. QED  BY <2>1, <2>2, <2>3, <2>4
<1>. QED  BY <1>3, <1>4, <1>5, <1>6, <1>7, <1>8, <1>9, WorkKept DEF TaskSucceeds

-----------------------------------------------------------------------------
(* task_postrun.                                                           *)

(* The chain that task_postrun is called for is the recorded one.          *)
LEMMA StoredRecorded ==
    ASSUME NEW e, EInv(e), NEW c \in Chains, chain[c].phase = "stored"
    PROVE  /\ Live(c) /\ Recorded /\ info.id = c /\ lock # NoLock /\ info.id # NoChain
           /\ c \in lastTasks /\ lastTasks \subseteq {c}
           /\ \A d \in Chains : d # c => ~Live(d)
<1>1. Live(c)
  BY DEF Live
<1>2. Recorded /\ info.id = c /\ lock # NoLock /\ \A d \in Chains : d # c => ~Live(d)
  BY <1>1 DEF EInv, ChainInv, LiveRecorded
<1>3. c \in lastTasks /\ info.id # NoChain
  BY <1>2 DEF EInv, IInv, RecordedRuns, Recorded
<1>4. lastTasks \subseteq {c}
  BY <1>2 DEF EInv, ChainInv, LastTasksLive, IInv, TypeInv
<1>. QED  BY <1>1, <1>2, <1>3, <1>4

(* finish_publication_chain ends the only chain there is.                  *)
LEMMA FinishKept ==
    ASSUME NEW e, EInv(e), NEW c \in Chains, chain[c].phase = "stored",
           NEW state \in ReadyStates, info' = FinishedInfo(state), lock' = FinishedLock,
           lastTasks' = lastTasks \ {c}, UNCHANGED <<exists, status, proc>>,
           NEW ph \in {"run_next", "set_status"}, chain' = [chain EXCEPT ![c].phase = ph],
           \/ ph = "run_next"
           \/ ~runAfter',
           ph = "run_next" => IsLast(c)
    PROVE  Kept(e)
<1>1. /\ Live(c) /\ info.id = c /\ lock # NoLock /\ info.id # NoChain
      /\ lastTasks \subseteq {c} /\ \A d \in Chains : d # c => ~Live(d)
  BY StoredRecorded
<1>2. info'.id = c /\ info'.finished /\ info'.state = state
  <2>1. info \in ChainInfo /\ info' = [info EXCEPT !.finished = TRUE, !.state = state]
    BY DEF EInv, IInv, TypeInv, FinishedInfo
  <2>. QED  BY <1>1, <2>1 DEF ChainInfo
<1>3. chain'[c].phase = ph /\ \A d \in Chains : d # c => chain'[d] = chain[d]
  <2>1. chain \in [Chains -> ChainRecord]
    BY DEF EInv, IInv, TypeInv, GoodChain
  <2>. QED  BY <2>1 DEF ChainRecord
<1>4. NoneLive'
  BY <1>1, <1>3 DEF NoneLive, Live
<1>5. ChainInv'
  <2>1. info'.state # "PENDING"
    BY <1>2 DEF ReadyStates
  <2>2. lastTasks' = {}
    BY <1>1
  <2>. QED  BY <1>2, <1>4, <2>1, <2>2 DEF ChainInv, LiveRecorded, InfoTells, LastTasksLive, NoneLive
<1>6. Requests(e)'
  <2>1. ~NoneLive
    BY <1>1 DEF NoneLive
  <2>2. lock = "delete" => lock' = "delete"
    BY DEF FinishedLock
  <2>. QED  BY <1>1, <1>2, <2>1, <2>2, RequestsSame
<1>7. StatusOfNone' /\ StatusSet'
  BY <1>4 DEF EInv, StatusInv, StatusOfNone, StatusSet, NoneLive
<1>8. StepsAwaited'
  BY <1>3 DEF StepsAwaited, StepAwaited
<1>9. PreparingAwaited'
  <2> SUFFICES ASSUME status = "PREPARING", ph = "run_next"
               PROVE  \E d \in Chains : chain'[d].phase = "set_status"
    BY <1>3 DEF PreparingAwaited
  <2>1. ASSUME chain[c].kind = "publish" PROVE FALSE
    <3>1. chain[c].pos = ChainLen
      BY <2>1 DEF IsLast, LastPos
    <3>2. ChainLen > StatusPos
      BY LayerChainAssumption DEF StatusPos
    <3>. QED  BY <1>1, <2>1, <3>1, <3>2 DEF EInv, StatusInv, StatusSet
  <2>2. PICK d \in Chains : chain[d].phase = "set_status"
    BY <1>1, <2>1 DEF EInv, StatusInv, PreparingAwaited
  <2>. QED  BY <1>3, <2>2
<1>. QED  BY <1>5, <1>6, <1>7, <1>8, <1>9 DEF Kept, StatusInv

(* PostrunOfLast keeps the invariant.                                      *)
LEMMA PostrunOfLastKept == ASSUME NEW e, EInv(e), NEW c \in Chains, PostrunOfLast(c) PROVE Kept(e)
<1>1. chain[c].phase = "stored" /\ IsLast(c)
  BY DEF PostrunOfLast
<1>2. info.id # NoChain
  BY <1>1, StoredRecorded
<1>3. PostrunState(c) \in ReadyStates
  BY <1>1, PostrunStateReady DEF EInv
<1>. QED  BY <1>1, <1>2, <1>3, FinishKept DEF PostrunOfLast

(* PostrunOfOther keeps the invariant.                                     *)
LEMMA PostrunOfOtherKept == ASSUME NEW e, EInv(e), NEW c \in Chains, PostrunOfOther(c) PROVE Kept(e)
<1>1. chain[c].phase = "stored"
  BY DEF PostrunOfOther
<1>2. info.id = c /\ info.id # NoChain /\ c \in lastTasks
  BY <1>1, StoredRecorded
<1>3. PostrunState(c) = "FAILURE"
  BY <1>1, <1>2, PostrunStateReady DEF EInv, PostrunOfOther
<1>4. "FAILURE" \in ReadyStates
  BY DEF ReadyStates
<1>. QED  BY <1>1, <1>2, <1>3, <1>4, FinishKept DEF PostrunOfOther

(* PostrunRunNext keeps the invariant.                                     *)
LEMMA PostrunRunNextKept == ASSUME NEW e, EInv(e), NEW c \in Chains, PostrunRunNext(c) PROVE Kept(e)
<1> DEFINE ch == [chain EXCEPT ![c].phase = "over"]
<1>1. chain \in [Chains -> GoodChain] /\ chain \in [Chains -> ChainRecord]
  BY DEF EInv, IInv, TypeInv, GoodChain
<1>2. ch \in [Chains -> GoodChain]
  BY <1>1, PhaseGood DEF Phases
<1>3. /\ ch[c].phase = "over" /\ ch[c].kind = chain[c].kind /\ ch[c].pos = chain[c].pos
      /\ \A d \in Chains : d # c => ch[d] = chain[d]
  BY <1>1 DEF ChainRecord
<1>4. /\ chain[c].phase = "run_next"
      /\ \/ exists /\ RunNextChain(lock, info, lastTasks, ch)
         \/ ~exists /\ chain' = ch /\ UNCHANGED <<lock, info, lastTasks, runAfter>>
      /\ UNCHANGED <<exists, status, proc>>
  BY DEF PostrunRunNext
<1> HIDE DEF ch
<1>5. CASE exists /\ lock = NoLock /\ StartChain("refresh", lastTasks, ch) /\ lock' = "feature_change"
  <2>1. NoneLive /\ lastTasks = {} /\ lock' # NoLock
    BY <1>5, NoneRecorded DEF NoLock
  <2>2. \A d \in Chains : ch[d].phase \notin {"queued", "running", "stored"}
    BY <1>3, <2>1 DEF NoneLive, Live
  <2>3. /\ ChainInv' /\ Recorded' /\ info'.id \in Chains
        /\ chain'[info'.id].kind = "refresh" /\ chain'[info'.id].pos = 1
        /\ \A d \in Chains : Live(d)' => d = info'.id
        /\ \A d \in Chains : ch[d].phase # "over" => chain'[d] = ch[d]
    BY <1>2, <1>5, <2>1, <2>2, StartFacts DEF ChainKinds
  <2>4. \A d \in Chains : chain[d].phase = "set_status" => ch[d].phase = "set_status"
    BY <1>3, <1>4
  <2>5. StatusInv'
    BY <1>4, <1>5, <2>1, <2>3, <2>4, StartStatus DEF ChainKinds
  <2>6. Requests(e)'
    <3>1. info'.id # NoChain /\ lock # "delete"
      BY <1>5, <2>3 DEF Recorded, NoLock
    <3>. QED  BY <1>4, <1>5, <3>1, RequestsSame
  <2>. QED  BY <2>3, <2>5, <2>6 DEF Kept
<1>6. CASE /\ UNCHANGED <<lock, info, lastTasks, runAfter>> /\ chain' = ch
           /\ ~runAfter \/ lock # NoLock \/ ~exists
  <2>1. \A d \in Chains : Live(d)' <=> Live(d)
    BY <1>3, <1>4, <1>6 DEF Live
  <2>2. \A d \in Chains : chain'[d].kind = chain[d].kind /\ chain'[d].pos = chain[d].pos
    BY <1>3, <1>6
  <2>3. \A d \in Chains : chain[d].phase = "set_status" => chain'[d].phase = "set_status"
    BY <1>3, <1>4, <1>6
  <2>4. ChainInv' /\ (NoneLive' <=> NoneLive) /\ PreparingAwaited'
    BY <1>4, <1>6, <2>1, <2>2, <2>3, ChainsGoOn, PreparingKept
  <2>5. StatusOfNone' /\ StatusSet'
    BY <1>4, <2>1, <2>2 DEF EInv, StatusInv, StatusOfNone, StatusSet
  <2>6. StepsAwaited'
    BY <1>4, <1>6 DEF StepsAwaited, StepAwaited
  <2>7. Requests(e)'
    BY <1>4, <1>6, <2>4, RequestsSame
  <2>. QED  BY <2>4, <2>5, <2>6, <2>7 DEF Kept, StatusInv
<1>. QED  BY <1>4, <1>5, <1>6 DEF RunNextChain

(* PostrunSetStatus keeps the invariant.                                   *)
LEMMA PostrunSetStatusKept ==
    ASSUME NEW e, EInv(e), NEW c \in Chains, PostrunSetStatus(c)
    PROVE  Kept(e)
<1>1. /\ chain'[c].phase = "over" /\ chain[c].phase = "set_status"
      /\ \A d \in Chains : d # c => chain'[d] = chain[d]
  <2>1. chain \in [Chains -> ChainRecord]
    BY DEF EInv, IInv, TypeInv, GoodChain
  <2>. QED  BY <2>1 DEF PostrunSetStatus, ChainRecord
<1>2. \A d \in Chains : Live(d)' <=> Live(d)
  BY <1>1 DEF Live
<1>3. ChainInv' /\ (NoneLive' <=> NoneLive)
  BY <1>2, ChainsGoOn DEF PostrunSetStatus
<1>4. status' # "PREPARING" /\ (~exists => status' = "none")
  BY DEF PostrunSetStatus, EInv, StatusInv, StatusOfNone
<1>5. StatusOfNone' /\ PreparingAwaited'
  BY <1>4 DEF StatusOfNone, PreparingAwaited, PostrunSetStatus
<1>6. StatusSet'
  <2>1. \A d \in Chains : Live(d) => d # c
    BY <1>1 DEF Live
  <2>. QED  BY <1>1, <1>2, <1>4, <2>1 DEF EInv, StatusInv, StatusSet, PostrunSetStatus
<1>7. StepsAwaited'
  <2>1. \A d \in Chains : chain[d].phase = "run_next" => chain'[d].phase = "run_next"
    BY <1>1
  <2>. QED  BY <2>1 DEF EInv, StatusInv, StepsAwaited, StepAwaited, PostrunSetStatus
<1>8. Requests(e)'
  BY <1>3, RequestsSame DEF PostrunSetStatus
<1>. QED  BY <1>3, <1>5, <1>6, <1>7, <1>8 DEF Kept, StatusInv

-----------------------------------------------------------------------------
(* Init, and Restart, leave nothing in progress.                           *)

LEMMA InitKept == ASSUME NEW e, Init PROVE EInv(e)
<1>1. IInv
  BY InitInv
<1>2. \A c \in Chains : chain[c].phase = "over"
  BY DEF Init, Unsent, NewChain
<1>3. NoneLive
  BY <1>2 DEF NoneLive, Live
<1>4. ChainInv
  BY <1>3 DEF Init, NoInfo, ChainInv, LiveRecorded, InfoTells, LastTasksLive, NoneLive
<1>5. Requests(e)
  BY DEF Init, Requests, RequestOK, Idle
<1>6. status # "PREPARING" /\ (~exists => status = "none")
  BY DEF Init
<1>7. StatusInv
  BY <1>3, <1>6 DEF Init, StatusInv, StatusOfNone, StatusSet, StepsAwaited, StepAwaited,
     PreparingAwaited, NoneLive
<1>. QED  BY <1>1, <1>4, <1>5, <1>7 DEF EInv

LEMMA RestartKept == ASSUME NEW e, EInv(e), Restart PROVE Kept(e)
<1>1. \A c \in Chains : chain'[c].phase = "over"
  BY DEF Restart, Unsent, NewChain
<1>2. NoneLive'
  BY <1>1 DEF NoneLive, Live
<1>3. ChainInv'
  BY <1>2 DEF Restart, NoInfo, ChainInv, LiveRecorded, InfoTells, LastTasksLive, NoneLive
<1>4. Requests(e)'
  BY DEF Restart, Requests, RequestOK, Idle
<1>5. status' # "PREPARING" /\ (~exists' => status' = "none")
  BY DEF Restart, EInv, StatusInv, StatusOfNone
<1>6. StatusInv'
  BY <1>2, <1>5 DEF Restart, StatusInv, StatusOfNone, StatusSet, StepsAwaited, StepAwaited,
     PreparingAwaited, NoneLive
<1>. QED  BY <1>3, <1>4, <1>6 DEF Kept

(* Nothing changes in a stuttering step.                                   *)
LEMMA StutterKept == ASSUME NEW e, EInv(e), UNCHANGED vars PROVE Kept(e)
<1>1. ChainInv' /\ StatusInv'
  BY ChainSame, StatusSame DEF vars
<1>2. Requests(e)'
  <2>1. NoneLive' <=> NoneLive
    BY ChainSame DEF vars
  <2>. QED  BY <2>1, RequestsSame DEF vars
<1>. QED  BY <1>1, <1>2 DEF Kept

LEMMA RequestKept ==
    ASSUME NoFaults, NEW e, EditsComeFrom(e), EInv(e), NEW p \in Procs, Request(p) \/ Handle(p)
    PROVE  Kept(e)
<1>1. CASE Request(p)
  BY <1>1, PostKept, PatchKept, DeleteKept, FeatureChangeKept DEF Request
<1>2. CASE Handle(p)
  BY <1>2, NothingRaises, PostBodyKept, PatchBodyKept, PatchSyncOnlyKept, EpilogueKept,
     DeleteBodyKept, GetChainKept, AbortTaskKept, AwaitResultKept, WaitForAbortKept DEF Handle
<1>. QED  BY <1>1, <1>2

LEMMA RunTaskKept == ASSUME NEW e, EInv(e), NEW c \in Chains, RunTask(c) PROVE Kept(e)
BY TaskPrerunKept, TaskSucceedsKept, TaskFailsKept, PostrunOfLastKept, PostrunRunNextKept,
   PostrunOfOtherKept, PostrunSetStatusKept DEF RunTask

LEMMA StepKept ==
    ASSUME NoFaults, NEW e, EditsComeFrom(e), EInv(e), [Next]_vars
    PROVE  EInv(e)'
<1>1. IInv'
  BY StepInv DEF EInv
<1>2. Kept(e)
  <2>1. CASE \E p \in Procs : Request(p) \/ Handle(p)
    BY <2>1, RequestKept
  <2>2. CASE \E c \in Chains : RunTask(c)
    BY <2>2, RunTaskKept
  <2>3. CASE Restart
    BY <2>3, RestartKept
  <2>4. CASE UNCHANGED vars
    BY <2>4, StutterKept
  <2>. QED  BY <2>1, <2>2, <2>3, <2>4 DEF Next
<1>. QED  BY <1>1, <1>2 DEF EInv, Kept

(* The invariant holds of every behaviour with one editor and no faults.   *)
LEMMA InvHolds ==
    ASSUME NoFaults, NEW e, EditsComeFrom(e)
    PROVE  Spec => []EInv(e)
<1>1. Init => EInv(e)
  BY InitKept
<1>2. EInv(e) /\ [Next]_vars => EInv(e)'
  BY StepKept
<1>. QED  BY <1>1, <1>2, PTL DEF Spec

-----------------------------------------------------------------------------
(* The theorems.                                                           *)

LEMMA AliveUnderLock == ASSUME NEW e, EInv(e) PROVE ChainUnderLock
BY DEF EInv, ChainInv, LiveRecorded, ChainUnderLock

LEMMA BodyAlone == ASSUME NEW e, EInv(e) PROVE EditedAlone
BY DEF EInv, Requests, RequestOK, NoneLive, EditedAlone

LEMMA Consistent == ASSUME NEW e, EInv(e) PROVE RedisConsistent
<1>1. lastTasks \subseteq {info.id}
  BY DEF EInv, ChainInv, LastTasksLive, LiveRecorded, IInv, TypeInv
<1>2. ASSUME info.id # NoChain, ChainInfoSettled PROVE info.finished <=> IsChainReady
  BY <1>2, ReadyFacts DEF EInv, ChainInv, InfoTells, Recorded, ChainInfoSettled, IsChainReady
<1>3. ASSUME info.id # NoChain, ChainInfoSettled PROVE info.id \notin lastTasks <=> IsChainReady
  <2>1. CASE IsChainReady
    <3>1. ~Recorded
      BY <1>3, <2>1, ReadyFacts
    <3>. QED  BY <2>1, <3>1, NoneRecorded
  <2>2. CASE ~IsChainReady
    BY <2>2, ReadyFacts DEF EInv, IInv, RecordedRuns
  <2>. QED  BY <2>1, <2>2
<1>. QED  BY <1>1, <1>2, <1>3 DEF RedisConsistent

(* One editor, no faults: a chain runs under the layer's lock and is the   *)
(* recorded one, so there is one at most.                                  *)
(* Code: solve_locks, is_layer_chain_ready in the decorator.               *)
THEOREM ChainsLocked == ASSUME NoFaults, OneEditor PROVE Spec => []ChainUnderLock
<1>1. PICK e \in Procs : EditsComeFrom(e)
  BY DEF OneEditor
<1>2. Spec => []EInv(e)
  BY <1>1, InvHolds
<1>3. EInv(e) => ChainUnderLock
  BY AliveUnderLock
<1>. QED  BY <1>2, <1>3, PTL

(* One editor, no faults: while a POST, PATCH or DELETE changes the layer, *)
(* no chain does.                                                          *)
(* Code: solve_locks, abort_publication_chain.                             *)
THEOREM EditorAlone == ASSUME NoFaults, OneEditor PROVE Spec => []EditedAlone
<1>1. PICK e \in Procs : EditsComeFrom(e)
  BY DEF OneEditor
<1>2. Spec => []EInv(e)
  BY <1>1, InvHolds
<1>3. EInv(e) => EditedAlone
  BY BodyAlone
<1>. QED  BY <1>2, <1>3, PTL

(* One editor, no faults: what uuid.py's check_redis_consistency asserts   *)
(* of chains, whenever get_publication_chain_info has nothing to wait for. *)
(* Code: set_publication_chain_info, finish_publication_chain.             *)
THEOREM RedisHolds == ASSUME NoFaults, OneEditor PROVE Spec => []RedisConsistent
<1>1. PICK e \in Procs : EditsComeFrom(e)
  BY DEF OneEditor
<1>2. Spec => []EInv(e)
  BY <1>1, InvHolds
<1>3. EInv(e) => RedisConsistent
  BY Consistent
<1>. QED  BY <1>2, <1>3, PTL

(* One editor, no faults: a layer is not PREPARING but while a chain that  *)
(* publishes it is recorded as running, or its failure is handled.         *)
(* Code: refresh_wfs_wms_status, set_wfs_wms_status_after_fail.            *)
THEOREM PreparingHolds == ASSUME NoFaults, OneEditor PROVE Spec => []PreparingAwaited
<1>1. PICK e \in Procs : EditsComeFrom(e)
  BY DEF OneEditor
<1>2. Spec => []EInv(e)
  BY <1>1, InvHolds
<1>3. EInv(e) => PreparingAwaited
  BY DEF EInv, StatusInv
<1>. QED  BY <1>2, <1>3, PTL

(* One editor, no faults, and no user is deleted: a step queued for the    *)
(* layer waits for a chain or a request.  patch_publication of a user's    *)
(* deletion releases the lock without running the step.                    *)
(* Code: push_step_to_run_after_chain, run_next_chain.                     *)
THEOREM StepsHold ==
    ASSUME NoFaults, OneEditor, \A p \in Procs : "sync_patch" \notin Kinds[p]
    PROVE  Spec => []StepAwaited
<1>1. PICK e \in Procs : EditsComeFrom(e)
  BY DEF OneEditor
<1>2. Spec => []EInv(e)
  BY <1>1, InvHolds
<1>3. EInv(e) => StepAwaited
  BY DEF EInv, StatusInv, StepsAwaited
<1>. QED  BY <1>2, <1>3, PTL
=============================================================================
