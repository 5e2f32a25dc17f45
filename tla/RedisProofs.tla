---------------------------- MODULE RedisProofs ----------------------------
(***************************************************************************)
(* Theorems about what is decided by WATCH, MULTI and EXEC of Redis: which *)
(* request registers a uuid and a name (UuidRegistry), and which process   *)
(* adjusts the dependencies (Start).  The two have their state apart, and  *)
(* nothing is said of both together.                                       *)
(*                                                                         *)
(* UuidRegistry: any names, uuids and processes, with or without           *)
(* exceptions, however many are sent DELETE, unless two of them are about  *)
(* to delete the row of one publication, which the code does not exclude:  *)
(* the slower one may then unregister what was posted after the faster     *)
(* one.                                                                    *)
(*                                                                         *)
(* Start: the key of Redis elects one process, Start implements Election,  *)
(* each call of a launch finds what it needs, and a server that is up has  *)
(* all of it; for any processes of gunicorn, workers, launches and         *)
(* timeouts, over the calls of this version of Layman.                     *)
(***************************************************************************)
EXTENDS UuidRegistry, Start, SequenceTheorems, TLAPS

(* No two requests have aborted the chain of one publication and are about *)
(* to delete its row; of a later DELETE it is wanted for LayerLocked that  *)
(* it comes when the first one has deleted the row.                        *)
DeletedBy(pcs) == \A p, q \in Procs :
    p # q /\ proc[p].pc \in pcs /\ proc[q].pc \in pcs => proc[p].name # proc[q].name

RowDeletedOnce == DeletedBy({"row"})
DeletedOnce    == DeletedBy({"abort", "row"})

-----------------------------------------------------------------------------
(* The inductive invariant.  r is the record of a process.                 *)

(* The process has registered its publication, and not unregistered it. *)
Reg(r) == \/ r.pc \in {"checks", "body", "row", "srem", "del", "hdel"}
          \/ r.pc = "lock" /\ r.name \notin Maps

(* A request in progress is about a name and a uuid; DELETE is sent to     *)
(* deleters only, and only a layer is checked after it is registered.      *)
RecordOK(p, r) ==
    /\ r.pc # "idle" => r.name \in Names /\ r.uuid \in Uuids
    /\ r.pc \in {"abort", "row"} => p \in Deleters
    /\ r.pc = "checks" => r.name \notin Maps

(* A transaction that will be executed finds what it looked for. *)
FreeWhenWatched(r) ==
    r.pc = "multi" /\ ~r.dirty =>
        /\ r.uuid \notin uuidSet
        /\ metadata[r.uuid] = None
        /\ names[r.name] = None

(* What a process has registered, and has not unregistered yet. *)
Owns(r) ==
    Reg(r) =>
        /\ names[r.name] = r.uuid
        /\ IF r.pc = "hdel" THEN metadata[r.uuid] # r.name ELSE metadata[r.uuid] = r.name
        /\ r.pc = "row" => row[r.name] = r.uuid
        /\ r.pc # "row" => row[r.name] = None
        /\ r.pc = "del" => r.uuid \notin uuidSet
        /\ r.pc \in {"checks", "lock", "body", "srem"} => r.uuid \in uuidSet

NameOnce == \A p, q \in Procs :
    p # q /\ Reg(proc[p]) /\ Reg(proc[q]) => proc[p].name # proc[q].name

(* Where the three keys differ, a process is about to unregister the rest. *)
SetHasMetadata == \A u \in uuidSet : metadata[u] # None

MetadataInSet == \A u \in Uuids : metadata[u] # None /\ u \notin uuidSet =>
    \E p \in Procs : proc[p].pc = "del" /\ proc[p].uuid = u

NamesHaveMetadata == \A n \in Names : names[n] # None /\ metadata[names[n]] # n =>
    \E p \in Procs : proc[p].pc = "hdel" /\ proc[p].name = n

Keys == NamesOfUuids /\ SetHasMetadata /\ MetadataInSet /\ NamesHaveMetadata

Records == \A p \in Procs :
    RecordOK(p, proc[p]) /\ FreeWhenWatched(proc[p]) /\ Owns(proc[p])

IInv == TypeOK /\ Records /\ NameOnce /\ Keys /\ RowsRegistered

-----------------------------------------------------------------------------
(* Steps that change neither the registry nor the rows.                    *)

(* Record r can follow: it is true of the registry, and no other process   *)
(* has registered the name that it says it has.                            *)
Fits(p, r) ==
    /\ r \in ProcRecord
    /\ RecordOK(p, r) /\ FreeWhenWatched(r) /\ Owns(r)
    /\ Reg(r) => \A q \in Procs : q # p /\ Reg(proc[q]) => proc[q].name # r.name

Steady == UNCHANGED <<uuidSet, metadata, names, row>>

(* A step of a process that is not unregistering, to a record that fits. *)
LEMMA QuietStep ==
    ASSUME IInv, Steady, NEW p \in Procs, NEW r, Fits(p, r),
           proc[p].pc \notin {"del", "hdel"},
           proc' = [proc EXCEPT ![p] = r],
           lock' \in [Names -> {NoLock, "post", "delete"}], chain' \in SUBSET Names
    PROVE  IInv'
<1> USE DEF Steady
<1>0. TypeOK /\ Records /\ NameOnce /\ Keys /\ RowsRegistered
  BY DEF IInv
<1>1. proc'[p] = r /\ \A q \in Procs : q # p => proc'[q] = proc[q]
  BY <1>0 DEF TypeOK
<1>2. TypeOK'
  BY <1>0 DEF TypeOK, Fits
<1>3. Records'
  <2> SUFFICES ASSUME NEW q \in Procs
               PROVE  (RecordOK(q, proc[q]) /\ FreeWhenWatched(proc[q]) /\ Owns(proc[q]))'
    BY DEF Records
  <2>1. CASE q = p
    BY <1>1, <2>1 DEF Fits, RecordOK, FreeWhenWatched, Owns, Reg
  <2>2. CASE q # p
    BY <1>0, <1>1, <2>2 DEF Records, RecordOK, FreeWhenWatched, Owns, Reg
  <2> QED  BY <2>1, <2>2
<1>4. NameOnce'
  <2> SUFFICES ASSUME NEW a \in Procs, NEW b \in Procs, a # b, Reg(proc'[a]), Reg(proc'[b])
               PROVE  proc'[a].name # proc'[b].name
    BY DEF NameOnce, Reg
  <2>1. CASE a = p
    BY <1>1, <2>1 DEF Fits
  <2>2. CASE b = p
    BY <1>1, <2>2 DEF Fits
  <2>3. CASE a # p /\ b # p
    BY <1>0, <1>1, <2>3 DEF NameOnce
  <2> QED  BY <2>1, <2>2, <2>3
<1>5. Keys'
  <2>1. \A q \in Procs : proc[q].pc \in {"del", "hdel"} => proc'[q] = proc[q]
    BY <1>1
  <2>2. NamesOfUuids' /\ SetHasMetadata'
    BY <1>0 DEF Keys, NamesOfUuids, SetHasMetadata
  <2>3. MetadataInSet'
    BY <1>0, <2>1 DEF Keys, MetadataInSet
  <2>4. NamesHaveMetadata'
    BY <1>0, <2>1 DEF Keys, NamesHaveMetadata
  <2> QED  BY <2>2, <2>3, <2>4 DEF Keys
<1>6. RowsRegistered'
  BY <1>0 DEF RowsRegistered
<1> QED  BY <1>2, <1>3, <1>4, <1>5, <1>6 DEF IInv

(* A process that has nothing registered, and does not wait for a          *)
(* transaction, fits any state.                                            *)
LEMMA FitsUnregistered ==
    ASSUME NEW p \in Procs, NEW r \in ProcRecord, ~Reg(r), RecordOK(p, r),
           r.pc = "multi" => r.uuid \notin uuidSet /\ metadata[r.uuid] = None
                             /\ names[r.name] = None
    PROVE  Fits(p, r)
BY DEF Fits, FreeWhenWatched, Owns

(* A step on of a process that keeps what it has registered. *)
LEMMA FitsOnward ==
    ASSUME IInv, NEW p \in Procs, NEW r \in ProcRecord,
           r.name = proc[p].name, r.uuid = proc[p].uuid,
           proc[p].pc \in {"checks", "lock", "body"}, Reg(proc[p]),
           r.pc \in {"lock", "body", "srem"}
    PROVE  Fits(p, r)
<1>0. RecordOK(p, proc[p]) /\ Owns(proc[p]) /\ NameOnce
  BY DEF IInv, Records
<1>1. RecordOK(p, r)
  BY <1>0 DEF RecordOK
<1>2. FreeWhenWatched(r)
  BY DEF FreeWhenWatched
<1>3. Owns(r)
  BY <1>0 DEF Owns
<1>4. \A q \in Procs : q # p /\ Reg(proc[q]) => proc[q].name # r.name
  BY <1>0 DEF NameOnce
<1> QED  BY <1>1, <1>2, <1>3, <1>4 DEF Fits

-----------------------------------------------------------------------------
(* The steps of POST that leave the registry and the rows alone.           *)

(* BeginPost preserves the invariant. *)
LEMMA BeginPostStep ==
    ASSUME IInv, NEW p \in Procs, NEW n \in Names, NEW u \in Uuids, BeginPost(p, n, u)
    PROVE  IInv'
<1> DEFINE r == [Idle EXCEPT !.pc = IF n \in Maps THEN "lock" ELSE "watch",
                             !.name = n, !.uuid = u]
<1>1. r \in ProcRecord /\ ~Reg(r) /\ RecordOK(p, r) /\ r.pc # "multi"
  BY DEF ProcRecord, Idle, Pcs, Reg, RecordOK
<1>2. Fits(p, r)
  <2> HIDE DEF r
  <2> QED  BY <1>1, FitsUnregistered
<1>3. TypeOK
  BY DEF IInv
<1>4. /\ proc[p].pc \notin {"del", "hdel"}
      /\ proc' = [proc EXCEPT ![p] = r]
      /\ Steady
      /\ lock' \in [Names -> {NoLock, "post", "delete"}] /\ chain' \in SUBSET Names
  BY <1>3 DEF BeginPost, Steady, registry, TypeOK
<1> QED
  <2> HIDE DEF r
  <2> QED  BY <1>2, <1>4, QuietStep

(* A request ends that is not unregistering anything. *)
LEMMA EndsWithErrorStep ==
    ASSUME IInv, NEW p \in Procs, proc[p].pc \notin {"del", "hdel"}, Steady,
           EndWithError(p), chain' \in SUBSET Names
    PROVE  IInv'
<1>1. TypeOK /\ RecordOK(p, proc[p])
  BY DEF IInv, Records
<1>2. Idle \in ProcRecord /\ ~Reg(Idle) /\ RecordOK(p, Idle) /\ Idle.pc # "multi"
  BY DEF Idle, ProcRecord, Pcs, Reg, RecordOK
<1>3. Fits(p, Idle)
  BY <1>2, FitsUnregistered
<1>4. lock' \in [Names -> {NoLock, "post", "delete"}]
  BY <1>1 DEF EndWithError, TypeOK
<1>5. proc' = [proc EXCEPT ![p] = Idle]
  BY DEF EndWithError
<1> QED  BY <1>3, <1>4, <1>5, QuietStep

(* Lock preserves the invariant. *)
LEMMA LockStep ==
    ASSUME IInv, NEW p \in Procs, Lock(p)
    PROVE  IInv'
<1> DEFINE n == proc[p].name
           r == [proc[p] EXCEPT !.pc = IF n \in Maps THEN "watch" ELSE "body", !.locked = TRUE]
<1>0. TypeOK /\ RecordOK(p, proc[p])
  BY DEF IInv, Records
<1>1. Steady /\ chain' \in SUBSET Names /\ proc[p].pc = "lock"
  BY <1>0 DEF Lock, Steady, registry, TypeOK
<1>2. CASE lock[n] = NoLock /\ lock' = [lock EXCEPT ![n] = "post"]
           /\ proc' = [proc EXCEPT ![p] = r]
  <2>1. proc[p] \in ProcRecord
    BY <1>0 DEF TypeOK
  <2>2. /\ r \in ProcRecord /\ r.name = n /\ r.uuid = proc[p].uuid
        /\ r.pc = IF n \in Maps THEN "watch" ELSE "body"
    BY <2>1 DEF ProcRecord, Pcs
  <2> HIDE DEF r
  <2>3. Fits(p, r)
    <3>1. CASE n \in Maps
      <4>1. ~Reg(r) /\ RecordOK(p, r) /\ r.pc # "multi"
        BY <1>0, <1>1, <2>2, <3>1 DEF Reg, RecordOK
      <4> QED  BY <2>2, <4>1, FitsUnregistered
    <3>2. CASE n \notin Maps
      <4>1. Reg(proc[p])
        BY <1>1, <3>2 DEF Reg
      <4> QED  BY <1>1, <2>2, <3>2, <4>1, FitsOnward
    <3> QED  BY <3>1, <3>2
  <2>4. lock' \in [Names -> {NoLock, "post", "delete"}]
    BY <1>0, <1>2 DEF TypeOK
  <2> QED  BY <1>1, <1>2, <2>3, <2>4, QuietStep
<1>3. CASE EndWithError(p)
  BY <1>1, <1>3, EndsWithErrorStep
<1> QED  BY <1>2, <1>3 DEF Lock

(* Watch preserves the invariant. *)
LEMMA WatchStep ==
    ASSUME IInv, NEW p \in Procs, Watch(p)
    PROVE  IInv'
<1> DEFINE r == [proc[p] EXCEPT !.pc = "multi", !.dirty = FALSE]
<1>0. TypeOK /\ RecordOK(p, proc[p])
  BY DEF IInv, Records
<1>1. Steady /\ chain' \in SUBSET Names /\ proc[p].pc = "watch"
  BY <1>0 DEF Watch, Steady, registry, TypeOK
<1>2. CASE /\ proc[p].uuid \notin uuidSet /\ metadata[proc[p].uuid] = None
           /\ names[proc[p].name] = None
           /\ proc' = [proc EXCEPT ![p] = r] /\ UNCHANGED lock
  <2>1. proc[p] \in ProcRecord
    BY <1>0 DEF TypeOK
  <2>2. r \in ProcRecord /\ r.name = proc[p].name /\ r.uuid = proc[p].uuid /\ r.pc = "multi"
    BY <2>1 DEF ProcRecord, Pcs
  <2> HIDE DEF r
  <2>3. ~Reg(r) /\ RecordOK(p, r)
    BY <1>0, <1>1, <2>2 DEF Reg, RecordOK
  <2>4. Fits(p, r)
    BY <1>2, <2>2, <2>3, FitsUnregistered
  <2>5. lock' \in [Names -> {NoLock, "post", "delete"}]
    BY <1>0, <1>2 DEF TypeOK
  <2> QED  BY <1>1, <1>2, <2>4, <2>5, QuietStep
<1>3. CASE EndWithError(p)
  BY <1>1, <1>3, EndsWithErrorStep
<1> QED  BY <1>2, <1>3 DEF Watch

(* A watched key has been changed: all is tried again. *)
LEMMA WatchAgainStep ==
    ASSUME IInv, NEW p \in Procs, proc[p].pc = "multi", Become(p, "watch"),
           UNCHANGED <<registry, row, lock, chain>>
    PROVE  IInv'
<1> DEFINE r == [proc[p] EXCEPT !.pc = "watch"]
<1>0. TypeOK /\ RecordOK(p, proc[p])
  BY DEF IInv, Records
<1>1. proc[p] \in ProcRecord
  BY <1>0 DEF TypeOK
<1>2. r \in ProcRecord /\ r.name = proc[p].name /\ r.uuid = proc[p].uuid /\ r.pc = "watch"
  BY <1>1 DEF ProcRecord, Pcs
<1>3. proc' = [proc EXCEPT ![p] = r]
  BY DEF Become
<1> HIDE DEF r
<1>4. ~Reg(r) /\ RecordOK(p, r)
  BY <1>0, <1>2 DEF Reg, RecordOK
<1>5. Fits(p, r)
  BY <1>2, <1>4, FitsUnregistered
<1>6. /\ lock' \in [Names -> {NoLock, "post", "delete"}] /\ chain' \in SUBSET Names
      /\ Steady
  BY <1>0 DEF TypeOK, Steady, registry
<1> QED  BY <1>3, <1>5, <1>6, QuietStep

(* A check of a layer passes or raises; the files cannot be saved. *)
LEMMA OnwardStep ==
    ASSUME IInv, NEW p \in Procs, NEW next \in {"lock", "body", "srem"},
           proc[p].pc \in {"checks", "body"}, Become(p, next),
           UNCHANGED <<registry, row, lock, chain>>
    PROVE  IInv'
<1> DEFINE r == [proc[p] EXCEPT !.pc = next]
<1>0. TypeOK
  BY DEF IInv
<1>1. proc[p] \in ProcRecord
  BY <1>0 DEF TypeOK
<1>2. r \in ProcRecord /\ r.name = proc[p].name /\ r.uuid = proc[p].uuid /\ r.pc = next
  BY <1>1 DEF ProcRecord, Pcs
<1>3. proc' = [proc EXCEPT ![p] = r]
  BY DEF Become
<1> HIDE DEF r
<1>4. Fits(p, r)
  BY <1>2, FitsOnward DEF Reg
<1>5. /\ lock' \in [Names -> {NoLock, "post", "delete"}] /\ chain' \in SUBSET Names
      /\ Steady
  BY <1>0 DEF TypeOK, Steady, registry
<1> QED  BY <1>3, <1>4, <1>5, QuietStep

(* A chain ends: no process takes part. *)
LEMMA ChainEndsStep ==
    ASSUME IInv, NEW n \in Names, ChainEnds(n)
    PROVE  IInv'
<1>0. TypeOK /\ Records /\ NameOnce /\ Keys /\ RowsRegistered
  BY DEF IInv
<1> USE DEF ChainEnds, registry
<1>1. TypeOK'
  BY <1>0 DEF TypeOK
<1>2. Records'
  BY <1>0 DEF Records, RecordOK, FreeWhenWatched, Owns, Reg
<1>3. NameOnce'
  BY <1>0 DEF NameOnce, Reg
<1>4. NamesOfUuids' /\ SetHasMetadata' /\ MetadataInSet' /\ NamesHaveMetadata'
  BY <1>0 DEF Keys, NamesOfUuids, SetHasMetadata, MetadataInSet, NamesHaveMetadata
<1>5. RowsRegistered'
  BY <1>0 DEF RowsRegistered
<1> QED  BY <1>1, <1>2, <1>3, <1>4, <1>5 DEF IInv, Keys

-----------------------------------------------------------------------------
(* The steps of DELETE that leave the registry and the rows alone.         *)

(* BeginDelete preserves the invariant. *)
LEMMA BeginDeleteStep ==
    ASSUME IInv, NEW p \in Procs, NEW n \in Names, BeginDelete(p, n)
    PROVE  IInv'
<1> DEFINE r == [Idle EXCEPT !.pc = "abort", !.name = n, !.uuid = row[n], !.locked = TRUE]
<1>0. TypeOK
  BY DEF IInv
<1>1. row[n] \in Uuids /\ p \in Deleters
  BY <1>0 DEF BeginDelete, TypeOK
<1>2. r \in ProcRecord /\ ~Reg(r) /\ RecordOK(p, r) /\ r.pc # "multi"
  BY <1>1 DEF ProcRecord, Idle, Pcs, Reg, RecordOK
<1>3. /\ proc[p].pc \notin {"del", "hdel"}
      /\ proc' = [proc EXCEPT ![p] = r]
      /\ Steady
      /\ lock' \in [Names -> {NoLock, "post", "delete"}] /\ chain' \in SUBSET Names
  BY <1>0 DEF BeginDelete, Steady, registry, TypeOK
<1> HIDE DEF r
<1>4. Fits(p, r)
  BY <1>2, FitsUnregistered
<1> QED  BY <1>3, <1>4, QuietStep

(* The row that DELETE has found under its uuid is registered to nobody    *)
(* else: only another one that deletes it could have it.                   *)
LEMMA AbortStep ==
    ASSUME IInv, RowDeletedOnce', NEW p \in Procs, Abort(p)
    PROVE  IInv'
<1> DEFINE n == proc[p].name
           r == [proc[p] EXCEPT !.pc = "row"]
<1>0. TypeOK /\ Records /\ RowsRegistered /\ RecordOK(p, proc[p])
  BY DEF IInv, Records
<1>1. /\ Steady /\ chain' \in SUBSET Names /\ proc[p].pc = "abort"
      /\ n \in Names /\ proc[p].uuid \in Uuids /\ p \in Deleters
  BY <1>0 DEF Abort, Steady, registry, TypeOK, RecordOK
<1>2. CASE row[n] = proc[p].uuid /\ Become(p, "row") /\ UNCHANGED lock
  <2>1. proc[p] \in ProcRecord
    BY <1>0 DEF TypeOK
  <2>2. r \in ProcRecord /\ r.name = n /\ r.uuid = proc[p].uuid /\ r.pc = "row"
    BY <2>1 DEF ProcRecord, Pcs
  <2>3. proc' = [proc EXCEPT ![p] = r]
    BY <1>2 DEF Become
  <2> HIDE DEF r
  <2>4. row[n] # None
    BY <1>1, <1>2, UuidRegistryAssumption
  <2>5. row[n] \in uuidSet /\ metadata[row[n]] = n /\ names[n] = row[n]
    BY <1>0, <1>1, <2>4 DEF RowsRegistered
  <2>6. RecordOK(p, r) /\ FreeWhenWatched(r) /\ Owns(r)
    BY <1>1, <1>2, <2>2, <2>5 DEF RecordOK, FreeWhenWatched, Owns
  <2>7. ASSUME NEW q \in Procs, q # p, Reg(proc[q])
        PROVE  proc[q].name # n
    <3>1. CASE proc[q].pc = "row"
      <4>1. proc'[p] = r /\ proc'[q] = proc[q]
        BY <1>0, <2>3, <2>7 DEF TypeOK
      <4>. QED  BY <2>2, <2>7, <3>1, <4>1 DEF RowDeletedOnce, DeletedBy
    <3>2. CASE proc[q].pc # "row"
      <4>1. row[proc[q].name] = None
        BY <1>0, <2>7, <3>2 DEF Records, Owns
      <4> QED  BY <2>4, <4>1
    <3> QED  BY <3>1, <3>2
  <2>8. Fits(p, r)
    BY <2>2, <2>6, <2>7 DEF Fits
  <2>9. lock' \in [Names -> {NoLock, "post", "delete"}]
    BY <1>0, <1>2 DEF TypeOK
  <2> QED  BY <1>1, <2>3, <2>8, <2>9, QuietStep
<1>3. CASE EndWithError(p)
  BY <1>1, <1>3, EndsWithErrorStep
<1> QED  BY <1>2, <1>3 DEF Abort

(* Unlock preserves the invariant. *)
LEMMA UnlockStep ==
    ASSUME IInv, NEW p \in Procs, Unlock(p)
    PROVE  IInv'
<1>0. TypeOK
  BY DEF IInv
<1>1. Idle \in ProcRecord /\ ~Reg(Idle) /\ RecordOK(p, Idle) /\ Idle.pc # "multi"
  BY DEF Idle, ProcRecord, Pcs, Reg, RecordOK
<1>2. Fits(p, Idle)
  BY <1>1, FitsUnregistered
<1>3. /\ proc[p].pc \notin {"del", "hdel"}
      /\ proc' = [proc EXCEPT ![p] = Idle]
      /\ Steady
      /\ lock' \in [Names -> {NoLock, "post", "delete"}] /\ chain' \in SUBSET Names
  BY <1>0 DEF Unlock, Steady, registry, TypeOK
<1> QED  BY <1>2, <1>3, QuietStep

-----------------------------------------------------------------------------
(* The steps that change the rows.                                         *)

(* Process p changes the row of its name; the registry is as it was. *)
LEMMA RowStep ==
    ASSUME IInv, NEW p \in Procs, NEW r \in ProcRecord, NEW u \in Uuids \cup {None},
           Reg(proc[p]), proc[p].pc \notin {"del", "hdel"},
           UNCHANGED registry,
           row' = [row EXCEPT ![proc[p].name] = u],
           u # None => proc[p].pc = "body" /\ u = proc[p].uuid,
           proc' = [proc EXCEPT ![p] = r],
           r.pc = "idle" \/ (r.pc = "srem" /\ u = None /\ proc[p].pc = "row"
                              /\ r.name = proc[p].name /\ r.uuid = proc[p].uuid),
           lock' \in [Names -> {NoLock, "post", "delete"}], chain' \in SUBSET Names
    PROVE  IInv'
<1> DEFINE n == proc[p].name
<1>0. TypeOK /\ Records /\ NameOnce /\ Keys /\ RowsRegistered
  BY DEF IInv
<1>1. /\ RecordOK(p, proc[p]) /\ Owns(proc[p])
      /\ n \in Names /\ proc[p].uuid \in Uuids
  BY <1>0 DEF Records, RecordOK, Reg
<1>2. proc'[p] = r /\ \A q \in Procs : q # p => proc'[q] = proc[q]
  BY <1>0 DEF TypeOK
<1>3. /\ row'[n] = u /\ \A m \in Names : m # n => row'[m] = row[m]
      /\ uuidSet' = uuidSet /\ metadata' = metadata /\ names' = names
  BY <1>0, <1>1 DEF TypeOK, registry
<1>4. TypeOK'
  BY <1>0 DEF TypeOK, registry
<1>5. Records'
  <2> SUFFICES ASSUME NEW q \in Procs
               PROVE  (RecordOK(q, proc[q]) /\ FreeWhenWatched(proc[q]) /\ Owns(proc[q]))'
    BY DEF Records
  <2>1. CASE q = p
    <3>1. CASE r.pc = "idle"
      BY <1>2, <2>1, <3>1 DEF RecordOK, FreeWhenWatched, Owns, Reg
    <3>2. CASE r.pc = "srem"
      <4>1. proc[p].uuid \in uuidSet
        BY <1>0, <1>1, <3>2, UuidRegistryAssumption DEF Owns, RowsRegistered
      <4> QED  BY <1>1, <1>2, <1>3, <2>1, <3>2, <4>1 DEF RecordOK, FreeWhenWatched, Owns, Reg
    <3> QED  BY <3>1, <3>2
  <2>2. CASE q # p
    <3>1. RecordOK(q, proc[q]) /\ FreeWhenWatched(proc[q]) /\ Owns(proc[q])
      BY <1>0 DEF Records
    <3>2. Reg(proc[q]) => proc[q].name \in Names /\ proc[q].name # n
      BY <1>0, <2>2, <3>1 DEF NameOnce, RecordOK, Reg
    <3>3. Reg(proc[q]) => row'[proc[q].name] = row[proc[q].name]
      BY <1>3, <3>2
    <3> QED  BY <1>2, <1>3, <2>2, <3>1, <3>3 DEF RecordOK, FreeWhenWatched, Owns, Reg
  <2> QED  BY <2>1, <2>2
<1>6. NameOnce'
  BY <1>0, <1>2 DEF NameOnce, Reg
<1>7. Keys'
  <2>1. \A q \in Procs : proc[q].pc \in {"del", "hdel"} => proc'[q] = proc[q]
    BY <1>2
  <2>2. NamesOfUuids' /\ SetHasMetadata'
    BY <1>0, <1>3 DEF Keys, NamesOfUuids, SetHasMetadata
  <2>3. MetadataInSet' /\ NamesHaveMetadata'
    BY <1>0, <1>3, <2>1 DEF Keys, MetadataInSet, NamesHaveMetadata
  <2> QED  BY <2>2, <2>3 DEF Keys
<1>8. RowsRegistered'
  <2> SUFFICES ASSUME NEW m \in Names, row'[m] # None
               PROVE  row'[m] \in uuidSet /\ metadata[row'[m]] = m /\ names[m] = row'[m]
    BY <1>3 DEF RowsRegistered
  <2>1. CASE m = n
    BY <1>1, <1>3, <2>1 DEF Owns
  <2>2. CASE m # n
    BY <1>0, <1>3, <2>2 DEF RowsRegistered
  <2> QED  BY <2>1, <2>2
<1> QED  BY <1>4, <1>5, <1>6, <1>7, <1>8 DEF IInv

(* POST inserts the row, and the request ends, well or not. *)
LEMMA InsertStep ==
    ASSUME IInv, NEW p \in Procs, proc[p].pc = "body",
           row' = [row EXCEPT ![proc[p].name] = proc[p].uuid],
           proc' = [proc EXCEPT ![p] = Idle], UNCHANGED registry,
           lock' \in [Names -> {NoLock, "post", "delete"}], chain' \in SUBSET Names
    PROVE  IInv'
<1>1. Reg(proc[p]) /\ RecordOK(p, proc[p])
  BY DEF Reg, IInv, Records
<1>2. proc[p].uuid \in Uuids
  BY <1>1 DEF RecordOK
<1>3. Idle \in ProcRecord /\ Idle.pc = "idle"
  BY DEF Idle, ProcRecord, Pcs
<1> QED  BY <1>1, <1>2, <1>3, RowStep

(* DeleteRow preserves the invariant. *)
LEMMA DeleteRowStep ==
    ASSUME IInv, NEW p \in Procs, DeleteRow(p)
    PROVE  IInv'
<1> DEFINE r == [proc[p] EXCEPT !.pc = "srem"]
<1>0. TypeOK
  BY DEF IInv
<1>1. proc[p] \in ProcRecord
  BY <1>0 DEF TypeOK
<1>2. r \in ProcRecord /\ r.name = proc[p].name /\ r.uuid = proc[p].uuid /\ r.pc = "srem"
  BY <1>1 DEF ProcRecord, Pcs
<1>3. /\ Reg(proc[p]) /\ proc[p].pc = "row"
      /\ UNCHANGED registry
      /\ row' = [row EXCEPT ![proc[p].name] = None]
      /\ proc' = [proc EXCEPT ![p] = r]
      /\ lock' \in [Names -> {NoLock, "post", "delete"}] /\ chain' \in SUBSET Names
  BY <1>0 DEF DeleteRow, Become, Reg, registry, TypeOK
<1> HIDE DEF r
<1> QED  BY <1>2, <1>3, RowStep

-----------------------------------------------------------------------------
(* The steps that change the registry.                                     *)

(* What others are after p has changed the registry: as they were, or with *)
(* a transaction that fails.                                               *)
LEMMA OthersWatch ==
    ASSUME TypeOK, NEW p \in Procs, NEW r \in ProcRecord, ChangeRegistry(p, r)
    PROVE  /\ proc' \in [Procs -> ProcRecord]
           /\ proc'[p] = r
           /\ \A q \in Procs : q # p =>
                 /\ proc'[q].pc = proc[q].pc
                 /\ proc'[q].name = proc[q].name
                 /\ proc'[q].uuid = proc[q].uuid
                 /\ proc[q].pc = "multi" /\ ~proc'[q].dirty => ~proc[q].dirty /\ ~Touched(q)
<1>1. ASSUME NEW q \in Procs, q # p
      PROVE  /\ proc'[q] = IF proc[q].pc = "multi" /\ Touched(q)
                           THEN [proc[q] EXCEPT !.dirty = TRUE] ELSE proc[q]
             /\ proc[q] \in ProcRecord
  BY <1>1 DEF ChangeRegistry, TypeOK
<1>2. ASSUME NEW q \in Procs, q # p
      PROVE  /\ proc'[q] \in ProcRecord
             /\ proc'[q].pc = proc[q].pc
             /\ proc'[q].name = proc[q].name
             /\ proc'[q].uuid = proc[q].uuid
             /\ proc[q].pc = "multi" /\ ~proc'[q].dirty => ~proc[q].dirty /\ ~Touched(q)
  <2>1. CASE proc[q].pc = "multi" /\ Touched(q)
    BY <1>1, <1>2, <2>1 DEF ProcRecord
  <2>2. CASE ~(proc[q].pc = "multi" /\ Touched(q))
    BY <1>1, <1>2, <2>2
  <2> QED  BY <2>1, <2>2
<1>3. proc'[p] = r
  BY DEF ChangeRegistry
<1>4. \A q \in Procs : proc'[q] \in ProcRecord
  BY <1>2, <1>3
<1>5. proc' \in [Procs -> ProcRecord]
  BY <1>4 DEF ChangeRegistry
<1> QED  BY <1>2, <1>3, <1>5

(* Their transactions find what they looked for, or fail. *)
LEMMA OthersFree ==
    ASSUME IInv, NEW p \in Procs, NEW r \in ProcRecord, ChangeRegistry(p, r),
           NEW q \in Procs, q # p
    PROVE  RecordOK(q, proc'[q]) /\ FreeWhenWatched(proc[q])'
<1>0. TypeOK /\ RecordOK(q, proc[q]) /\ FreeWhenWatched(proc[q])
  BY DEF IInv, Records
<1>1. /\ proc'[q].pc = proc[q].pc
      /\ proc'[q].name = proc[q].name
      /\ proc'[q].uuid = proc[q].uuid
      /\ proc[q].pc = "multi" /\ ~proc'[q].dirty => ~proc[q].dirty /\ ~Touched(q)
  BY <1>0, OthersWatch
<1>2. RecordOK(q, proc'[q])
  BY <1>0, <1>1 DEF RecordOK
<1>3. ASSUME proc'[q].pc = "multi", ~proc'[q].dirty
      PROVE  /\ proc'[q].uuid \notin uuidSet'
             /\ metadata'[proc'[q].uuid] = None
             /\ names'[proc'[q].name] = None
  <2>1. ~Touched(q) /\ proc[q].name \in SameType(proc[q].name)
    BY <1>0, <1>1, <1>3 DEF RecordOK, SameType
  <2>2. /\ uuidSet' = uuidSet /\ metadata'[proc[q].uuid] = metadata[proc[q].uuid]
        /\ names'[proc[q].name] = names[proc[q].name]
    BY <2>1 DEF Touched
  <2> QED  BY <1>0, <1>1, <1>3, <2>2 DEF FreeWhenWatched
<1> QED  BY <1>2, <1>3 DEF FreeWhenWatched

(* The transaction: the uuid and the name were free, so that nobody else   *)
(* has them, and no row can have them.                                     *)
LEMMA RegisterStep ==
    ASSUME IInv, NEW p \in Procs, proc[p].pc = "multi", ~proc[p].dirty,
           Register(p), UNCHANGED <<row, lock, chain>>
    PROVE  IInv'
<1> DEFINE n == proc[p].name
           u == proc[p].uuid
           r == [proc[p] EXCEPT !.pc = IF n \in Maps THEN "body" ELSE "checks"]
<1>0. TypeOK /\ Records /\ NameOnce /\ Keys /\ RowsRegistered
  BY DEF IInv
<1>1. /\ n \in Names /\ u \in Uuids /\ u # None /\ n # None
      /\ u \notin uuidSet /\ metadata[u] = None /\ names[n] = None
  BY <1>0, UuidRegistryAssumption DEF Records, RecordOK, FreeWhenWatched
<1>2. proc[p] \in ProcRecord
  BY <1>0 DEF TypeOK
<1>3. /\ r \in ProcRecord /\ r.name = n /\ r.uuid = u
      /\ r.pc \in {"body", "checks"} /\ (r.pc = "checks" => n \notin Maps)
  BY <1>2 DEF ProcRecord, Pcs
<1>4. ChangeRegistry(p, r)
  BY DEF Register
<1>5. /\ uuidSet' = uuidSet \cup {u}
      /\ metadata'[u] = n /\ \A v \in Uuids : v # u => metadata'[v] = metadata[v]
      /\ names'[n] = u /\ \A m \in Names : m # n => names'[m] = names[m]
      /\ row' = row
  BY <1>0, <1>1 DEF Register, TypeOK
<1> HIDE DEF r
<1>6. /\ proc' \in [Procs -> ProcRecord]
      /\ proc'[p] = r
      /\ \A q \in Procs : q # p =>
            /\ proc'[q].pc = proc[q].pc
            /\ proc'[q].name = proc[q].name
            /\ proc'[q].uuid = proc[q].uuid
  BY <1>0, <1>3, <1>4, OthersWatch
<1>7. TypeOK'
  <2>1. uuidSet' \in SUBSET Uuids
    BY <1>0, <1>1, <1>5 DEF TypeOK
  <2>2. metadata' \in [Uuids -> Names \cup {None}] /\ names' \in [Names -> Uuids \cup {None}]
    BY <1>0, <1>1 DEF Register, TypeOK
  <2> QED  BY <1>0, <1>6, <2>1, <2>2 DEF TypeOK
<1>8. row[n] = None
  BY <1>0, <1>1 DEF RowsRegistered
<1>9. ASSUME NEW q \in Procs, q # p, Reg(proc[q])
      PROVE  /\ proc[q].name \in Names /\ proc[q].uuid \in Uuids
             /\ proc[q].name # n
             /\ proc[q].pc # "hdel" => proc[q].uuid # u
  <2>1. RecordOK(q, proc[q]) /\ Owns(proc[q])
    BY <1>0 DEF Records
  <2>2. proc[q].name \in Names /\ proc[q].uuid \in Uuids
    BY <1>9, <2>1 DEF RecordOK, Reg
  <2>3. names[proc[q].name] # None
    BY <1>9, <2>1, <2>2, UuidRegistryAssumption DEF Owns
  <2>4. proc[q].pc # "hdel" => metadata[proc[q].uuid] # None
    BY <1>9, <2>1, <2>2, UuidRegistryAssumption DEF Owns
  <2> QED  BY <1>1, <2>2, <2>3, <2>4
<1>10. Records'
  <2> SUFFICES ASSUME NEW q \in Procs
               PROVE  (RecordOK(q, proc[q]) /\ FreeWhenWatched(proc[q]) /\ Owns(proc[q]))'
    BY DEF Records
  <2>1. CASE q = p
    BY <1>1, <1>3, <1>5, <1>6, <1>8, <2>1 DEF RecordOK, FreeWhenWatched, Owns, Reg
  <2>2. CASE q # p
    <3>1. RecordOK(q, proc'[q]) /\ FreeWhenWatched(proc[q])'
      BY <1>3, <1>4, <2>2, OthersFree
    <3>2. ASSUME Reg(proc'[q])
          PROVE  Owns(proc[q])'
      <4>1. Reg(proc[q])
        BY <1>6, <2>2, <3>2 DEF Reg
      <4>2. Owns(proc[q])
        BY <1>0 DEF Records
      <4>3. names'[proc[q].name] = names[proc[q].name]
        BY <1>5, <1>9, <2>2, <4>1
      <4>4. CASE proc[q].pc = "hdel" /\ proc[q].uuid = u
        BY <1>5, <1>6, <1>9, <2>2, <4>1, <4>2, <4>3, <4>4 DEF Owns
      <4>5. CASE proc[q].uuid # u
        <5>1. metadata'[proc[q].uuid] = metadata[proc[q].uuid]
          BY <1>5, <1>9, <2>2, <4>1, <4>5
        <5>2. proc[q].uuid \in uuidSet' <=> proc[q].uuid \in uuidSet
          BY <1>5, <4>5
        <5> QED  BY <1>5, <1>6, <2>2, <4>1, <4>2, <4>3, <5>1, <5>2 DEF Owns
      <4> QED  BY <1>9, <2>2, <4>1, <4>4, <4>5
    <3>3. Reg(proc'[q]) \/ Owns(proc[q])'
      BY DEF Owns, Reg
    <3> QED  BY <3>1, <3>2, <3>3 DEF RecordOK
  <2> QED  BY <2>1, <2>2
<1>11. NameOnce'
  <2> SUFFICES ASSUME NEW a \in Procs, NEW b \in Procs, a # b, Reg(proc'[a]), Reg(proc'[b])
               PROVE  proc'[a].name # proc'[b].name
    BY DEF NameOnce, Reg
  <2>1. \A q \in Procs : q # p /\ Reg(proc'[q]) => Reg(proc[q])
    BY <1>6 DEF Reg
  <2>2. CASE a = p
    BY <1>3, <1>6, <1>9, <2>1, <2>2
  <2>3. CASE b = p
    BY <1>3, <1>6, <1>9, <2>1, <2>3
  <2>4. CASE a # p /\ b # p
    BY <1>0, <1>6, <2>1, <2>4 DEF NameOnce
  <2> QED  BY <2>2, <2>3, <2>4
<1>12. Keys'
  <2>1. \A q \in Procs : proc[q].pc \in {"del", "hdel"} =>
            proc'[q].pc = proc[q].pc /\ proc'[q].name = proc[q].name /\ proc'[q].uuid = proc[q].uuid
    BY <1>6
  <2>2. NamesOfUuids'
    <3> SUFFICES ASSUME NEW v \in Uuids, metadata'[v] # None
                 PROVE  names'[metadata'[v]] = v
      BY DEF NamesOfUuids
    <3>1. CASE v = u
      BY <1>5, <3>1
    <3>2. CASE v # u
      <4>1. metadata'[v] = metadata[v] /\ metadata[v] \in Names /\ names[metadata[v]] = v
        BY <1>0, <1>5, <3>2 DEF Keys, NamesOfUuids, TypeOK
      <4>2. metadata[v] # n
        BY <1>1, <4>1, UuidRegistryAssumption
      <4> QED  BY <1>5, <4>1, <4>2
    <3> QED  BY <3>1, <3>2
  <2>3. SetHasMetadata'
    BY <1>0, <1>1, <1>5 DEF Keys, SetHasMetadata, TypeOK
  <2>4. MetadataInSet'
    BY <1>0, <1>5, <2>1 DEF Keys, MetadataInSet
  <2>5. NamesHaveMetadata'
    <3> SUFFICES ASSUME NEW m \in Names, names'[m] # None, metadata'[names'[m]] # m
                 PROVE  \E q \in Procs : proc'[q].pc = "hdel" /\ proc'[q].name = m
      BY DEF NamesHaveMetadata
    <3>1. m # n
      BY <1>5
    <3>2. names'[m] = names[m] /\ names[m] \in Uuids
      BY <1>0, <1>5, <3>1 DEF TypeOK
    <3>3. metadata[names[m]] # m
      BY <1>1, <1>5, <3>2, UuidRegistryAssumption
    <3> QED  BY <1>0, <2>1, <3>2, <3>3 DEF Keys, NamesHaveMetadata
  <2> QED  BY <2>2, <2>3, <2>4, <2>5 DEF Keys
<1>13. RowsRegistered'
  <2> SUFFICES ASSUME NEW m \in Names, row[m] # None
               PROVE  row[m] \in uuidSet' /\ metadata'[row[m]] = m /\ names'[m] = row[m]
    BY <1>5 DEF RowsRegistered
  <2>1. row[m] \in Uuids /\ row[m] \in uuidSet /\ metadata[row[m]] = m /\ names[m] = row[m]
    BY <1>0 DEF RowsRegistered, TypeOK
  <2>2. m # n /\ row[m] # u
    BY <1>1, <1>8, <2>1
  <2> QED  BY <1>5, <2>1, <2>2
<1> QED  BY <1>7, <1>10, <1>11, <1>12, <1>13 DEF IInv

(* What the three commands of unregistering have in common: others keep    *)
(* what they have registered, under other names and, until they have       *)
(* deleted the metadata, other uuids.                                      *)
LEMMA OthersApart ==
    ASSUME IInv, NEW p \in Procs, Reg(proc[p]), NEW q \in Procs, q # p, Reg(proc[q])
    PROVE  /\ proc[p].name \in Names /\ proc[p].uuid \in Uuids
           /\ proc[q].name \in Names /\ proc[q].uuid \in Uuids
           /\ proc[p].name # proc[q].name
           /\ proc[p].pc # "hdel" /\ proc[q].pc # "hdel" => proc[p].uuid # proc[q].uuid
<1>1. /\ RecordOK(p, proc[p]) /\ Owns(proc[p]) /\ RecordOK(q, proc[q]) /\ Owns(proc[q])
      /\ NameOnce
  BY DEF IInv, Records
<1>2. proc[p].name # proc[q].name
  BY <1>1 DEF NameOnce
<1> QED  BY <1>1, <1>2 DEF Owns, RecordOK, Reg

(* The parts of the invariant that are about processes, after a step that  *)
(* leaves p registered at most as what it was.                             *)
LEMMA UnregisterRecords ==
    ASSUME IInv, NEW p \in Procs, NEW r \in ProcRecord, Reg(proc[p]),
           ChangeRegistry(p, r), UNCHANGED row,
           (RecordOK(p, proc[p]) /\ FreeWhenWatched(proc[p]) /\ Owns(proc[p]))',
           Reg(r) => r.name = proc[p].name,
           \A q \in Procs : q # p /\ Reg(proc[q]) =>
               /\ names'[proc[q].name] = names[proc[q].name]
               /\ proc[q].pc = "hdel" => metadata'[proc[q].uuid] # proc[q].name
               /\ proc[q].pc # "hdel" => metadata'[proc[q].uuid] = metadata[proc[q].uuid]
               /\ proc[q].pc # "hdel" => (proc[q].uuid \in uuidSet' <=> proc[q].uuid \in uuidSet)
    PROVE  Records' /\ NameOnce'
<1>0. TypeOK /\ Records /\ NameOnce
  BY DEF IInv
<1>1. /\ proc'[p] = r
      /\ \A q \in Procs : q # p =>
            /\ proc'[q].pc = proc[q].pc
            /\ proc'[q].name = proc[q].name
            /\ proc'[q].uuid = proc[q].uuid
  BY <1>0, OthersWatch
<1>2. ASSUME NEW q \in Procs, q # p
      PROVE  (RecordOK(q, proc[q]) /\ FreeWhenWatched(proc[q]) /\ Owns(proc[q]))'
  <2>1. RecordOK(q, proc'[q]) /\ FreeWhenWatched(proc[q])'
    BY <1>2, OthersFree
  <2>2. Owns(proc[q])
    BY <1>0 DEF Records
  <2>3. Owns(proc[q])'
    BY <1>1, <1>2, <2>2 DEF Owns, Reg
  <2> QED  BY <2>1, <2>3 DEF RecordOK
<1>3. Records'
  BY <1>2 DEF Records
<1>4. ASSUME NEW a \in Procs, NEW b \in Procs, a # b, Reg(proc'[a]), Reg(proc'[b])
      PROVE  proc'[a].name # proc'[b].name
  <2>1. \A q \in Procs : Reg(proc'[q]) => Reg(proc[q]) /\ proc'[q].name = proc[q].name
    BY <1>1 DEF Reg
  <2> QED  BY <1>0, <1>4, <2>1 DEF NameOnce
<1> QED  BY <1>3, <1>4 DEF NameOnce, Reg

(* Srem preserves the invariant. *)
LEMMA SremStep ==
    ASSUME IInv, NEW p \in Procs, Srem(p)
    PROVE  IInv'
<1> DEFINE n == proc[p].name
           u == proc[p].uuid
           r == [proc[p] EXCEPT !.pc = "del"]
<1>0. TypeOK /\ Records /\ NameOnce /\ Keys /\ RowsRegistered
  BY DEF IInv
<1>1. /\ proc[p].pc = "srem" /\ Reg(proc[p])
      /\ uuidSet' = uuidSet \ {u} /\ metadata' = metadata /\ names' = names /\ row' = row
      /\ lock' = lock /\ chain' = chain
      /\ ChangeRegistry(p, r)
  BY DEF Srem, Reg
<1>2. /\ n \in Names /\ u \in Uuids
      /\ names[n] = u /\ metadata[u] = n /\ row[n] = None /\ u \in uuidSet
  BY <1>0, <1>1 DEF Records, RecordOK, Owns
<1>3. proc[p] \in ProcRecord
  BY <1>0 DEF TypeOK
<1>4. r \in ProcRecord /\ r.name = n /\ r.uuid = u /\ r.pc = "del"
  BY <1>3 DEF ProcRecord, Pcs
<1> HIDE DEF r
<1>5. /\ proc' \in [Procs -> ProcRecord]
      /\ proc'[p] = r
      /\ \A q \in Procs : q # p =>
            /\ proc'[q].pc = proc[q].pc
            /\ proc'[q].name = proc[q].name
            /\ proc'[q].uuid = proc[q].uuid
  BY <1>0, <1>1, <1>4, OthersWatch
<1>6. TypeOK'
  BY <1>0, <1>1, <1>5 DEF TypeOK
<1>7. Records' /\ NameOnce'
  <2>1. (RecordOK(p, proc[p]) /\ FreeWhenWatched(proc[p]) /\ Owns(proc[p]))'
    BY <1>1, <1>2, <1>4, <1>5 DEF RecordOK, FreeWhenWatched, Owns, Reg
  <2>2. \A q \in Procs : q # p /\ Reg(proc[q]) =>
            /\ names'[proc[q].name] = names[proc[q].name]
            /\ proc[q].pc = "hdel" => metadata'[proc[q].uuid] # proc[q].name
            /\ proc[q].pc # "hdel" => metadata'[proc[q].uuid] = metadata[proc[q].uuid]
            /\ proc[q].pc # "hdel" => (proc[q].uuid \in uuidSet' <=> proc[q].uuid \in uuidSet)
    BY <1>0, <1>1, OthersApart DEF Records, Owns
  <2> QED  BY <1>1, <1>4, <2>1, <2>2, UnregisterRecords
<1>8. Keys'
  <2>1. NamesOfUuids' /\ SetHasMetadata'
    BY <1>0, <1>1 DEF Keys, NamesOfUuids, SetHasMetadata
  <2>2. MetadataInSet'
    <3> SUFFICES ASSUME NEW v \in Uuids, metadata[v] # None, v \notin uuidSet'
                 PROVE  \E q \in Procs : proc'[q].pc = "del" /\ proc'[q].uuid = v
      BY <1>1 DEF MetadataInSet
    <3>1. CASE v = u
      BY <1>4, <1>5, <3>1
    <3>2. CASE v # u
      <4>1. PICK q \in Procs : proc[q].pc = "del" /\ proc[q].uuid = v
        BY <1>0, <1>1, <3>2 DEF Keys, MetadataInSet
      <4> QED  BY <1>1, <1>5, <4>1
    <3> QED  BY <3>1, <3>2
  <2>3. NamesHaveMetadata'
    <3>1. \A q \in Procs : proc[q].pc = "hdel" =>
              proc'[q].pc = "hdel" /\ proc'[q].name = proc[q].name
      BY <1>1, <1>5
    <3> QED  BY <1>0, <1>1, <3>1 DEF Keys, NamesHaveMetadata
  <2> QED  BY <2>1, <2>2, <2>3 DEF Keys
<1>9. RowsRegistered'
  BY <1>0, <1>1, <1>2 DEF RowsRegistered
<1> QED  BY <1>6, <1>7, <1>8, <1>9 DEF IInv

(* Del preserves the invariant. *)
LEMMA DelStep ==
    ASSUME IInv, NEW p \in Procs, Del(p)
    PROVE  IInv'
<1> DEFINE n == proc[p].name
           u == proc[p].uuid
           r == [proc[p] EXCEPT !.pc = "hdel"]
<1>0. TypeOK /\ Records /\ NameOnce /\ Keys /\ RowsRegistered
  BY DEF IInv
<1>1. /\ proc[p].pc = "del" /\ Reg(proc[p])
      /\ uuidSet' = uuidSet /\ names' = names /\ row' = row
      /\ metadata' = [metadata EXCEPT ![u] = None]
      /\ lock' = lock /\ chain' = chain
      /\ ChangeRegistry(p, r)
  BY DEF Del, Reg
<1>2. /\ n \in Names /\ u \in Uuids /\ n # None
      /\ names[n] = u /\ metadata[u] = n /\ row[n] = None /\ u \notin uuidSet
  BY <1>0, <1>1, UuidRegistryAssumption DEF Records, RecordOK, Owns
<1>3. proc[p] \in ProcRecord
  BY <1>0 DEF TypeOK
<1>4. r \in ProcRecord /\ r.name = n /\ r.uuid = u /\ r.pc = "hdel"
  BY <1>3 DEF ProcRecord, Pcs
<1>5. metadata'[u] = None /\ \A v \in Uuids : v # u => metadata'[v] = metadata[v]
  BY <1>0, <1>1, <1>2 DEF TypeOK
<1> HIDE DEF r
<1>6. /\ proc' \in [Procs -> ProcRecord]
      /\ proc'[p] = r
      /\ \A q \in Procs : q # p =>
            /\ proc'[q].pc = proc[q].pc
            /\ proc'[q].name = proc[q].name
            /\ proc'[q].uuid = proc[q].uuid
  BY <1>0, <1>1, <1>4, OthersWatch
<1>7. TypeOK'
  BY <1>0, <1>1, <1>6 DEF TypeOK
<1>8. Records' /\ NameOnce'
  <2>1. (RecordOK(p, proc[p]) /\ FreeWhenWatched(proc[p]) /\ Owns(proc[p]))'
    BY <1>1, <1>2, <1>4, <1>5, <1>6 DEF RecordOK, FreeWhenWatched, Owns, Reg
  <2>2. ASSUME NEW q \in Procs, q # p, Reg(proc[q])
        PROVE  /\ names'[proc[q].name] = names[proc[q].name]
               /\ proc[q].pc = "hdel" => metadata'[proc[q].uuid] # proc[q].name
               /\ proc[q].pc # "hdel" => metadata'[proc[q].uuid] = metadata[proc[q].uuid]
               /\ proc[q].pc # "hdel" => (proc[q].uuid \in uuidSet' <=> proc[q].uuid \in uuidSet)
    <3>1. /\ proc[q].name \in Names /\ proc[q].uuid \in Uuids /\ Owns(proc[q])
          /\ proc[q].pc # "hdel" => proc[q].uuid # u
      BY <1>0, <1>1, <2>2, OthersApart DEF Records
    <3> QED  BY <1>1, <1>5, <2>2, <3>1, UuidRegistryAssumption DEF Owns
  <2> QED  BY <1>1, <1>4, <2>1, <2>2, UnregisterRecords
<1>9. Keys'
  <2>1. NamesOfUuids'
    BY <1>0, <1>1, <1>5 DEF Keys, NamesOfUuids
  <2>2. SetHasMetadata'
    BY <1>0, <1>1, <1>2, <1>5 DEF Keys, SetHasMetadata, TypeOK
  <2>3. MetadataInSet'
    <3> SUFFICES ASSUME NEW v \in Uuids, metadata'[v] # None, v \notin uuidSet
                 PROVE  \E q \in Procs : proc'[q].pc = "del" /\ proc'[q].uuid = v
      BY <1>1 DEF MetadataInSet
    <3>1. v # u /\ metadata[v] # None
      BY <1>5
    <3>2. PICK q \in Procs : proc[q].pc = "del" /\ proc[q].uuid = v
      BY <1>0, <3>1 DEF Keys, MetadataInSet
    <3> QED  BY <1>6, <3>1, <3>2
  <2>4. NamesHaveMetadata'
    <3> SUFFICES ASSUME NEW m \in Names, names[m] # None, metadata'[names[m]] # m
                 PROVE  \E q \in Procs : proc'[q].pc = "hdel" /\ proc'[q].name = m
      BY <1>1 DEF NamesHaveMetadata
    <3>1. CASE m = n
      BY <1>4, <1>6, <3>1
    <3>2. CASE m # n
      <4>1. names[m] \in Uuids /\ metadata[names[m]] # m
        BY <1>0, <1>2, <1>5, <3>2 DEF TypeOK
      <4>2. PICK q \in Procs : proc[q].pc = "hdel" /\ proc[q].name = m
        BY <1>0, <4>1 DEF Keys, NamesHaveMetadata
      <4> QED  BY <1>1, <1>6, <4>2
    <3> QED  BY <3>1, <3>2
  <2> QED  BY <2>1, <2>2, <2>3, <2>4 DEF Keys
<1>10. RowsRegistered'
  <2> SUFFICES ASSUME NEW m \in Names, row[m] # None
               PROVE  row[m] \in uuidSet /\ metadata'[row[m]] = m /\ names[m] = row[m]
    BY <1>1 DEF RowsRegistered
  <2>1. row[m] \in Uuids /\ row[m] \in uuidSet /\ metadata[row[m]] = m /\ names[m] = row[m]
    BY <1>0 DEF RowsRegistered, TypeOK
  <2> QED  BY <1>2, <1>5, <2>1
<1> QED  BY <1>7, <1>8, <1>9, <1>10 DEF IInv

(* The name is unregistered; its uuid, whoever has registered it since, is *)
(* registered for another name.                                            *)
LEMMA HdelStep ==
    ASSUME IInv, NEW p \in Procs, Hdel(p)
    PROVE  IInv'
<1> DEFINE n == proc[p].name
           u == proc[p].uuid
           r == IF proc[p].locked THEN [proc[p] EXCEPT !.pc = "unlock"] ELSE Idle
<1>0. TypeOK /\ Records /\ NameOnce /\ Keys /\ RowsRegistered
  BY DEF IInv
<1>1. /\ proc[p].pc = "hdel" /\ Reg(proc[p])
      /\ uuidSet' = uuidSet /\ metadata' = metadata /\ row' = row
      /\ names' = [names EXCEPT ![n] = None]
      /\ lock' = lock /\ chain' = chain
      /\ ChangeRegistry(p, r)
  BY DEF Hdel, Reg
<1>2. /\ n \in Names /\ u \in Uuids /\ n # None
      /\ names[n] = u /\ metadata[u] # n /\ row[n] = None
  BY <1>0, <1>1, UuidRegistryAssumption DEF Records, RecordOK, Owns
<1>3. proc[p] \in ProcRecord
  BY <1>0 DEF TypeOK
<1>4. /\ r \in ProcRecord /\ r.pc \in {"idle", "unlock"}
      /\ r.pc = "unlock" => r.name = n /\ r.uuid = u
  BY <1>3 DEF ProcRecord, Pcs, Idle
<1>5. names'[n] = None /\ \A m \in Names : m # n => names'[m] = names[m]
  BY <1>0, <1>1, <1>2 DEF TypeOK
<1> HIDE DEF r
<1>6. /\ proc' \in [Procs -> ProcRecord]
      /\ proc'[p] = r
      /\ \A q \in Procs : q # p =>
            /\ proc'[q].pc = proc[q].pc
            /\ proc'[q].name = proc[q].name
            /\ proc'[q].uuid = proc[q].uuid
  BY <1>0, <1>1, <1>4, OthersWatch
<1>7. TypeOK'
  BY <1>0, <1>1, <1>6 DEF TypeOK
<1>8. Records' /\ NameOnce'
  <2>1. (RecordOK(p, proc[p]) /\ FreeWhenWatched(proc[p]) /\ Owns(proc[p]))'
    BY <1>1, <1>2, <1>4, <1>6 DEF RecordOK, FreeWhenWatched, Owns, Reg
  <2>2. ASSUME NEW q \in Procs, q # p, Reg(proc[q])
        PROVE  /\ names'[proc[q].name] = names[proc[q].name]
               /\ proc[q].pc = "hdel" => metadata'[proc[q].uuid] # proc[q].name
               /\ proc[q].pc # "hdel" => metadata'[proc[q].uuid] = metadata[proc[q].uuid]
               /\ proc[q].pc # "hdel" => (proc[q].uuid \in uuidSet' <=> proc[q].uuid \in uuidSet)
    <3>1. proc[q].name \in Names /\ proc[q].name # n /\ Owns(proc[q])
      BY <1>0, <1>1, <2>2, OthersApart DEF Records
    <3> QED  BY <1>1, <1>5, <2>2, <3>1 DEF Owns
  <2>3. ~Reg(r)
    BY <1>4 DEF Reg
  <2> QED  BY <1>1, <1>4, <2>1, <2>2, <2>3, UnregisterRecords
<1>9. Keys'
  <2>1. NamesOfUuids'
    <3> SUFFICES ASSUME NEW v \in Uuids, metadata[v] # None
                 PROVE  names'[metadata[v]] = v
      BY <1>1 DEF NamesOfUuids
    <3>1. metadata[v] \in Names /\ names[metadata[v]] = v
      BY <1>0 DEF Keys, NamesOfUuids, TypeOK
    <3>2. metadata[v] # n
      BY <1>2, <3>1
    <3> QED  BY <1>5, <3>1, <3>2
  <2>2. SetHasMetadata'
    BY <1>0, <1>1 DEF Keys, SetHasMetadata
  <2>3. MetadataInSet'
    <3>1. \A q \in Procs : proc[q].pc = "del" =>
              proc'[q].pc = "del" /\ proc'[q].uuid = proc[q].uuid
      BY <1>1, <1>6
    <3> QED  BY <1>0, <1>1, <3>1 DEF Keys, MetadataInSet
  <2>4. NamesHaveMetadata'
    <3> SUFFICES ASSUME NEW m \in Names, names'[m] # None, metadata[names'[m]] # m
                 PROVE  \E q \in Procs : proc'[q].pc = "hdel" /\ proc'[q].name = m
      BY <1>1 DEF NamesHaveMetadata
    <3>1. m # n /\ names'[m] = names[m]
      BY <1>5
    <3>2. PICK q \in Procs : proc[q].pc = "hdel" /\ proc[q].name = m
      BY <1>0, <3>1 DEF Keys, NamesHaveMetadata
    <3> QED  BY <1>6, <3>1, <3>2
  <2> QED  BY <2>1, <2>2, <2>3, <2>4 DEF Keys
<1>10. RowsRegistered'
  BY <1>0, <1>1, <1>2, <1>5 DEF RowsRegistered
<1> QED  BY <1>7, <1>8, <1>9, <1>10 DEF IInv

(* Redis is filled from the rows, which have different uuids because each  *)
(* was registered under its uuid.                                          *)
LEMMA RestartStep ==
    ASSUME IInv, Restart
    PROVE  IInv'
<1>0. TypeOK /\ RowsRegistered
  BY DEF IInv
<1>1. /\ uuidSet' = RowUuids
      /\ metadata' = [u \in Uuids |->
            IF u \in RowUuids THEN CHOOSE n \in Names : row[n] = u ELSE None]
      /\ names' = row /\ row' = row
      /\ lock' = [n \in Names |-> NoLock] /\ chain' = {}
      /\ proc' = [q \in Procs |-> Idle]
  BY DEF Restart, Imported
<1>2. ASSUME NEW n \in Names, row[n] # None
      PROVE  row[n] \in Uuids /\ row[n] \in RowUuids /\ metadata'[row[n]] = n
  <2>1. row[n] \in Uuids /\ row[n] \in RowUuids
    BY <1>0, <1>2 DEF TypeOK, RowUuids
  <2>2. \A m \in Names : row[m] = row[n] => m = n
    BY <1>0, <1>2 DEF RowsRegistered
  <2>3. (CHOOSE m \in Names : row[m] = row[n]) = n
    BY <2>2
  <2> QED  BY <1>1, <2>1, <2>3
<1>3. \A u \in RowUuids : \E n \in Names : row[n] # None /\ row[n] = u
  BY DEF RowUuids
<1>4. TypeOK'
  <2>1. uuidSet' \in SUBSET Uuids
    BY <1>1, <1>2, <1>3
  <2>2. metadata' \in [Uuids -> Names \cup {None}]
    BY <1>1, <1>2, <1>3
  <2>3. proc' \in [Procs -> ProcRecord]
    BY <1>1 DEF Idle, ProcRecord, Pcs
  <2> QED  BY <1>0, <1>1, <2>1, <2>2, <2>3 DEF TypeOK
<1>5. Records' /\ NameOnce'
  BY <1>1 DEF Records, RecordOK, FreeWhenWatched, Owns, NameOnce, Reg, Idle
<1>6. Keys'
  <2>1. \A u \in Uuids : metadata'[u] # None => u \in RowUuids
    BY <1>1
  <2>2. NamesOfUuids'
    BY <1>1, <1>2, <1>3, <2>1 DEF NamesOfUuids
  <2>3. SetHasMetadata'
    BY <1>1, <1>2, <1>3, UuidRegistryAssumption DEF SetHasMetadata
  <2>4. MetadataInSet'
    BY <1>1, <2>1 DEF MetadataInSet
  <2>5. NamesHaveMetadata'
    BY <1>1, <1>2 DEF NamesHaveMetadata
  <2> QED  BY <2>2, <2>3, <2>4, <2>5 DEF Keys
<1>7. RowsRegistered'
  BY <1>1, <1>2 DEF RowsRegistered
<1> QED  BY <1>4, <1>5, <1>6, <1>7 DEF IInv

-----------------------------------------------------------------------------
(* The invariant holds initially. *)
LEMMA InitIInv == Init => IInv
<1> SUFFICES ASSUME Init
             PROVE  IInv
  OBVIOUS
<1> USE DEF Init
<1>1. TypeOK
  BY DEF TypeOK, Idle, ProcRecord, Pcs
<1>2. Records /\ NameOnce
  BY DEF Records, RecordOK, FreeWhenWatched, Owns, NameOnce, Reg, Idle
<1>3. Keys
  BY DEF Keys, NamesOfUuids, SetHasMetadata, MetadataInSet, NamesHaveMetadata
<1>4. RowsRegistered
  BY DEF RowsRegistered
<1> QED  BY <1>1, <1>2, <1>3, <1>4 DEF IInv

(* Every step preserves the invariant. *)
LEMMA NextIInv ==
    ASSUME RowDeletedOnce', IInv, [Next]_vars
    PROVE  IInv'
<1>0. TypeOK
  BY DEF IInv
<1>1. ASSUME NEW p \in Procs, Begin(p)
      PROVE  IInv'
  BY <1>1, BeginPostStep, BeginDeleteStep DEF Begin
<1>2. ASSUME NEW p \in Procs, Handle(p)
      PROVE  IInv'
  <2>1. CASE Lock(p)
    BY <2>1, LockStep
  <2>2. CASE Watch(p)
    BY <2>2, WatchStep
  <2>3. CASE Execute(p)
    <3>1. CASE ~proc[p].dirty /\ Register(p)
      BY <2>3, <3>1, RegisterStep DEF Execute
    <3>2. CASE proc[p].dirty /\ Become(p, "watch") /\ UNCHANGED registry
      BY <2>3, <3>2, WatchAgainStep DEF Execute
    <3> QED  BY <2>3, <3>1, <3>2 DEF Execute
  <2>4. CASE Check(p)
    BY <2>4, OnwardStep DEF Check
  <2>5. CASE PostBody(p)
    <3>1. lock' \in [Names -> {NoLock, "post", "delete"}] /\ chain' \in SUBSET Names
      <4>1. proc[p].name \in Names
        BY <2>5 DEF IInv, Records, RecordOK, PostBody
      <4> QED  BY <1>0, <2>5, <4>1 DEF PostBody, TypeOK
    <3> QED  BY <2>5, <3>1, InsertStep DEF PostBody
  <2>6. CASE PostRaises(p)
    BY <1>0, <2>6, EndsWithErrorStep DEF PostRaises, Steady, registry, TypeOK
  <2>7. CASE PostRaisesLate(p)
    <3>1. lock' \in [Names -> {NoLock, "post", "delete"}] /\ chain' \in SUBSET Names
      BY <1>0, <2>7 DEF PostRaisesLate, EndWithError, TypeOK
    <3> QED  BY <2>7, <3>1, InsertStep DEF PostRaisesLate, EndWithError
  <2>8. CASE FilesRaise(p)
    BY <2>8, OnwardStep DEF FilesRaise
  <2>9. CASE Abort(p)
    BY <2>9, AbortStep
  <2>10. CASE DeleteRaises(p)
    BY <1>0, <2>10, EndsWithErrorStep DEF DeleteRaises, Steady, registry, TypeOK
  <2>11. CASE DeleteRow(p)
    BY <2>11, DeleteRowStep
  <2>12. CASE Srem(p)
    BY <2>12, SremStep
  <2>13. CASE Del(p)
    BY <2>13, DelStep
  <2>14. CASE Hdel(p)
    BY <2>14, HdelStep
  <2>15. CASE Unlock(p)
    BY <2>15, UnlockStep
  <2> QED  BY <1>2, <2>1, <2>2, <2>3, <2>4, <2>5, <2>6, <2>7, <2>8, <2>9, <2>10, <2>11,
              <2>12, <2>13, <2>14, <2>15 DEF Handle
<1>3. ASSUME NEW n \in Names, ChainEnds(n)
      PROVE  IInv'
  BY <1>3, ChainEndsStep
<1>4. CASE Restart
  BY <1>4, RestartStep
<1>5. CASE UNCHANGED vars
  <2> USE <1>5 DEF vars
  <2>1. TypeOK' /\ RowsRegistered'
    BY DEF IInv, TypeOK, RowsRegistered
  <2>2. Records' /\ NameOnce'
    BY DEF IInv, Records, RecordOK, FreeWhenWatched, Owns, NameOnce, Reg
  <2>3. Keys'
    BY DEF IInv, Keys, NamesOfUuids, SetHasMetadata, MetadataInSet, NamesHaveMetadata
  <2> QED  BY <2>1, <2>2, <2>3 DEF IInv
<1> QED  BY <1>1, <1>2, <1>3, <1>4, <1>5 DEF Next

(* The registry, the rows and the processes always fit together as IInv    *)
(* says.                                                                   *)
THEOREM InductiveInvariant == Spec /\ []RowDeletedOnce => []IInv
<1>1. IInv /\ RowDeletedOnce' /\ [Next]_vars => IInv'
  BY NextIInv
<1> QED  BY InitIInv, <1>1, PTL DEF Spec

-----------------------------------------------------------------------------
(* Whatever requests are sent at the same time, fail or are interrupted by *)
(* a restart, a publication of the prime DB schema is registered under its *)
(* name and its uuid, so that no POST takes one of them from it; unless    *)
(* two DELETE requests are about to delete its row at once.                *)
THEOREM RowsAreRegistered == Spec /\ []RowDeletedOnce => []RowsRegistered
<1>1. IInv => RowsRegistered
  BY DEF IInv
<1> QED  BY InductiveInvariant, <1>1, PTL

(* The transaction gives a name, and a uuid, to one request at a time,     *)
(* however many post and delete; unless two DELETE requests are about to   *)
(* delete the row of one publication at once.                              *)
THEOREM RegisteredByOne == Spec /\ []RowDeletedOnce => []RegisteredOnce
<1>1. IInv => RegisteredOnce
  <2> SUFFICES ASSUME IInv, NEW p \in Registered, NEW q \in Registered, p # q
               PROVE  /\ proc[p].name # proc[q].name
                      /\ proc[p].uuid = proc[q].uuid => proc[p].pc = "hdel" \/ proc[q].pc = "hdel"
    BY DEF RegisteredOnce
  <2>1. p \in Procs /\ q \in Procs /\ Reg(proc[p]) /\ Reg(proc[q])
    BY DEF Registered, Reg
  <2>2. proc[p].name # proc[q].name
    BY <2>1 DEF IInv, NameOnce
  <2>3. Owns(proc[p]) /\ Owns(proc[q])
    BY <2>1 DEF IInv, Records
  <2> QED  BY <2>1, <2>2, <2>3 DEF Owns
<1> QED  BY InductiveInvariant, <1>1, PTL

(* The three keys of the registry never disagree but while a process is    *)
(* unregistering; unless two DELETE requests are about to delete the row   *)
(* of one publication at once.                                             *)
THEOREM RegistryAgrees == Spec /\ []RowDeletedOnce => []KeysAgree
<1>1. IInv => KeysAgree
  <2> SUFFICES ASSUME IInv
               PROVE  KeysAgree
    OBVIOUS
  <2>1. TypeOK /\ Keys
    BY DEF IInv
  <2>2. ASSUME \A p \in Procs : proc[p].pc \notin {"srem", "del", "hdel"}
        PROVE  /\ uuidSet = {u \in Uuids : metadata[u] # None}
               /\ \A n \in Names : names[n] # None => metadata[names[n]] = n
    <3>1. \A u \in Uuids : u \in uuidSet <=> metadata[u] # None
      BY <2>1, <2>2 DEF Keys, SetHasMetadata, MetadataInSet
    <3>2. uuidSet \subseteq Uuids
      BY <2>1 DEF TypeOK
    <3>3. \A n \in Names : names[n] # None => metadata[names[n]] = n
      BY <2>1, <2>2 DEF Keys, NamesHaveMetadata
    <3> QED  BY <3>1, <3>2, <3>3
  <2> QED  BY <2>1, <2>2 DEF Keys, KeysAgree
<1> QED  BY InductiveInvariant, <1>1, PTL

-----------------------------------------------------------------------------
(* Types, with any number of processes that delete.                        *)

Busy(r) == r.pc # "idle" => r.name \in Names /\ r.uuid \in Uuids

TInv == TypeOK /\ \A p \in Procs : Busy(proc[p])

(* A process becomes r, and a transaction of others may fail.              *)
LEMMA TypedStep ==
    ASSUME TInv, NEW p \in Procs, NEW r \in ProcRecord, Busy(r),
           proc' = [proc EXCEPT ![p] = r] \/ ChangeRegistry(p, r)
    PROVE  proc' \in [Procs -> ProcRecord] /\ \A q \in Procs : Busy(proc'[q])
<1>1. TypeOK
  BY DEF TInv
<1>2. CASE proc' = [proc EXCEPT ![p] = r]
  BY <1>1, <1>2 DEF TInv, TypeOK
<1>3. CASE ChangeRegistry(p, r)
  BY <1>1, <1>3, OthersWatch DEF TInv, Busy
<1>. QED  BY <1>2, <1>3

LEMMA IdleTyped == Idle \in ProcRecord /\ Busy(Idle)
BY DEF Idle, ProcRecord, Pcs, Busy

LEMMA NextTInv ==
    ASSUME TInv, [Next]_vars
    PROVE  TInv'
<1>1. TypeOK /\ \A p \in Procs : Busy(proc[p]) /\ proc[p] \in ProcRecord
  BY DEF TInv, TypeOK
<1> DEFINE Locks == [Names -> {NoLock, "post", "delete"}]
<1>2. ASSUME NEW p \in Procs, Begin(p) PROVE TInv'
  <2>1. ASSUME NEW n \in Names, NEW u \in Uuids, BeginPost(p, n, u) PROVE TInv'
    <3> DEFINE r == [Idle EXCEPT !.pc = IF n \in Maps THEN "lock" ELSE "watch", !.name = n, !.uuid = u]
    <3>1. r \in ProcRecord /\ Busy(r)
      BY DEF Idle, ProcRecord, Pcs, Busy
    <3>2. proc' = [proc EXCEPT ![p] = r] /\ UNCHANGED <<registry, row, lock, chain>>
      BY <2>1 DEF BeginPost
    <3> HIDE DEF r
    <3>. QED  BY <1>1, <3>1, <3>2, TypedStep DEF TInv, TypeOK, registry
  <2>2. ASSUME NEW n \in Names, BeginDelete(p, n) PROVE TInv'
    <3> DEFINE r == [Idle EXCEPT !.pc = "abort", !.name = n, !.uuid = row[n], !.locked = TRUE]
    <3>1. row[n] \in Uuids
      BY <1>1, <2>2 DEF BeginDelete, TypeOK
    <3>2. r \in ProcRecord /\ Busy(r)
      BY <3>1 DEF Idle, ProcRecord, Pcs, Busy
    <3>3. /\ proc' = [proc EXCEPT ![p] = r] /\ UNCHANGED <<registry, row, chain>>
          /\ lock' \in Locks
      BY <1>1, <2>2 DEF BeginDelete, TypeOK
    <3> HIDE DEF r
    <3>. QED  BY <1>1, <3>2, <3>3, TypedStep DEF TInv, TypeOK, registry
  <2>. QED  BY <1>2, <2>1, <2>2 DEF Begin
<1>3. ASSUME NEW p \in Procs, EndWithError(p)
      PROVE  /\ lock' \in Locks /\ proc' \in [Procs -> ProcRecord] /\ \A q \in Procs : Busy(proc'[q])
  <2>1. lock' \in Locks
    BY <1>1, <1>3 DEF EndWithError, TypeOK
  <2>. QED  BY <1>3, <2>1, IdleTyped, TypedStep DEF EndWithError
<1>4. ASSUME NEW p \in Procs, NEW next \in Pcs, proc[p].pc # "idle", Become(p, next)
      PROVE  proc' \in [Procs -> ProcRecord] /\ \A q \in Procs : Busy(proc'[q])
  <2> DEFINE r == [proc[p] EXCEPT !.pc = next]
  <2>1. r \in ProcRecord /\ Busy(r)
    BY <1>1, <1>4 DEF ProcRecord, Busy
  <2> HIDE DEF r
  <2>. QED  BY <1>4, <2>1, TypedStep DEF Become, r
<1>5. ASSUME NEW p \in Procs, Handle(p) PROVE TInv'
  <2>0. proc[p].pc # "idle"
    BY <1>5 DEF Handle, Lock, Watch, Execute, Check, PostBody, PostRaises, PostRaisesLate, FilesRaise,
                Abort, DeleteRaises, DeleteRow, Srem, Del, Hdel, Unlock
  <2> DEFINE n == proc[p].name
             u == proc[p].uuid
  <2>1. n \in Names /\ u \in Uuids /\ proc[p] \in ProcRecord
    BY <1>1, <2>0 DEF Busy
  <2>2. CASE Lock(p)
    <3> DEFINE r == [proc[p] EXCEPT !.pc = IF n \in Maps THEN "watch" ELSE "body", !.locked = TRUE]
    <3>1. r \in ProcRecord /\ Busy(r)
      BY <2>1 DEF ProcRecord, Pcs, Busy
    <3>2. \/ lock' = [lock EXCEPT ![n] = "post"] /\ proc' = [proc EXCEPT ![p] = r]
          \/ EndWithError(p)
      BY <2>2 DEF Lock
    <3> HIDE DEF r
    <3>. QED  BY <1>1, <1>3, <2>2, <3>1, <3>2, TypedStep DEF TInv, TypeOK, Lock, registry
  <2>3. CASE Watch(p)
    <3> DEFINE r == [proc[p] EXCEPT !.pc = "multi", !.dirty = FALSE]
    <3>1. r \in ProcRecord /\ Busy(r)
      BY <2>1 DEF ProcRecord, Pcs, Busy
    <3>2. \/ UNCHANGED lock /\ proc' = [proc EXCEPT ![p] = r]
          \/ EndWithError(p)
      BY <2>3 DEF Watch
    <3> HIDE DEF r
    <3>. QED  BY <1>1, <1>3, <2>3, <3>1, <3>2, TypedStep DEF TInv, TypeOK, Watch, registry
  <2>4. CASE Execute(p)
    <3>1. CASE Register(p)
      <4> DEFINE r == [proc[p] EXCEPT !.pc = IF n \in Maps THEN "body" ELSE "checks"]
      <4>1. r \in ProcRecord /\ Busy(r)
        BY <2>1 DEF ProcRecord, Pcs, Busy
      <4>2. /\ ChangeRegistry(p, r) /\ uuidSet' \in SUBSET Uuids
            /\ metadata' \in [Uuids -> Names \cup {None}] /\ names' \in [Names -> Uuids \cup {None}]
        BY <1>1, <2>1, <3>1 DEF Register, TypeOK
      <4> HIDE DEF r
      <4>. QED  BY <1>1, <2>4, <4>1, <4>2, TypedStep DEF TInv, TypeOK, Execute
    <3>2. CASE Become(p, "watch") /\ UNCHANGED registry
      BY <1>1, <1>4, <2>0, <2>4, <3>2 DEF TInv, TypeOK, Execute, registry, Pcs
    <3>. QED  BY <2>4, <3>1, <3>2 DEF Execute
  <2>5. CASE Check(p) \/ FilesRaise(p)
    BY <1>1, <1>4, <2>0, <2>5 DEF TInv, TypeOK, Check, FilesRaise, registry, Pcs
  <2>6. CASE PostBody(p)
    <3>1. row' \in [Names -> Uuids \cup {None}] /\ chain' \in SUBSET Names /\ UNCHANGED <<registry, lock>>
      BY <1>1, <2>1, <2>6 DEF PostBody, TypeOK
    <3>2. proc' \in [Procs -> ProcRecord] /\ \A q \in Procs : Busy(proc'[q])
      BY <2>6, IdleTyped, TypedStep DEF PostBody
    <3>. QED  BY <1>1, <3>1, <3>2 DEF TInv, TypeOK, registry
  <2>7. CASE PostRaises(p) \/ DeleteRaises(p)
    BY <1>1, <1>3, <2>7 DEF TInv, TypeOK, PostRaises, DeleteRaises, registry
  <2>8. CASE PostRaisesLate(p)
    <3>1. row' \in [Names -> Uuids \cup {None}] /\ EndWithError(p) /\ UNCHANGED <<registry, chain>>
      BY <1>1, <2>1, <2>8 DEF PostRaisesLate, TypeOK
    <3>. QED  BY <1>1, <1>3, <3>1 DEF TInv, TypeOK, registry
  <2>9. CASE Abort(p)
    <3>1. CASE EndWithError(p)
      BY <1>1, <1>3, <2>9, <3>1 DEF TInv, TypeOK, Abort, registry
    <3>2. CASE Become(p, "row") /\ UNCHANGED lock
      <4>1. proc' \in [Procs -> ProcRecord] /\ \A q \in Procs : Busy(proc'[q])
        BY <1>4, <2>0, <3>2 DEF Pcs
      <4>. QED  BY <1>1, <2>9, <3>2, <4>1 DEF TInv, TypeOK, Abort, registry
    <3>. QED  BY <2>9, <3>1, <3>2 DEF Abort
  <2>10. CASE DeleteRow(p)
    <3>1. row' \in [Names -> Uuids \cup {None}] /\ UNCHANGED <<registry, lock, chain>>
      BY <1>1, <2>1, <2>10 DEF DeleteRow, TypeOK
    <3>2. proc' \in [Procs -> ProcRecord] /\ \A q \in Procs : Busy(proc'[q])
      BY <1>4, <2>0, <2>10 DEF DeleteRow, Pcs
    <3>. QED  BY <1>1, <3>1, <3>2 DEF TInv, TypeOK, registry
  <2>11. CASE Srem(p) \/ Del(p) \/ Hdel(p)
    <3>1. PICK r \in {[proc[p] EXCEPT !.pc = "del"], [proc[p] EXCEPT !.pc = "hdel"],
                      [proc[p] EXCEPT !.pc = "unlock"], Idle} : ChangeRegistry(p, r)
      BY <2>11 DEF Srem, Del, Hdel
    <3>2. r \in ProcRecord /\ Busy(r)
      BY <2>1, IdleTyped DEF ProcRecord, Pcs, Busy
    <3>3. /\ uuidSet' \in SUBSET Uuids /\ metadata' \in [Uuids -> Names \cup {None}]
          /\ names' \in [Names -> Uuids \cup {None}] /\ UNCHANGED <<row, lock, chain>>
      BY <1>1, <2>1, <2>11 DEF Srem, Del, Hdel, TypeOK
    <3>. QED  BY <1>1, <3>1, <3>2, <3>3, TypedStep DEF TInv, TypeOK
  <2>12. CASE Unlock(p)
    <3>1. lock' \in Locks /\ UNCHANGED <<registry, row, chain>>
      BY <1>1, <2>1, <2>12 DEF Unlock, TypeOK
    <3>2. proc' \in [Procs -> ProcRecord] /\ \A q \in Procs : Busy(proc'[q])
      BY <2>12, IdleTyped, TypedStep DEF Unlock
    <3>. QED  BY <1>1, <3>1, <3>2 DEF TInv, TypeOK, registry
  <2>. QED  BY <1>5, <2>2, <2>3, <2>4, <2>5, <2>6, <2>7, <2>8, <2>9, <2>10, <2>11, <2>12 DEF Handle
<1>6. ASSUME NEW n \in Names, ChainEnds(n) PROVE TInv'
  BY <1>1, <1>6 DEF TInv, TypeOK, ChainEnds, registry
<1>7. CASE Restart
  <2>1. ASSUME NEW v \in RowUuids
        PROVE  v \in Uuids /\ (CHOOSE n \in Names : row[n] = v) \in Names
    <3>1. \E n \in Names : row[n] = v
      BY DEF RowUuids
    <3>. QED  BY <1>1, <3>1 DEF TypeOK, RowUuids
  <2>2. uuidSet' \in SUBSET Uuids /\ metadata' \in [Uuids -> Names \cup {None}] /\ names' \in [Names -> Uuids \cup {None}]
    BY <1>1, <1>7, <2>1 DEF Restart, Imported, TypeOK
  <2>3. proc' \in [Procs -> ProcRecord] /\ \A q \in Procs : Busy(proc'[q])
    BY <1>7, IdleTyped DEF Restart
  <2>. QED  BY <1>1, <1>7, <2>2, <2>3 DEF TInv, TypeOK, Restart
<1>8. CASE UNCHANGED vars
  BY <1>1, <1>8 DEF vars, TInv, TypeOK
<1>. QED  BY <1>2, <1>5, <1>6, <1>7, <1>8 DEF Next

(* TypeOK of UuidRegistry: Redis holds uuids and names that are known, and *)
(* a process that handles a request knows what it is about; whatever the   *)
(* requests are and however many of them delete.                           *)
THEOREM TypesHold == Spec => []TypeOK
<1>1. Init => TInv
  BY InitIInv DEF IInv, TInv, Init, Busy, Idle
<1>2. TInv /\ [Next]_vars => TInv'
  BY NextTInv
<1>3. TInv => TypeOK
  BY DEF TInv
<1>. QED  BY <1>1, <1>2, <1>3, PTL DEF Spec

-----------------------------------------------------------------------------
(* The lock of a layer.  A process that took it has it for itself until it *)
(* is about to unlock; no chain of the layer can release it meanwhile,     *)
(* because a publication whose chain runs has a row, that DELETE deletes   *)
(* only after it has aborted the chain.                                    *)

LockRecord(r) ==
    /\ r.pc \in {"abort", "row", "unlock"} \/ (r.pc = "body" /\ r.name \notin Maps) => r.locked
    /\ r.locked /\ r.name \notin Maps =>
          /\ r.pc \in {"body", "abort", "row", "srem", "del", "hdel", "unlock"}
          /\ lock[r.name] # NoLock
          /\ r.pc = "body" => lock[r.name] = "post"
          /\ r.pc \in {"abort", "row"} => lock[r.name] = "delete"
          /\ r.pc \notin {"abort", "row"} => row[r.name] = None
    /\ r.pc = "row" => r.name \notin chain

LockRecords == \A p \in Procs : LockRecord(proc[p])

LockedOnce == \A p, q \in Procs :
    p # q /\ proc[p].locked /\ proc[q].locked /\ proc[p].name \notin Maps => proc[p].name # proc[q].name

ChainsHaveRows == \A n \in chain : row[n] # None

LInv == LockRecords /\ LockedOnce /\ ChainsHaveRows

(* The other processes are about what they were, and hold what they held.  *)
OthersKept(p) == \A q \in Procs : q # p =>
    /\ proc'[q].pc = proc[q].pc /\ proc'[q].name = proc[q].name
    /\ proc'[q].locked <=> proc[q].locked

(* A step of process p that leaves alone the locks of others.              *)
LEMMA LockRest ==
    ASSUME LInv, NEW p \in Procs, OthersKept(p),
           \A q \in Procs : q # p /\ proc[q].locked /\ proc[q].name \notin Maps =>
                lock'[proc[q].name] = lock[proc[q].name] /\ row'[proc[q].name] = row[proc[q].name],
           \A q \in Procs : q # p /\ proc[q].pc = "row" => proc[q].name \notin chain',
           LockRecord(proc[p])',
           proc'[p].locked /\ proc'[p].name \notin Maps =>
                \A q \in Procs : q # p /\ proc[q].locked => proc[q].name # proc'[p].name,
           ChainsHaveRows'
    PROVE  LInv'
<1>1. ASSUME NEW q \in Procs, q # p PROVE LockRecord(proc[q])'
  <2>1. LockRecord(proc[q])
    BY DEF LInv, LockRecords
  <2>. QED  BY <1>1, <2>1 DEF LockRecord, OthersKept
<1>2. LockRecords'
  BY <1>1 DEF LockRecords
<1>3. LockedOnce'
  <2> SUFFICES ASSUME NEW a \in Procs, NEW b \in Procs, a # b,
                      proc'[a].locked, proc'[b].locked, proc'[a].name \notin Maps
               PROVE  proc'[a].name # proc'[b].name
    BY DEF LockedOnce
  <2>1. CASE a = p
    BY <2>1 DEF OthersKept
  <2>2. CASE b = p
    BY <2>2 DEF OthersKept
  <2>3. CASE a # p /\ b # p
    BY <2>3 DEF OthersKept, LInv, LockedOnce
  <2>. QED  BY <2>1, <2>2, <2>3
<1>. QED  BY <1>2, <1>3 DEF LInv

(* A step that changes neither locks, rows nor chains.                     *)
LEMMA LockQuiet ==
    ASSUME LInv, NEW p \in Procs, OthersKept(p), UNCHANGED <<lock, row, chain>>,
           LockRecord(proc'[p]),
           proc'[p].locked => proc[p].locked /\ proc'[p].name = proc[p].name
    PROVE  LInv'
<1>1. LockRecord(proc[p])'
  BY DEF LockRecord
<1>2. ChainsHaveRows'
  BY DEF LInv, ChainsHaveRows
<1>3. proc'[p].locked /\ proc'[p].name \notin Maps =>
         \A q \in Procs : q # p /\ proc[q].locked => proc[q].name # proc'[p].name
  BY DEF LInv, LockedOnce
<1>4. \A q \in Procs : q # p /\ proc[q].pc = "row" => proc[q].name \notin chain'
  BY DEF LInv, LockRecords, LockRecord
<1>. QED  BY <1>1, <1>2, <1>3, <1>4, LockRest

(* A process that changes only its own record.                             *)
LEMMA OthersKeptAlone ==
    ASSUME TypeOK, NEW p \in Procs, NEW r, proc' = [proc EXCEPT ![p] = r]
    PROVE  proc'[p] = r /\ OthersKept(p)
BY DEF TypeOK, OthersKept

(* A process that changes the registry.                                    *)
LEMMA OthersKeptWatching ==
    ASSUME TypeOK, NEW p \in Procs, NEW r, ChangeRegistry(p, r)
    PROVE  proc'[p] = r /\ OthersKept(p)
<1>1. proc'[p] = r
  BY DEF ChangeRegistry
<1>2. ASSUME NEW q \in Procs, q # p
      PROVE  /\ proc'[q].pc = proc[q].pc /\ proc'[q].name = proc[q].name
             /\ proc'[q].locked <=> proc[q].locked
  <2>1. /\ proc'[q] = IF proc[q].pc = "multi" /\ Touched(q)
                      THEN [proc[q] EXCEPT !.dirty = TRUE] ELSE proc[q]
        /\ proc[q] \in ProcRecord
    BY <1>2 DEF ChangeRegistry, TypeOK
  <2>2. CASE proc[q].pc = "multi" /\ Touched(q)
    <3>1. proc'[q] = [proc[q] EXCEPT !.dirty = TRUE]
      BY <2>1, <2>2
    <3>. QED  BY <2>1, <3>1 DEF ProcRecord
  <2>3. CASE ~(proc[q].pc = "multi" /\ Touched(q))
    BY <2>1, <2>3
  <2>. QED  BY <2>2, <2>3
<1>. QED  BY <1>1, <1>2 DEF OthersKept

(* The request ends with an error; a lock of it was nobody else's.         *)
LEMMA LockErrors ==
    ASSUME TypeOK, Records, LInv, NEW p \in Procs, EndWithError(p), UNCHANGED <<row, chain>>
    PROVE  LInv'
<1>1. proc'[p] = Idle /\ OthersKept(p)
  BY OthersKeptAlone DEF EndWithError
<1>2. LockRecord(proc[p])' /\ ~proc'[p].locked
  BY <1>1 DEF LockRecord, Idle
<1>3. ChainsHaveRows'
  BY DEF LInv, ChainsHaveRows
<1>4. \A q \in Procs : q # p /\ proc[q].pc = "row" => proc[q].name \notin chain'
  BY DEF LInv, LockRecords, LockRecord
<1>5. ASSUME NEW q \in Procs, q # p, proc[q].locked, proc[q].name \notin Maps
      PROVE  lock'[proc[q].name] = lock[proc[q].name]
  <2>1. CASE proc[p].locked
    <3>1. proc[q].name # proc[p].name
      BY <1>5, <2>1 DEF LInv, LockedOnce
    <3>. QED  BY <2>1, <3>1 DEF EndWithError, TypeOK
  <2>2. CASE ~proc[p].locked
    BY <2>2 DEF EndWithError
  <2>. QED  BY <2>1, <2>2
<1>. QED  BY <1>1, <1>2, <1>3, <1>4, <1>5, LockRest

(* Steps that only change what the process does.                           *)
LEMMA LockOnward ==
    ASSUME TypeOK, LInv, NEW p \in Procs, NEW next \in Pcs, Become(p, next), UNCHANGED <<lock, row, chain>>,
           \/ proc[p].pc \in {"multi", "checks"} /\ next \in {"watch", "lock", "srem"}
           \/ proc[p].pc = "body" /\ next = "srem"
    PROVE  LInv'
<1> DEFINE r == [proc[p] EXCEPT !.pc = next]
<1>1. proc[p] \in ProcRecord /\ LockRecord(proc[p])
  BY DEF TypeOK, LInv, LockRecords
<1>2. r.pc = next /\ r.name = proc[p].name /\ (r.locked <=> proc[p].locked)
  BY <1>1 DEF ProcRecord
<1>3. proc' = [proc EXCEPT ![p] = r]
  BY DEF Become
<1> HIDE DEF r
<1>4. proc'[p] = r /\ OthersKept(p)
  BY <1>3, OthersKeptAlone
<1>5. LockRecord(r)
  BY <1>1, <1>2 DEF LockRecord
<1>. QED  BY <1>2, <1>4, <1>5, LockQuiet

LEMMA LockBeginPost ==
    ASSUME TypeOK, LInv, NEW p \in Procs, NEW n \in Names, NEW u \in Uuids, BeginPost(p, n, u)
    PROVE  LInv'
<1> DEFINE r == [Idle EXCEPT !.pc = IF n \in Maps THEN "lock" ELSE "watch", !.name = n, !.uuid = u]
<1>1. r.pc \in {"lock", "watch"} /\ ~r.locked
  BY DEF Idle
<1>2. proc' = [proc EXCEPT ![p] = r] /\ UNCHANGED <<lock, row, chain>>
  BY DEF BeginPost
<1> HIDE DEF r
<1>3. proc'[p] = r /\ OthersKept(p)
  BY <1>2, OthersKeptAlone
<1>4. LockRecord(r)
  BY <1>1 DEF LockRecord
<1>. QED  BY <1>1, <1>2, <1>3, <1>4, LockQuiet

LEMMA LockWatch ==
    ASSUME TypeOK, Records, LInv, NEW p \in Procs, Watch(p)
    PROVE  LInv'
<1> DEFINE r == [proc[p] EXCEPT !.pc = "multi", !.dirty = FALSE]
<1>1. proc[p] \in ProcRecord /\ LockRecord(proc[p]) /\ proc[p].pc = "watch"
  BY DEF TypeOK, LInv, LockRecords, Watch
<1>2. CASE proc' = [proc EXCEPT ![p] = r] /\ UNCHANGED lock
  <2>1. r.pc = "multi" /\ r.name = proc[p].name /\ (r.locked <=> proc[p].locked)
    BY <1>1 DEF ProcRecord
  <2>2. UNCHANGED <<lock, row, chain>>
    BY <1>2 DEF Watch
  <2> HIDE DEF r
  <2>3. proc'[p] = r /\ OthersKept(p)
    BY <1>2, OthersKeptAlone
  <2>4. LockRecord(r)
    BY <1>1, <2>1 DEF LockRecord
  <2>. QED  BY <2>1, <2>2, <2>3, <2>4, LockQuiet
<1>3. CASE EndWithError(p)
  BY <1>3, LockErrors DEF Watch
<1>. QED  BY <1>2, <1>3 DEF Watch

(* The transaction, and the commands that unregister.                      *)
LEMMA LockRegistering ==
    ASSUME TypeOK, LInv, NEW p \in Procs, NEW r, ChangeRegistry(p, r), UNCHANGED <<lock, row, chain>>,
           \/ /\ r.name = proc[p].name /\ (r.locked <=> proc[p].locked)
              /\ \/ proc[p].pc = "multi" /\ r.pc = IF proc[p].name \in Maps THEN "body" ELSE "checks"
                 \/ proc[p].pc \in {"srem", "del", "hdel"} /\ r.pc \in {"del", "hdel"}
                 \/ proc[p].pc = "hdel" /\ r.pc = "unlock" /\ proc[p].locked
           \/ r = Idle
    PROVE  LInv'
<1>1. LockRecord(proc[p])
  BY DEF LInv, LockRecords
<1>2. proc'[p] = r /\ OthersKept(p)
  BY OthersKeptWatching
<1>3. LockRecord(r)
  BY <1>1 DEF LockRecord, Idle
<1>4. r.locked => proc[p].locked /\ r.name = proc[p].name
  BY DEF Idle
<1>. QED  BY <1>2, <1>3, <1>4, LockQuiet

LEMMA LockRegister ==
    ASSUME TypeOK, LInv, NEW p \in Procs, Register(p), proc[p].pc = "multi", UNCHANGED <<lock, row, chain>>
    PROVE  LInv'
<1> DEFINE r == [proc[p] EXCEPT !.pc = IF proc[p].name \in Maps THEN "body" ELSE "checks"]
<1>1. proc[p] \in ProcRecord
  BY DEF TypeOK
<1>2. r.name = proc[p].name /\ (r.locked <=> proc[p].locked)
      /\ r.pc = IF proc[p].name \in Maps THEN "body" ELSE "checks"
  BY <1>1 DEF ProcRecord
<1>3. ChangeRegistry(p, r)
  BY DEF Register
<1> HIDE DEF r
<1>. QED  BY <1>2, <1>3, LockRegistering

LEMMA LockUnregister ==
    ASSUME TypeOK, LInv, NEW p \in Procs, Srem(p) \/ Del(p) \/ Hdel(p)
    PROVE  LInv'
<1>1. proc[p] \in ProcRecord /\ UNCHANGED <<lock, row, chain>>
  BY DEF TypeOK, Srem, Del, Hdel
<1>2. ASSUME NEW next \in {"del", "hdel", "unlock"}, ChangeRegistry(p, [proc[p] EXCEPT !.pc = next]),
             \/ proc[p].pc \in {"srem", "del", "hdel"} /\ next # "unlock"
             \/ proc[p].pc = "hdel" /\ next = "unlock" /\ proc[p].locked
      PROVE  LInv'
  <2> DEFINE r == [proc[p] EXCEPT !.pc = next]
  <2>1. r.name = proc[p].name /\ (r.locked <=> proc[p].locked) /\ r.pc = next
    BY <1>1 DEF ProcRecord
  <2>2. ChangeRegistry(p, r)
    BY <1>2
  <2> HIDE DEF r
  <2>. QED  BY <1>1, <1>2, <2>1, <2>2, LockRegistering
<1>3. CASE Srem(p)
  BY <1>2, <1>3 DEF Srem
<1>4. CASE Del(p)
  BY <1>2, <1>4 DEF Del
<1>5. CASE Hdel(p)
  <2>1. CASE proc[p].locked
    BY <1>2, <1>5, <2>1 DEF Hdel
  <2>2. CASE ~proc[p].locked
    BY <1>1, <1>5, <2>2, LockRegistering DEF Hdel
  <2>. QED  BY <2>1, <2>2
<1>. QED  BY <1>3, <1>4, <1>5

(* POST takes the lock, when nobody has it.                                *)
LEMMA LockLock ==
    ASSUME IInv, LInv, NEW p \in Procs, Lock(p)
    PROVE  LInv'
<1> DEFINE n == proc[p].name
           r == [proc[p] EXCEPT !.pc = IF n \in Maps THEN "watch" ELSE "body", !.locked = TRUE]
<1>1. TypeOK /\ Records /\ RecordOK(p, proc[p]) /\ Owns(proc[p])
  BY DEF IInv, Records
<1>2. /\ proc[p] \in ProcRecord /\ proc[p].pc = "lock" /\ n \in Names
      /\ UNCHANGED <<row, chain>>
  BY <1>1 DEF TypeOK, Lock, RecordOK
<1>3. CASE lock[n] = NoLock /\ lock' = [lock EXCEPT ![n] = "post"] /\ proc' = [proc EXCEPT ![p] = r]
  <2>1. /\ r.pc = IF n \in Maps THEN "watch" ELSE "body"
        /\ r.name = n /\ r.locked
    BY <1>2 DEF ProcRecord
  <2>2. n \notin Maps => row[n] = None
    BY <1>1, <1>2 DEF Owns, Reg
  <2>3. lock'[n] = "post" /\ \A m \in Names : m # n => lock'[m] = lock[m]
    BY <1>1, <1>2, <1>3 DEF TypeOK
  <2> HIDE DEF r
  <2>4. proc'[p] = r /\ OthersKept(p)
    BY <1>1, <1>3, OthersKeptAlone
  <2>5. LockRecord(proc[p])'
    BY <1>2, <2>1, <2>2, <2>3, <2>4 DEF LockRecord, NoLock
  <2>6. ASSUME NEW q \in Procs, q # p, proc[q].locked, proc[q].name \notin Maps
        PROVE  proc[q].name # n /\ lock'[proc[q].name] = lock[proc[q].name]
    <3>1. lock[proc[q].name] # NoLock /\ proc[q].pc # "idle"
      BY <2>6 DEF LInv, LockRecords, LockRecord
    <3>2. proc[q].name \in Names
      BY <1>1, <3>1 DEF Records, RecordOK
    <3>. QED  BY <1>3, <2>3, <3>1, <3>2
  <2>7. ChainsHaveRows' /\ \A q \in Procs : q # p /\ proc[q].pc = "row" => proc[q].name \notin chain'
    BY <1>2 DEF LInv, ChainsHaveRows, LockRecords, LockRecord
  <2>8. proc'[p].locked /\ proc'[p].name \notin Maps =>
            \A q \in Procs : q # p /\ proc[q].locked => proc[q].name # proc'[p].name
    BY <2>1, <2>4, <2>6
  <2>. QED  BY <1>2, <2>4, <2>5, <2>6, <2>7, <2>8, LockRest
<1>4. CASE EndWithError(p)
  BY <1>1, <1>2, <1>4, LockErrors
<1>. QED  BY <1>3, <1>4 DEF Lock

(* POST inserts the row; the lock is left to the chain, or released.       *)
LEMMA LockInsert ==
    ASSUME IInv, LInv, NEW p \in Procs, proc[p].pc = "body", row[proc[p].name] = None,
           row' = [row EXCEPT ![proc[p].name] = proc[p].uuid], proc' = [proc EXCEPT ![p] = Idle],
           lock' \in {lock, [lock EXCEPT ![proc[p].name] = NoLock]},
           chain' \in {chain, chain \cup {proc[p].name}},
           lock' # lock => proc[p].locked
    PROVE  LInv'
<1> DEFINE n == proc[p].name
<1>1. TypeOK /\ Records /\ RecordOK(p, proc[p]) /\ LockRecord(proc[p])
  BY DEF IInv, Records, LInv, LockRecords
<1>2. n \in Names /\ proc[p].uuid \in Uuids /\ proc[p].uuid # None
  BY <1>1, UuidRegistryAssumption DEF RecordOK
<1>3. proc'[p] = Idle /\ OthersKept(p)
  BY <1>1, OthersKeptAlone
<1>4. LockRecord(proc[p])' /\ ~proc'[p].locked
  BY <1>3 DEF LockRecord, Idle
<1>5. row'[n] = proc[p].uuid /\ \A m \in Names : m # n => row'[m] = row[m] /\ lock'[m] = lock[m]
  BY <1>1, <1>2 DEF TypeOK
<1>6. ASSUME NEW q \in Procs, q # p, proc[q].locked, proc[q].name \notin Maps
      PROVE  lock'[proc[q].name] = lock[proc[q].name] /\ row'[proc[q].name] = row[proc[q].name]
  <2>1. proc[q].pc # "idle"
    BY <1>6 DEF LInv, LockRecords, LockRecord
  <2>2. proc[q].name \in Names
    BY <1>1, <2>1 DEF Records, RecordOK
  <2>3. n \notin Maps => proc[p].locked
    BY <1>1 DEF LockRecord
  <2>4. proc[q].name # n
    BY <1>6, <2>3 DEF LInv, LockedOnce
  <2>. QED  BY <1>5, <2>2, <2>4
<1>7. ASSUME NEW q \in Procs, q # p, proc[q].pc = "row"
      PROVE  proc[q].name \notin chain'
  <2>1. row[proc[q].name] = proc[q].uuid /\ proc[q].uuid \in Uuids
    BY <1>1, <1>7 DEF Records, Owns, Reg, RecordOK
  <2>2. proc[q].name # n
    BY <2>1, UuidRegistryAssumption
  <2>3. proc[q].name \notin chain
    BY <1>7 DEF LInv, LockRecords, LockRecord
  <2>. QED  BY <2>2, <2>3
<1>8. ChainsHaveRows'
  <2> SUFFICES ASSUME NEW m \in chain' PROVE row'[m] # None
    BY DEF ChainsHaveRows
  <2>1. CASE m = n
    BY <1>2, <1>5, <2>1
  <2>2. CASE m # n
    BY <1>1, <1>5, <2>2 DEF LInv, ChainsHaveRows, TypeOK
  <2>. QED  BY <2>1, <2>2
<1>. QED  BY <1>3, <1>4, <1>6, <1>7, <1>8, LockRest

(* A chain whose lock POST or DELETE has is not that of a layer it runs.   *)
LEMMA LockChainEnds ==
    ASSUME IInv, LInv, NEW n \in Names, ChainEnds(n)
    PROVE  LInv'
<1>1. TypeOK /\ Records
  BY DEF IInv
<1>2. /\ n \in chain /\ chain' = chain \ {n} /\ proc' = proc /\ row' = row
      /\ lock' = IF lock[n] = "post" THEN [lock EXCEPT ![n] = NoLock] ELSE lock
  BY DEF ChainEnds
<1>3. \A m \in Names : m # n => lock'[m] = lock[m]
  BY <1>1, <1>2 DEF TypeOK
<1>4. lock[n] # "post" => lock'[n] = lock[n]
  BY <1>2
<1>5. ASSUME NEW q \in Procs PROVE LockRecord(proc[q])'
  <2>1. LockRecord(proc[q])
    BY DEF LInv, LockRecords
  <2>2. ASSUME proc[q].locked, proc[q].name \notin Maps
        PROVE  lock'[proc[q].name] = lock[proc[q].name]
    <3>1. proc[q].name \in Names
      BY <1>1, <2>1, <2>2 DEF Records, RecordOK, LockRecord
    <3>2. CASE proc[q].name = n
      <4>1. row[n] # None
        BY <1>2 DEF LInv, ChainsHaveRows
      <4>2. lock[n] = "delete"
        BY <2>1, <2>2, <3>2, <4>1 DEF LockRecord
      <4>. QED  BY <1>4, <3>2, <4>2
    <3>3. CASE proc[q].name # n
      BY <1>3, <3>1, <3>3
    <3>. QED  BY <3>2, <3>3
  <2>. QED  BY <1>2, <2>1, <2>2 DEF LockRecord
<1>6. LockedOnce' /\ ChainsHaveRows'
  BY <1>2 DEF LInv, LockedOnce, ChainsHaveRows
<1>. QED  BY <1>5, <1>6 DEF LInv, LockRecords

(* DELETE takes the lock from the chain, of a publication that has a row.  *)
LEMMA LockBeginDelete ==
    ASSUME DeletedOnce', IInv, LInv, NEW p \in Procs, NEW n \in Names, BeginDelete(p, n)
    PROVE  LInv'
<1> DEFINE r == [Idle EXCEPT !.pc = "abort", !.name = n, !.uuid = row[n], !.locked = TRUE]
<1>1. TypeOK /\ Records
  BY DEF IInv
<1>2. /\ proc[p].pc = "idle" /\ p \in Deleters /\ row[n] # None
      /\ lock' = [lock EXCEPT ![n] = "delete"] /\ proc' = [proc EXCEPT ![p] = r]
      /\ UNCHANGED <<row, chain>>
  BY DEF BeginDelete
<1>3. lock'[n] = "delete" /\ \A m \in Names : m # n => lock'[m] = lock[m]
  BY <1>1, <1>2 DEF TypeOK
<1>4. r.pc = "abort" /\ r.name = n /\ r.locked
  BY DEF Idle
<1> HIDE DEF r
<1>5. proc'[p] = r /\ OthersKept(p)
  BY <1>1, <1>2, OthersKeptAlone
<1>6. LockRecord(proc[p])'
  BY <1>3, <1>4, <1>5 DEF LockRecord, NoLock
<1>7. ASSUME NEW q \in Procs, q # p, proc[q].locked, n \notin Maps
      PROVE  proc[q].name # n
  <2>1. LockRecord(proc[q]) /\ RecordOK(q, proc[q])
    BY <1>1 DEF LInv, LockRecords, Records
  <2>2. CASE proc[q].pc \in {"abort", "row"}
    BY <1>4, <1>5, <1>7, <2>2 DEF DeletedOnce, DeletedBy, OthersKept
  <2>3. CASE proc[q].pc \notin {"abort", "row"}
    BY <1>2, <1>7, <2>1, <2>3 DEF LockRecord
  <2>. QED  BY <2>2, <2>3
<1>8. ASSUME NEW q \in Procs, q # p, proc[q].locked, proc[q].name \notin Maps
      PROVE  lock'[proc[q].name] = lock[proc[q].name]
  <2>1. proc[q].name \in Names
    BY <1>1, <1>8 DEF LInv, LockRecords, LockRecord, Records, RecordOK
  <2>2. proc[q].name # n
    BY <1>7, <1>8
  <2>. QED  BY <1>3, <2>1, <2>2
<1>9. ChainsHaveRows' /\ \A q \in Procs : q # p /\ proc[q].pc = "row" => proc[q].name \notin chain'
  BY <1>2 DEF LInv, ChainsHaveRows, LockRecords, LockRecord
<1>. QED  BY <1>2, <1>4, <1>5, <1>6, <1>7, <1>8, <1>9, LockRest

(* DELETE has aborted the chain, or raises.                                *)
LEMMA LockAbort ==
    ASSUME IInv, LInv, NEW p \in Procs, Abort(p)
    PROVE  LInv'
<1> DEFINE n == proc[p].name
           r == [proc[p] EXCEPT !.pc = "row"]
<1>1. TypeOK /\ Records /\ LockRecord(proc[p])
  BY DEF IInv, LInv, LockRecords
<1>2. CASE chain' = chain \ {n} /\ proc' = [proc EXCEPT ![p] = r] /\ UNCHANGED lock
  <2>1. proc[p] \in ProcRecord /\ proc[p].pc = "abort" /\ UNCHANGED row
    BY <1>1 DEF TypeOK, Abort
  <2>2. r.pc = "row" /\ r.name = n /\ (r.locked <=> proc[p].locked)
    BY <2>1 DEF ProcRecord
  <2> HIDE DEF r
  <2>3. proc'[p] = r /\ OthersKept(p)
    BY <1>1, <1>2, OthersKeptAlone
  <2>4. LockRecord(proc[p])'
    BY <1>1, <1>2, <2>1, <2>2, <2>3 DEF LockRecord
  <2>5. ChainsHaveRows' /\ \A q \in Procs : q # p /\ proc[q].pc = "row" => proc[q].name \notin chain'
    BY <1>2, <2>1 DEF LInv, ChainsHaveRows, LockRecords, LockRecord
  <2>6. proc'[p].locked /\ proc'[p].name \notin Maps =>
            \A q \in Procs : q # p /\ proc[q].locked => proc[q].name # proc'[p].name
    BY <2>2, <2>3 DEF LInv, LockedOnce
  <2>. QED  BY <1>2, <2>1, <2>3, <2>4, <2>5, <2>6, LockRest
<1>3. CASE EndWithError(p)
  <2>1. CASE UNCHANGED chain
    BY <1>1, <1>3, <2>1, LockErrors DEF Abort
  <2>2. CASE chain' # chain
    BY <1>2, <2>2 DEF Abort, Become
  <2>. QED  BY <2>1, <2>2
<1>. QED  BY <1>2, <1>3 DEF Abort, Become

LEMMA LockDeleteRow ==
    ASSUME IInv, LInv, NEW p \in Procs, DeleteRow(p)
    PROVE  LInv'
<1> DEFINE n == proc[p].name
           r == [proc[p] EXCEPT !.pc = "srem"]
<1>1. TypeOK /\ Records /\ LockRecord(proc[p]) /\ RecordOK(p, proc[p])
  BY DEF IInv, LInv, LockRecords, Records
<1>2. /\ proc[p] \in ProcRecord /\ proc[p].pc = "row" /\ n \in Names
      /\ row' = [row EXCEPT ![n] = None] /\ proc' = [proc EXCEPT ![p] = r]
      /\ UNCHANGED <<lock, chain>>
  BY <1>1 DEF TypeOK, DeleteRow, Become, RecordOK
<1>3. row'[n] = None /\ \A m \in Names : m # n => row'[m] = row[m]
  BY <1>1, <1>2 DEF TypeOK
<1>4. r.pc = "srem" /\ r.name = n /\ (r.locked <=> proc[p].locked)
  BY <1>2 DEF ProcRecord
<1> HIDE DEF r
<1>5. proc'[p] = r /\ OthersKept(p)
  BY <1>1, <1>2, OthersKeptAlone
<1>6. LockRecord(proc[p])'
  BY <1>1, <1>2, <1>3, <1>4, <1>5 DEF LockRecord
<1>7. proc[p].locked /\ n \notin chain
  BY <1>1, <1>2 DEF LockRecord
<1>8. ASSUME NEW q \in Procs, q # p, proc[q].locked, proc[q].name \notin Maps
      PROVE  row'[proc[q].name] = row[proc[q].name]
  <2>1. proc[q].name \in Names
    BY <1>1, <1>8 DEF LInv, LockRecords, LockRecord, Records, RecordOK
  <2>2. proc[q].name # n
    BY <1>7, <1>8 DEF LInv, LockedOnce
  <2>. QED  BY <1>3, <2>1, <2>2
<1>9. ChainsHaveRows'
  <2> SUFFICES ASSUME NEW m \in chain PROVE row'[m] # None
    BY <1>2 DEF ChainsHaveRows
  <2>. QED  BY <1>1, <1>3, <1>7 DEF LInv, ChainsHaveRows, TypeOK
<1>10. \A q \in Procs : q # p /\ proc[q].pc = "row" => proc[q].name \notin chain'
  BY <1>2 DEF LInv, LockRecords, LockRecord
<1>11. proc'[p].locked /\ proc'[p].name \notin Maps =>
            \A q \in Procs : q # p /\ proc[q].locked => proc[q].name # proc'[p].name
  BY <1>4, <1>5 DEF LInv, LockedOnce
<1>. QED  BY <1>2, <1>5, <1>6, <1>8, <1>9, <1>10, <1>11, LockRest

LEMMA LockUnlock ==
    ASSUME IInv, LInv, NEW p \in Procs, Unlock(p)
    PROVE  LInv'
<1>1. TypeOK /\ Records /\ LockRecord(proc[p])
  BY DEF IInv, LInv, LockRecords
<1>2. EndWithError(p) /\ UNCHANGED <<row, chain>>
  <2>1. proc[p].locked
    BY <1>1 DEF LockRecord, Unlock
  <2>. QED  BY <2>1 DEF EndWithError, Unlock
<1>. QED  BY <1>1, <1>2, LockErrors

-----------------------------------------------------------------------------
LEMMA NextLInv ==
    ASSUME DeletedOnce', IInv, LInv, [Next]_vars
    PROVE  LInv'
<1>1. TypeOK /\ Records
  BY DEF IInv
<1>2. ASSUME NEW p \in Procs, Begin(p) PROVE LInv'
  BY <1>1, <1>2, LockBeginPost, LockBeginDelete DEF Begin
<1>3. ASSUME NEW p \in Procs, Handle(p) PROVE LInv'
  <2>1. CASE Lock(p)
    BY <2>1, LockLock
  <2>2. CASE Watch(p)
    BY <1>1, <2>2, LockWatch
  <2>3. CASE Execute(p)
    <3>1. CASE Register(p)
      BY <1>1, <2>3, <3>1, LockRegister DEF Execute
    <3>2. CASE Become(p, "watch")
      BY <1>1, <2>3, <3>2, LockOnward DEF Execute, Pcs
    <3>. QED  BY <2>3, <3>1, <3>2 DEF Execute
  <2>4. CASE Check(p)
    BY <1>1, <2>4, LockOnward DEF Check, Pcs
  <2>5. CASE PostBody(p)
    BY <2>5, LockInsert DEF PostBody
  <2>6. CASE PostRaises(p)
    BY <1>1, <2>6, LockErrors DEF PostRaises
  <2>7. CASE PostRaisesLate(p)
    BY <2>7, LockInsert DEF PostRaisesLate, EndWithError
  <2>8. CASE FilesRaise(p)
    BY <1>1, <2>8, LockOnward DEF FilesRaise, Pcs
  <2>9. CASE Abort(p)
    BY <2>9, LockAbort
  <2>10. CASE DeleteRaises(p)
    BY <1>1, <2>10, LockErrors DEF DeleteRaises
  <2>11. CASE DeleteRow(p)
    BY <2>11, LockDeleteRow
  <2>12. CASE Srem(p) \/ Del(p) \/ Hdel(p)
    BY <1>1, <2>12, LockUnregister
  <2>13. CASE Unlock(p)
    BY <2>13, LockUnlock
  <2>. QED  BY <1>3, <2>1, <2>2, <2>3, <2>4, <2>5, <2>6, <2>7, <2>8, <2>9, <2>10, <2>11, <2>12, <2>13 DEF Handle
<1>4. ASSUME NEW n \in Names, ChainEnds(n) PROVE LInv'
  BY <1>4, LockChainEnds
<1>5. CASE Restart
  BY <1>5 DEF Restart, LInv, LockRecords, LockRecord, LockedOnce, ChainsHaveRows, Idle
<1>6. CASE UNCHANGED vars
  BY <1>6 DEF vars, LInv, LockRecords, LockRecord, LockedOnce, ChainsHaveRows
<1>. QED  BY <1>2, <1>3, <1>4, <1>5, <1>6 DEF Next

(* LayerLocked of UuidRegistry: while POST of a layer does its work, the   *)
(* lock is its own, whichever chain of a former layer ends and whichever   *)
(* DELETE comes, any number of processes posting and deleting; but of two  *)
(* that delete one publication at once, the slower one would release a     *)
(* lock it no longer has.                                                  *)
THEOREM LayersLocked == Spec /\ []DeletedOnce => []LayerLocked
<1>1. Init => LInv
  BY DEF Init, LInv, LockRecords, LockRecord, LockedOnce, ChainsHaveRows, Idle
<1>2. IInv /\ LInv /\ DeletedOnce' /\ [Next]_vars => LInv'
  BY NextLInv
<1>3. LInv => LayerLocked
  BY DEF LInv, LockRecords, LockRecord, LayerLocked
<1>4. DeletedOnce => RowDeletedOnce
  BY DEF DeletedOnce, RowDeletedOnce, DeletedBy
<1>. QED  BY InductiveInvariant, <1>1, <1>2, <1>3, <1>4, PTL DEF Spec

-----------------------------------------------------------------------------
(* The election of the process that adjusts the dependencies.              *)

Places == {"off", "wait_for_layman", "import", "watched", "not_done", "claim", "adjust", "wait",
           "upgrade", "up", "failed"}

(* Whoever has seen no key, and whose watched key nobody has written since, *)
(* still finds none: what WATCH is for.                                     *)
Unwritten == \A p \in Processes : pc[p] = "claim" /\ p \notin written => key = "none"

(* While a process adjusts the dependencies the key says so.               *)
KeyTells == \A p \in Processes : pc[p] = "adjust" => key = "processing"

(* One process at a time adjusts the dependencies.                         *)
AdjustsAlone == \A p, q \in Processes : pc[p] = "adjust" /\ pc[q] = "adjust" => p = q

Inv ==
    /\ pc \in [Processes -> Places] /\ written \subseteq Processes
    /\ Unwritten /\ KeyTells /\ AdjustsAlone

(* What Election sees of the processes.                                    *)
Adjusting == {p \in Processes : pc[p] = "adjust"}
Started   == {p \in Processes : pc[p] = "up"}

(* A step that leaves the key and moves one process to a place that is no  *)
(* claim, or was one, nor the adjustment.                                  *)
LEMMA Moves ==
    ASSUME Inv, NEW p \in Processes, NEW s \in Places, s \notin {"claim", "adjust"},
           pc' = [pc EXCEPT ![p] = s], key' = key, written' \in {written, written \ {p}}
    PROVE  Inv'
  BY DEF Inv, Unwritten, KeyTells, AdjustsAlone, Places

LEMMA InitInv == InitStart => Inv
<1> SUFFICES ASSUME InitStart PROVE Inv
  OBVIOUS
<1>1. written = {} /\ pc = [p \in Processes |-> "off"]
  BY DEF InitStart
<1> QED
  BY <1>1 DEF Inv, Unwritten, KeyTells, AdjustsAlone, Places

LEMMA StepInv == Inv /\ [NextStart]_startVars => Inv'
<1> SUFFICES ASSUME Inv, [NextStart]_startVars PROVE Inv'
  OBVIOUS
<1> USE DEF Inv, Unwritten, KeyTells, AdjustsAlone, Places
<1>1. CASE \E mode \in {"server", "upgrade"} : Launch(mode)
  BY <1>1 DEF Launch
<1>2. CASE ServiceAnswers
  <2>1. key' = key /\ written' = written
    BY <1>2 DEF ServiceAnswers
  <2>2. \/ pc' = pc
        \/ pc' \in [Processes -> Places] /\ \A p \in Processes : pc'[p] \notin {"claim", "adjust"}
    BY <1>2 DEF ServiceAnswers
  <2> QED
    BY <2>1, <2>2
<1>3. CASE ServiceSilent \/ ServiceRefuses
  BY <1>3 DEF ServiceSilent, ServiceRefuses
<1>4. ASSUME NEW c \in Celery, WaitForLayman(c) PROVE Inv'
  BY <1>4, Moves DEF WaitForLayman, Processes
<1>5. ASSUME NEW p \in Processes, Steps(p) PROVE Inv'
  <2>1. CASE WatchKey(p)
    BY <2>1, Moves DEF WatchKey
  <2>2. CASE FirstGet(p)
    BY <2>2, Moves DEF FirstGet
  <2>3. CASE SecondGet(p)
    BY <2>3 DEF SecondGet
  <2>4. CASE Claim(p)
    BY <2>4 DEF Claim
  <2>5. CASE Done(p)
    BY <2>5 DEF Done
  <2>6. CASE Wait(p)
    BY <2>6, Moves DEF Wait
  <2>7. CASE Does(p)
    BY <2>7 DEF Does
  <2>8. CASE Ends(p)
    BY <2>8, Moves DEF Ends
  <2> QED
    BY <1>5, <2>1, <2>2, <2>3, <2>4, <2>5, <2>6, <2>7, <2>8 DEF Steps
<1>6. ASSUME NEW p \in Processes, Raises(p) PROVE Inv'
  BY <1>6 DEF Raises
<1>7. ASSUME NEW p \in Processes, Kill(p) PROVE Inv'
  BY <1>7, Moves DEF Kill
<1>8. CASE UNCHANGED startVars
  BY <1>8 DEF startVars
<1> QED
  BY <1>1, <1>2, <1>3, <1>4, <1>5, <1>6, <1>7, <1>8 DEF NextStart

(* At any time at most one process adjusts the dependencies, and the key   *)
(* says so while it does.                                                  *)
THEOREM AdjustsOnce == SpecStart => []Inv
  BY InitInv, StepInv, PTL DEF SpecStart

-----------------------------------------------------------------------------
(* Start implements Election.                                              *)

LEMMA InitElects == InitStart => Elected!Init
<1> SUFFICES ASSUME InitStart PROVE Elected!Init
  OBVIOUS
<1>1. key = "none" /\ pc = [p \in Processes |-> "off"]
  BY DEF InitStart
<1> QED
  BY <1>1 DEF Elected!Init

(* A step that leaves the key, and stops some processes or none.           *)
LEMMA StopsOrLoses ==
    ASSUME Inv, key' = key, Adjusting' \in {Adjusting, {}}, Started' \subseteq Started
    PROVE  Elected!Next
<1>1. CASE Adjusting' = Adjusting
  BY <1>1 DEF Elected!Next, Elected!Stop, Adjusting, Started
<1>2. CASE Adjusting' = {} /\ Adjusting # {}
  <2>1. PICK p \in Processes : p \in Adjusting
    BY <1>2 DEF Adjusting
  <2>2. Adjusting = {p} /\ key = "processing"
    BY <2>1 DEF Inv, AdjustsAlone, KeyTells, Adjusting
  <2>3. Elected!Lose(p)
    BY <1>2, <2>2 DEF Elected!Lose, Adjusting, Started
  <2> QED
    BY <2>3 DEF Elected!Next
<1> QED
  BY <1>1, <1>2

(* A step of a process that neither adjusts nor serves, to a place where   *)
(* it does not either.                                                     *)
LEMMA MovesUnseen ==
    ASSUME Inv, NEW p \in Processes, NEW s \in Places, pc' = [pc EXCEPT ![p] = s], key' = key,
           pc[p] # "adjust", s \notin {"adjust", "up"}
    PROVE  Elected!Next
<1>1. Adjusting' = Adjusting /\ Started' \subseteq Started
  BY DEF Inv, Adjusting, Started
<1> QED
  BY <1>1, StopsOrLoses

(* A process that finds the key done serves.                               *)
LEMMA ServesIfDone ==
    ASSUME Inv, NEW p \in Processes, pc' = [pc EXCEPT ![p] = "up"], key' = key, key = "done"
    PROVE  Elected!Next
<1>1. Adjusting = {} /\ Adjusting' = {} /\ Started' = Started \cup {p}
  BY DEF Inv, KeyTells, Places, Adjusting, Started
<1>2. Elected!Serve(p)
  BY <1>1 DEF Elected!Serve, Adjusting, Started
<1> QED
  BY <1>2 DEF Elected!Next

LEMMA StepElects == Inv /\ [NextStart]_startVars => [Elected!Next]_Elected!vars
<1> SUFFICES ASSUME Inv, [NextStart]_startVars PROVE [Elected!Next]_Elected!vars
  OBVIOUS
<1> DEFINE Seen == Elected!Next \/ UNCHANGED Elected!vars
<1>1. ASSUME NEW mode, Launch(mode) PROVE Elected!Next
  <2>1. key' = "none" /\ pc' = [p \in Processes |-> "off"]
    BY <1>1 DEF Launch
  <2>2. Elected!Launch
    BY <2>1 DEF Elected!Launch
  <2> QED
    BY <2>2 DEF Elected!Next
<1>2. CASE ServiceAnswers
  <2>1. key' = key
    BY <1>2 DEF ServiceAnswers
  <2>2. \/ pc' = pc
        \/ pc' \in [Processes -> Places] /\ \A p \in Processes : pc'[p] \notin {"adjust", "up"}
    BY <1>2 DEF ServiceAnswers, Places
  <2>3. Adjusting' \in {Adjusting, {}} /\ Started' \subseteq Started
    BY <2>2 DEF Adjusting, Started
  <2> QED
    BY <2>1, <2>3, StopsOrLoses
<1>3. CASE ServiceSilent \/ ServiceRefuses
  BY <1>3 DEF ServiceSilent, ServiceRefuses, Elected!vars
<1>4. ASSUME NEW c \in Celery, WaitForLayman(c) PROVE Elected!Next
  BY <1>4, MovesUnseen DEF WaitForLayman, Processes, Places
<1>5. ASSUME NEW p \in Processes, Steps(p) PROVE Seen
  <2>1. CASE WatchKey(p)
    <3>1. pc' = [pc EXCEPT ![p] = "watched"] /\ key' = key /\ pc[p] # "adjust"
      BY <2>1 DEF WatchKey
    <3> QED
      BY <3>1, MovesUnseen DEF Places
  <2>2. CASE FirstGet(p)
    <3>1. CASE key = "done" /\ p # Upgrader
      BY <2>2, <3>1, ServesIfDone DEF FirstGet
    <3>2. CASE ~(key = "done" /\ p # Upgrader)
      <4>1. PICK s \in {"not_done", "upgrade"} : pc' = [pc EXCEPT ![p] = s]
        BY <2>2, <3>2 DEF FirstGet
      <4>2. key' = key /\ pc[p] # "adjust"
        BY <2>2 DEF FirstGet
      <4> QED
        BY <4>1, <4>2, MovesUnseen DEF Places
    <3> QED
      BY <3>1, <3>2
  <2>3. CASE SecondGet(p)
    <3>1. PICK s \in {"claim", "wait"} : pc' = [pc EXCEPT ![p] = s]
      BY <2>3 DEF SecondGet
    <3>2. key' = key /\ pc[p] # "adjust"
      BY <2>3 DEF SecondGet
    <3> QED
      BY <3>1, <3>2, MovesUnseen DEF Places
  <2>4. CASE Claim(p)
    <3>1. CASE p \notin written
      <4>1. key = "none" /\ Adjusting = {}
        BY <2>4, <3>1 DEF Claim, Inv, Unwritten, KeyTells, Adjusting
      <4>2. key' = "processing" /\ Adjusting' = {p} /\ Started' = Started
        BY <2>4, <3>1, <4>1 DEF Claim, Inv, Adjusting, Started
      <4>3. Elected!Elect(p)
        BY <4>1, <4>2 DEF Elected!Elect, Adjusting, Started
      <4> QED
        BY <4>3 DEF Elected!Next
    <3>2. CASE p \in written
      <4>1. pc' = [pc EXCEPT ![p] = "wait"] /\ key' = key /\ pc[p] # "adjust"
        BY <2>4, <3>2 DEF Claim
      <4> QED
        BY <4>1, MovesUnseen DEF Places
    <3> QED
      BY <3>1, <3>2
  <2>5. CASE Done(p)
    <3>1. Adjusting = {p} /\ key = "processing"
      BY <2>5 DEF Done, Inv, AdjustsAlone, KeyTells, Adjusting
    <3>2. key' = "done" /\ Adjusting' = {} /\ Started' \in {Started, Started \cup {p}}
      BY <2>5, <3>1 DEF Done, Inv, Adjusting, Started
    <3>3. Elected!Finish(p)
      BY <3>1, <3>2 DEF Elected!Finish, Adjusting, Started
    <3> QED
      BY <3>3 DEF Elected!Next
  <2>6. CASE Wait(p)
    <3>1. CASE p = Upgrader
      <4>1. pc' = [pc EXCEPT ![p] = "upgrade"] /\ key' = key /\ pc[p] # "adjust"
        BY <2>6, <3>1 DEF Wait
      <4> QED
        BY <4>1, MovesUnseen DEF Places
    <3>2. CASE p # Upgrader
      BY <2>6, <3>2, ServesIfDone DEF Wait
    <3> QED
      BY <3>1, <3>2
  <2>7. CASE Does(p)
    BY <2>7 DEF Does, Elected!vars
  <2>8. CASE Ends(p)
    <3>1. pc' = [pc EXCEPT ![p] = "off"] /\ key' = key /\ pc[p] # "adjust"
      BY <2>8 DEF Ends
    <3> QED
      BY <3>1, MovesUnseen DEF Places
  <2> QED
    BY <1>5, <2>1, <2>2, <2>3, <2>4, <2>5, <2>6, <2>7, <2>8 DEF Steps
<1>6. ASSUME NEW p \in Processes, Raises(p) PROVE Elected!Next
  <2>1. key' = key
    BY <1>6 DEF Raises
  <2>2. \A q \in Processes : pc'[q] \in {pc[q], "failed"}
    BY <1>6 DEF Raises
  <2>3. Adjusting' \in {Adjusting, {}} /\ Started' \subseteq Started
    BY <2>2 DEF Inv, AdjustsAlone, Adjusting, Started
  <2> QED
    BY <2>1, <2>3, StopsOrLoses
<1>7. ASSUME NEW p \in Processes, Kill(p) PROVE Elected!Next
  <2>1. key' = key /\ pc' = [pc EXCEPT ![p] = "import"]
    BY <1>7 DEF Kill
  <2>2. Adjusting' \in {Adjusting, {}} /\ Started' \subseteq Started
    BY <2>1 DEF Inv, AdjustsAlone, Adjusting, Started
  <2> QED
    BY <2>1, <2>2, StopsOrLoses
<1>8. CASE UNCHANGED startVars
  BY <1>8 DEF startVars, Elected!vars
<1> QED
  BY <1>1, <1>2, <1>3, <1>4, <1>5, <1>6, <1>7, <1>8 DEF NextStart

(* Start implements Election: one process after a launch adjusts the       *)
(* dependencies, and nobody serves before it has, whatever processes start *)
(* at the same time, raise, or are killed.                                 *)
THEOREM OneIsElected == SpecStart => ElectsOne
<1>1. SpecStart => []Inv
  BY AdjustsOnce
<1> QED
  BY <1>1, InitElects, StepElects, PTL DEF SpecStart, ElectsOne, Elected!Spec

-----------------------------------------------------------------------------
(* The installation: what calls find, and what is complete when Layman     *)
(* serves.                                                                 *)

None4 == <<-1, -1, -1, -1>>
V2  == <<2, 0, 0, 0>>
V3  == <<3, 0, 0, 0>>
V31 == <<3, 0, 0, 1>>

Objects == UNION {run_db_init[i].makes : i \in 1..Len(run_db_init)}

(* An installation that the check of the version refuses.                  *)
Refused(m, v) == "migration_type" \notin m \/ v["data"] \in {None4, <<1, 23, 0, 0>>}

Complete(m, v) ==
    /\ MadeBefore(Len(run_db_init) + 1) \subseteq m
    /\ v["schema"] \in {V2, V3} /\ v["data"] \in {V2, V3, V31}
    /\ v["data"] # V2 => "map_urls" \in m
    /\ v["data"] = V31 => "layer_urls" \in m

Migrated(v) == v["schema"] = V3 /\ v["data"] = V31

(* What an interrupted launch leaves: nothing of the schema, one that is   *)
(* refused, or a complete one.                                             *)
Installed(m, v) ==
    /\ "role_service_schema" \in m
    /\ "schema" \notin m => m \cap Objects = {}
    /\ "schema" \in m => Refused(m, v) \/ Complete(m, v)

(* The first k - 1 calls of the initialisation are done.                   *)
InitAt(k, m, v) ==
    /\ "role_service_schema" \in m /\ m \cap Objects = MadeBefore(k)
    /\ k > 6 => v["data"] = None4
    /\ k > 32 => v["schema"] = V2

(* What is called after the upgrade, and the number of calls done.         *)
Loads ==
    <<import_uuids_to_redis, import_authn_to_redis, ensure_output_srs_for_all,
      ensure_srid_definitions, set_after_restart, validate_role_service>>

LoadsFrom(k) == SubSeq(Loads, k, Len(Loads))

LoadedBy(k, l) ==
    /\ k > 1 => "uuids" \in l
    /\ k > 2 => "authn" \in l
    /\ k > 5 => "statuses" \in l
    /\ k > 6 => "roles" \in l

(* The steps of the upgrade, each with all that comes after it.            *)
Migrate(type) == [kind |-> "run_migrations", type |-> type]
Final(type)   == [kind |-> "final_version", type |-> type]
Sets(type, v) == set_current_migration_version(type, v)

AfterUpgrade(p) == IF p = Upgrader THEN <<>> ELSE Loads
FromFinalData(p)   == <<Final("data")>> \o AfterUpgrade(p)
FromSetLayer(p)    == <<Sets("data", V31)>> \o FromFinalData(p)
FromLayer(p)       == <<migrate_metadata_urls("layer_urls")>> \o FromSetLayer(p)
FromSetMap(p)      == <<Sets("data", V3)>> \o FromLayer(p)
FromMap(p)         == <<migrate_metadata_urls("map_urls")>> \o FromSetMap(p)
FromData(p)        == <<Migrate("data")>> \o AfterUpgrade(p)
FromFinalSchema(p) == <<Final("schema")>> \o FromData(p)
FromSetSchema(p)   == <<Sets("schema", V3)>> \o FromFinalSchema(p)
FromNothing(p)     == <<Call({}, {}, {}, {})>> \o FromSetSchema(p)
FromSchema(p)      == <<Migrate("schema")>> \o FromData(p)
FromCheck(p)       == <<[kind |-> "check_version_upgradeability"]>> \o FromSchema(p)
FromNew(p)         == <<[kind |-> "is_new_installation"]>> \o FromCheck(p)

FromInit(k, p) == SubSeq(run_db_init, k, Len(run_db_init)) \o FromCheck(p)

Server == {"gs_user", "proxy_base_url", "srs_lists"}

(* What is there when the steps t of p are all that is left.               *)
Upgrading(p, t, m, v) ==
    /\ "gs_user" \in m /\ (p # Upgrader => Server \subseteq m)
    /\ \/ t = FromNew(p)
       \/ \E k \in 1..Len(run_db_init) : t = FromInit(k, p) /\ InitAt(k, m, v)
       \/ t = FromCheck(p) /\ "schema" \in m
       \/ Complete(m, v) /\ t \in {FromSchema(p), FromNothing(p), FromSetSchema(p)}
       \/ Complete(m, v) /\ v["schema"] = V3 /\ t \in {FromFinalSchema(p), FromData(p)}
       \/ Complete(m, v) /\ v["schema"] = V3 /\ v["data"] = V2 /\ t = FromMap(p)
       \/ /\ Complete(m, v) /\ v["schema"] = V3 /\ v["data"] = V2 /\ "map_urls" \in m
          /\ t = FromSetMap(p)
       \/ Complete(m, v) /\ v["schema"] = V3 /\ v["data"] = V3 /\ t = FromLayer(p)
       \/ /\ Complete(m, v) /\ v["schema"] = V3 /\ v["data"] = V3 /\ "layer_urls" \in m
          /\ t = FromSetLayer(p)
       \/ Complete(m, v) /\ Migrated(v) /\ t = FromFinalData(p)

Loading(t, m, v, l) ==
    /\ Server \subseteq m /\ Complete(m, v) /\ Migrated(v)
    /\ \E k \in 1..(Len(Loads) + 1) : t = LoadsFrom(k) /\ LoadedBy(k, l)

Preparing(p, t, m) ==
    IF p = Upgrader
    THEN \/ t = <<ensure_user, ensure_proxy_base_url>>
         \/ t \in {<<ensure_proxy_base_url>>, <<>>} /\ "gs_user" \in m
    ELSE \/ t = <<ensure_user>> \o (<<ensure_proxy_base_url>> \o (<<ensure_srs_lists>> \o FromNew(p)))
         \/ t = <<ensure_proxy_base_url>> \o (<<ensure_srs_lists>> \o FromNew(p)) /\ "gs_user" \in m
         \/ t = <<ensure_srs_lists>> \o FromNew(p) /\ {"gs_user", "proxy_base_url"} \subseteq m

Doing(p, at, t, m, v, l) ==
    \/ at = "adjust" /\ Preparing(p, t, m)
    \/ at = (IF p = Upgrader THEN "upgrade" ELSE "adjust") /\ Upgrading(p, t, m, v)
    \/ at = "adjust" /\ p # Upgrader /\ Loading(t, m, v, l)
    \/ at = "upgrade" /\ p = Upgrader /\ t = <<>>

Served(m, v, l) ==
    /\ Server \subseteq m /\ Complete(m, v) /\ Migrated(v)
    /\ {"uuids", "authn", "statuses", "roles"} \subseteq l

(* The server and the standalone upgrade are not launched together.        *)
OneMode ==
    /\ deps.mode # "none" => key = "none" /\ \A p \in Processes : pc[p] = "off"
    /\ pc[Upgrader] # "off" => \A p \in Flask \cup Celery : pc[p] = "off"
    /\ \A p \in Flask \cup Celery : pc[p] # "upgrade"
    /\ pc[Upgrader] # "up"

KeyDone ==
    /\ \A p \in Processes : pc[p] = "up" => key = "done"
    /\ key = "done" => /\ "gs_user" \in made
                       /\ (\E p \in Flask \cup Celery : pc[p] # "off") => Served(made, version, loaded)

Callers == \A p \in Processes : pc[p] \in {"adjust", "upgrade"} => Doing(p, pc[p], todo[p], made, version, loaded)

StartInv == DOMAIN todo = Processes /\ OneMode /\ KeyDone /\ Callers /\ Installed(made, version)

(* A call of the initialisation: what it needs, what must not be there,    *)
(* what it makes and what it drops.                                        *)
Is(c, needs, forbids, makes, drops) ==
    c.kind = "call" /\ c.needs = needs /\ c.forbids = forbids /\ c.makes = makes /\ c.drops = drops

(* The calls of the initialisation, one after another.                     *)
LEMMA InitTable ==
    /\ Len(run_db_init) = 33
    /\ Is(run_db_init[1], {}, {"schema"}, PrimeSchema, {})
    /\ Is(run_db_init[2], {"right_types", "publication_types"}, {}, {"codelists"}, {})
    /\ Is(run_db_init[3], {"schema"}, {"data_version"}, {"data_version"}, {})
    /\ Is(run_db_init[4], {"publications"}, {}, {"style_type"}, {})
    /\ Is(run_db_init[5], {"style_type"}, {}, {"con_style_type"}, {})
    /\ Is(run_db_init[6], {"data_version"}, {}, {"migration_type"}, {})
    /\ Is(run_db_init[7], {"publications"}, {}, {"title_tsv_idx"}, {})
    /\ Is(run_db_init[8], {"publications"}, {}, {"updated_at"}, {})
    /\ Is(run_db_init[9], {"publications"}, {}, {"bbox"}, {})
    /\ Is(run_db_init[10], {"publications"}, {}, {"srid"}, {})
    /\ Is(run_db_init[11], {"publications"}, {}, {"file_type"}, {})
    /\ Is(run_db_init[12], {"publications", "file_type"}, {"image_mosaic_check"},
           {"image_mosaic", "image_mosaic_check"}, {})
    /\ Is(run_db_init[13], {"publications", "file_type"}, {"table_uri_check"},
           {"external_table_uri", "table_uri_check"}, {})
    /\ Is(run_db_init[14], {"file_type"}, {"geodata_type"}, {"geodata_type"}, {"file_type"})
    /\ Is(run_db_init[15], {"publications"}, {"wfs_wms_status_check"},
           {"wfs_wms_status", "wfs_wms_status_check"}, {})
    /\ Is(run_db_init[16], {"publications"}, {"map_layer"}, {"map_layer", "map_layer.layer_name"}, {})
    /\ Is(run_db_init[17], {"rights"}, {"role_xor_user"}, {"role_name", "role_xor_user"}, {})
    /\ Is(run_db_init[18], {"workspaces.name"}, RoleViews, {"short_names"}, {})
    /\ Is(run_db_init[19], {"role_service_schema", "workspaces.name", "users"}, RoleViews, RoleViews, {})
    /\ Is(run_db_init[20], {"right_types", "rights_type_fkey"}, {"rights_type"},
           {"rights_type"}, {"rights_type_fkey", "right_types"})
    /\ Is(run_db_init[21], {"bbox", "srid"}, {"bbox_with_crs"}, {"bbox_with_crs"}, {})
    /\ Is(run_db_init[22], {"geodata_type"}, {"geodata_type_check"}, {"geodata_type_check"}, {})
    /\ Is(run_db_init[23], {"users_issuer_sub_key"}, {"users_sub_key"},
           {"users_sub_key"}, {"users_issuer_sub_key"})
    /\ Is(run_db_init[24], {"users_sub_key"}, {"users_issuer_sub_key"},
           {"users_issuer_sub_key"}, {"users_sub_key"})
    /\ Is(run_db_init[25], {"publications"}, {}, {"description"}, {})
    /\ Is(run_db_init[26], {"map_layer", "map_layer.layer_name"}, {}, {"map_layer.layer_uuid"}, {})
    /\ Is(run_db_init[27], {"publications"}, {}, {"created_at"}, {})
    /\ Is(run_db_init[28], {"gs_user"}, {"layman_workspace", "layman_wms_workspace"},
           {"layman_workspace", "layman_wms_workspace", "postgresql_stores"}, {})
    /\ Is(run_db_init[29], {}, {}, {"layers_schema"}, {})
    /\ Is(run_db_init[30], {"created_at"}, {}, {"created_at_not_null"}, {})
    /\ Is(run_db_init[31], {"map_layer.layer_name", "map_layer.layer_uuid"}, {}, {}, {"map_layer.layer_name"})
    /\ Is(run_db_init[32], {"migration_type"}, {}, {}, {})
    /\ Is(run_db_init[33], {"migration_type"}, {}, {}, {})
<1> USE DEF run_db_init, Is, Call
<1>1. Is(run_db_init[1], {}, {"schema"}, PrimeSchema, {})
  BY DEF create_schema
<1>2. Is(run_db_init[2], {"right_types", "publication_types"}, {}, {"codelists"}, {})
  BY DEF setup_codelists_data
<1>3. Is(run_db_init[3], {"schema"}, {"data_version"}, {"data_version"}, {})
  BY DEF initialize_data_versioning
<1>4. Is(run_db_init[4], {"publications"}, {}, {"style_type"}, {})
  BY DEF alter_schema
<1>5. Is(run_db_init[5], {"style_type"}, {}, {"con_style_type"}, {})
  BY DEF update_style_type_in_db
<1>6. Is(run_db_init[6], {"data_version"}, {}, {"migration_type"}, {})
  BY DEF adjust_db_for_schema_migrations
<1>7. Is(run_db_init[7], {"publications"}, {}, {"title_tsv_idx"}, {})
  BY DEF adjust_prime_db_schema_for_fulltext_search
<1>8. Is(run_db_init[8], {"publications"}, {}, {"updated_at"}, {})
  BY DEF adjust_prime_db_schema_for_last_change_search
<1>9. Is(run_db_init[9], {"publications"}, {}, {"bbox"}, {})
  BY DEF adjust_prime_db_schema_for_bbox_search
<1>10. Is(run_db_init[10], {"publications"}, {}, {"srid"}, {})
  BY DEF adjust_db_for_srid
<1>11. Is(run_db_init[11], {"publications"}, {}, {"file_type"}, {})
  BY DEF adjust_db_for_file_type
<1>12. Is(run_db_init[12], {"publications", "file_type"}, {"image_mosaic_check"},
           {"image_mosaic", "image_mosaic_check"}, {})
  BY DEF adjust_db_for_image_mosaic
<1>13. Is(run_db_init[13], {"publications", "file_type"}, {"table_uri_check"},
           {"external_table_uri", "table_uri_check"}, {})
  BY DEF adjust_db_for_table_uri
<1>14. Is(run_db_init[14], {"file_type"}, {"geodata_type"}, {"geodata_type"}, {"file_type"})
  BY DEF rename_file_type_to_geodata_type
<1>15. Is(run_db_init[15], {"publications"}, {"wfs_wms_status_check"},
           {"wfs_wms_status", "wfs_wms_status_check"}, {})
  BY DEF adjust_db_for_wfs_wms_status
<1>16. Is(run_db_init[16], {"publications"}, {"map_layer"}, {"map_layer", "map_layer.layer_name"}, {})
  BY DEF create_map_layer_relation_table
<1>17. Is(run_db_init[17], {"rights"}, {"role_xor_user"}, {"role_name", "role_xor_user"}, {})
  BY DEF adjust_db_for_roles
<1>18. Is(run_db_init[18], {"workspaces.name"}, RoleViews, {"short_names"}, {})
  BY DEF restrict_workspace_name_length
<1>19. Is(run_db_init[19], {"role_service_schema", "workspaces.name", "users"}, RoleViews, RoleViews, {})
  BY DEF create_role_service_schema
<1>20. Is(run_db_init[20], {"right_types", "rights_type_fkey"}, {"rights_type"},
           {"rights_type"}, {"rights_type_fkey", "right_types"})
  BY DEF remove_right_types_table
<1>21. Is(run_db_init[21], {"bbox", "srid"}, {"bbox_with_crs"}, {"bbox_with_crs"}, {})
  BY DEF adjust_db_publication_srid_constraint
<1>22. Is(run_db_init[22], {"geodata_type"}, {"geodata_type_check"}, {"geodata_type_check"}, {})
  BY DEF adjust_db_publication_file_type_constraint
<1>23. Is(run_db_init[23], {"users_issuer_sub_key"}, {"users_sub_key"},
           {"users_sub_key"}, {"users_issuer_sub_key"})
  BY DEF ensure_sub_uniqueness
<1>24. Is(run_db_init[24], {"users_sub_key"}, {"users_issuer_sub_key"},
           {"users_issuer_sub_key"}, {"users_sub_key"})
  BY DEF ensure_issuer_sub_uniqueness
<1>25. Is(run_db_init[25], {"publications"}, {}, {"description"}, {})
  BY DEF adjust_db_for_description
<1>26. Is(run_db_init[26], {"map_layer", "map_layer.layer_name"}, {}, {"map_layer.layer_uuid"}, {})
  BY DEF adjust_db_for_map_layer_relation
<1>27. Is(run_db_init[27], {"publications"}, {}, {"created_at"}, {})
  BY DEF adjust_db_for_created_at
<1>28. Is(run_db_init[28], {"gs_user"}, {"layman_workspace", "layman_wms_workspace"},
           {"layman_workspace", "layman_wms_workspace", "postgresql_stores"}, {})
  BY DEF ensure_gs_workspaces_and_stores
<1>29. Is(run_db_init[29], {}, {}, {"layers_schema"}, {})
  BY DEF ensure_layers_db_schema
<1>30. Is(run_db_init[30], {"created_at"}, {}, {"created_at_not_null"}, {})
  BY DEF adjust_publications_created_at
<1>31. Is(run_db_init[31], {"map_layer.layer_name", "map_layer.layer_uuid"}, {}, {}, {"map_layer.layer_name"})
  BY DEF adjust_map_layer_data
<1>32. Is(run_db_init[32], {"migration_type"}, {}, {}, {})
  BY DEF set_current_migration_version
<1>33. Is(run_db_init[33], {"migration_type"}, {}, {}, {})
  BY DEF set_current_migration_version
<1>34. Len(run_db_init) = 33
  OBVIOUS
<1> HIDE DEF run_db_init, Is, Call
<1> QED
  BY <1>1, <1>2, <1>3, <1>4, <1>5, <1>6, <1>7, <1>8, <1>9, <1>10, <1>11, <1>12, <1>13,
      <1>14, <1>15, <1>16, <1>17, <1>18, <1>19, <1>20, <1>21, <1>22, <1>23, <1>24, <1>25, <1>26,
      <1>27, <1>28, <1>29, <1>30, <1>31, <1>32, <1>33, <1>34

(* What is there before the k-th call was made and not dropped since.      *)
LEMMA MadeIff ==
    ASSUME NEW k \in 1..34, NEW o
    PROVE  o \in MadeBefore(k) <=>
               \E i \in 1..(k - 1) : /\ o \in run_db_init[i].makes
                                     /\ \A j \in (i + 1)..(k - 1) : o \notin run_db_init[j].drops
  BY DEF MadeBefore

(* A call adds what it makes, and takes away what it drops.                *)
LEMMA MadeNext ==
    ASSUME NEW k \in 1..33
    PROVE  MadeBefore(k + 1) = (MadeBefore(k) \ run_db_init[k].drops) \cup run_db_init[k].makes
<1>1. k \in 1..34 /\ k + 1 \in 1..34 /\ k \in Int
  OBVIOUS
<1>2. ASSUME NEW o PROVE o \in MadeBefore(k + 1) <=> o \in (MadeBefore(k) \ run_db_init[k].drops) \cup run_db_init[k].makes
  <2>1. ASSUME o \in MadeBefore(k + 1) PROVE o \in (MadeBefore(k) \ run_db_init[k].drops) \cup run_db_init[k].makes
    <3>0. (k + 1) - 1 = k
      BY <1>1
    <3>1. PICK i \in 1..k : /\ o \in run_db_init[i].makes
                            /\ \A j \in (i + 1)..k : o \notin run_db_init[j].drops
      BY <1>1, <2>1, <3>0, MadeIff
    <3>2. CASE i = k
      BY <3>1, <3>2
    <3>3. CASE i # k
      <4>1. i \in 1..(k - 1) /\ k \in (i + 1)..k /\ \A j \in (i + 1)..(k - 1) : j \in (i + 1)..k
        BY <1>1, <3>3
      <4> QED
        BY <1>1, <3>1, <4>1, MadeIff
    <3> QED
      BY <3>2, <3>3
  <2>2. ASSUME o \in run_db_init[k].makes PROVE o \in MadeBefore(k + 1)
    <3>1. k \in 1..((k + 1) - 1) /\ (k + 1)..((k + 1) - 1) = {}
      BY <1>1
    <3> QED
      BY <1>1, <2>2, <3>1, MadeIff
  <2>3. ASSUME o \in MadeBefore(k), o \notin run_db_init[k].drops PROVE o \in MadeBefore(k + 1)
    <3>1. PICK i \in 1..(k - 1) : /\ o \in run_db_init[i].makes
                                  /\ \A j \in (i + 1)..(k - 1) : o \notin run_db_init[j].drops
      BY <1>1, <2>3, MadeIff
    <3>2. i \in 1..((k + 1) - 1) /\ \A j \in (i + 1)..((k + 1) - 1) : j = k \/ j \in (i + 1)..(k - 1)
      BY <1>1
    <3> QED
      BY <1>1, <2>3, <3>1, <3>2, MadeIff
  <2> QED
    BY <2>1, <2>2, <2>3
<1> QED
  BY <1>2

LEMMA MadeFirst == MadeBefore(1) = {}
<1>1. 1..(1 - 1) = {}
  OBVIOUS
<1> QED
  BY <1>1 DEF MadeBefore

(* Objects that calls need, from when and until when they are there.       *)
LEMMA Kept ==
    ASSUME NEW i \in 1..33, NEW k \in 1..34, i < k, NEW o \in run_db_init[i].makes,
           \A j \in 1..33 : o \in run_db_init[j].drops => j <= i \/ k <= j
    PROVE  o \in MadeBefore(k)
<1>1. i \in 1..(k - 1) /\ \A j \in (i + 1)..(k - 1) : j \in 1..33 /\ ~(j <= i \/ k <= j)
  OBVIOUS
<1> QED
  BY <1>1, MadeIff

LEMMA DropsAre ==
    ASSUME NEW j \in 1..33, NEW o \in run_db_init[j].drops
    PROVE  \/ j = 14 /\ o = "file_type"
           \/ j = 20 /\ o \in {"rights_type_fkey", "right_types"}
           \/ j = 23 /\ o = "users_issuer_sub_key"
           \/ j = 24 /\ o = "users_sub_key"
           \/ j = 31 /\ o = "map_layer.layer_name"
<1> USE InitTable DEF Is
<1>1. \A i \in {1, 2, 3, 4, 5, 6, 7, 8, 9, 10, 11, 12, 13} : run_db_init[i].drops = {}
  OBVIOUS
<1>2. \A i \in {15, 16, 17, 18, 19, 21, 22} : run_db_init[i].drops = {}
  OBVIOUS
<1>3. \A i \in {25, 26, 27, 28, 29, 30, 32, 33} : run_db_init[i].drops = {}
  OBVIOUS
<1>4. /\ run_db_init[14].drops = {"file_type"}
      /\ run_db_init[20].drops = {"rights_type_fkey", "right_types"}
      /\ run_db_init[23].drops = {"users_issuer_sub_key"}
      /\ run_db_init[24].drops = {"users_sub_key"}
      /\ run_db_init[31].drops = {"map_layer.layer_name"}
  OBVIOUS
<1>5. \/ j \in {1, 2, 3, 4, 5, 6, 7, 8, 9, 10, 11, 12, 13} \/ j \in {15, 16, 17, 18, 19, 21, 22}
      \/ j \in {25, 26, 27, 28, 29, 30, 32, 33} \/ j \in {14, 20, 23, 24, 31}
  OBVIOUS
<1> HIDE InitTable DEF Is
<1> QED
  BY <1>1, <1>2, <1>3, <1>4, <1>5

(* The objects that calls need, and from when until when they are there.   *)
LEMMA Stays ==
    /\ \A k \in 2..34, o \in PrimeSchema \ {"right_types", "rights_type_fkey", "users_issuer_sub_key"} :
           o \in MadeBefore(k)
    /\ \A k \in 2..20, o \in {"right_types", "rights_type_fkey"} : o \in MadeBefore(k)
    /\ \A k \in 2..23 : "users_issuer_sub_key" \in MadeBefore(k)
    /\ \A k \in 4..34 : "data_version" \in MadeBefore(k)
    /\ \A k \in 5..34 : "style_type" \in MadeBefore(k)
    /\ \A k \in 7..34 : "migration_type" \in MadeBefore(k)
    /\ \A k \in 10..34 : "bbox" \in MadeBefore(k)
    /\ \A k \in 11..34 : "srid" \in MadeBefore(k)
    /\ \A k \in 12..14 : "file_type" \in MadeBefore(k)
    /\ \A k \in 15..34 : "geodata_type" \in MadeBefore(k)
    /\ \A k \in 16..34 : "wfs_wms_status" \in MadeBefore(k)
    /\ \A k \in 17..34 : "map_layer" \in MadeBefore(k)
    /\ \A k \in 17..31 : "map_layer.layer_name" \in MadeBefore(k)
    /\ \A k \in 20..34 : "layman_users_roles" \in MadeBefore(k)
    /\ \A k \in 24..24 : "users_sub_key" \in MadeBefore(k)
    /\ \A k \in 27..34 : "map_layer.layer_uuid" \in MadeBefore(k)
    /\ \A k \in 28..34 : "created_at" \in MadeBefore(k)
<1>1. ASSUME NEW k \in 2..34, NEW o \in PrimeSchema \ {"right_types", "rights_type_fkey", "users_issuer_sub_key"}
      PROVE  o \in MadeBefore(k)
  <2>1. o \in run_db_init[1].makes /\ o \notin {"file_type", "users_sub_key", "map_layer.layer_name"}
    BY InitTable DEF Is, PrimeSchema
  <2>2. \A j \in 1..33 : o \notin run_db_init[j].drops
    BY <2>1, DropsAre
  <2>3. 1 \in 1..33 /\ k \in 1..34 /\ 1 < k /\ \A j \in 1..33 : 34 <= j => k <= j
    OBVIOUS
  <2> QED
    BY <2>1, <2>2, <2>3, Kept
<1>2. ASSUME NEW k \in 2..20, NEW o \in {"right_types", "rights_type_fkey"} PROVE o \in MadeBefore(k)
  <2>1. o \in run_db_init[1].makes
    BY InitTable DEF Is, PrimeSchema
  <2>2. \A j \in 1..33 : o \in run_db_init[j].drops => 20 <= j
    BY DropsAre
  <2>3. 1 \in 1..33 /\ k \in 1..34 /\ 1 < k /\ \A j \in 1..33 : 20 <= j => k <= j
    OBVIOUS
  <2> QED
    BY <2>1, <2>2, <2>3, Kept
<1>3. ASSUME NEW k \in 2..23 PROVE "users_issuer_sub_key" \in MadeBefore(k)
  <2>1. "users_issuer_sub_key" \in run_db_init[1].makes
    BY InitTable DEF Is, PrimeSchema
  <2>2. \A j \in 1..33 : "users_issuer_sub_key" \in run_db_init[j].drops => 23 <= j
    BY DropsAre
  <2>3. 1 \in 1..33 /\ k \in 1..34 /\ 1 < k /\ \A j \in 1..33 : 23 <= j => k <= j
    OBVIOUS
  <2> QED
    BY <2>1, <2>2, <2>3, Kept
<1>4. ASSUME NEW k \in 4..34 PROVE "data_version" \in MadeBefore(k)
  <2>1. "data_version" \in run_db_init[3].makes
    BY InitTable DEF Is
  <2>2. \A j \in 1..33 : "data_version" \in run_db_init[j].drops => 34 <= j
    BY DropsAre
  <2>3. 3 \in 1..33 /\ k \in 1..34 /\ 3 < k /\ \A j \in 1..33 : 34 <= j => k <= j
    OBVIOUS
  <2> QED
    BY <2>1, <2>2, <2>3, Kept
<1>5. ASSUME NEW k \in 5..34 PROVE "style_type" \in MadeBefore(k)
  <2>1. "style_type" \in run_db_init[4].makes
    BY InitTable DEF Is
  <2>2. \A j \in 1..33 : "style_type" \in run_db_init[j].drops => 34 <= j
    BY DropsAre
  <2>3. 4 \in 1..33 /\ k \in 1..34 /\ 4 < k /\ \A j \in 1..33 : 34 <= j => k <= j
    OBVIOUS
  <2> QED
    BY <2>1, <2>2, <2>3, Kept
<1>6. ASSUME NEW k \in 7..34 PROVE "migration_type" \in MadeBefore(k)
  <2>1. "migration_type" \in run_db_init[6].makes
    BY InitTable DEF Is
  <2>2. \A j \in 1..33 : "migration_type" \in run_db_init[j].drops => 34 <= j
    BY DropsAre
  <2>3. 6 \in 1..33 /\ k \in 1..34 /\ 6 < k /\ \A j \in 1..33 : 34 <= j => k <= j
    OBVIOUS
  <2> QED
    BY <2>1, <2>2, <2>3, Kept
<1>7. ASSUME NEW k \in 10..34 PROVE "bbox" \in MadeBefore(k)
  <2>1. "bbox" \in run_db_init[9].makes
    BY InitTable DEF Is
  <2>2. \A j \in 1..33 : "bbox" \in run_db_init[j].drops => 34 <= j
    BY DropsAre
  <2>3. 9 \in 1..33 /\ k \in 1..34 /\ 9 < k /\ \A j \in 1..33 : 34 <= j => k <= j
    OBVIOUS
  <2> QED
    BY <2>1, <2>2, <2>3, Kept
<1>8. ASSUME NEW k \in 11..34 PROVE "srid" \in MadeBefore(k)
  <2>1. "srid" \in run_db_init[10].makes
    BY InitTable DEF Is
  <2>2. \A j \in 1..33 : "srid" \in run_db_init[j].drops => 34 <= j
    BY DropsAre
  <2>3. 10 \in 1..33 /\ k \in 1..34 /\ 10 < k /\ \A j \in 1..33 : 34 <= j => k <= j
    OBVIOUS
  <2> QED
    BY <2>1, <2>2, <2>3, Kept
<1>9. ASSUME NEW k \in 12..14 PROVE "file_type" \in MadeBefore(k)
  <2>1. "file_type" \in run_db_init[11].makes
    BY InitTable DEF Is
  <2>2. \A j \in 1..33 : "file_type" \in run_db_init[j].drops => 14 <= j
    BY DropsAre
  <2>3. 11 \in 1..33 /\ k \in 1..34 /\ 11 < k /\ \A j \in 1..33 : 14 <= j => k <= j
    OBVIOUS
  <2> QED
    BY <2>1, <2>2, <2>3, Kept
<1>10. ASSUME NEW k \in 15..34 PROVE "geodata_type" \in MadeBefore(k)
  <2>1. "geodata_type" \in run_db_init[14].makes
    BY InitTable DEF Is
  <2>2. \A j \in 1..33 : "geodata_type" \in run_db_init[j].drops => 34 <= j
    BY DropsAre
  <2>3. 14 \in 1..33 /\ k \in 1..34 /\ 14 < k /\ \A j \in 1..33 : 34 <= j => k <= j
    OBVIOUS
  <2> QED
    BY <2>1, <2>2, <2>3, Kept
<1>11. ASSUME NEW k \in 16..34 PROVE "wfs_wms_status" \in MadeBefore(k)
  <2>1. "wfs_wms_status" \in run_db_init[15].makes
    BY InitTable DEF Is
  <2>2. \A j \in 1..33 : "wfs_wms_status" \in run_db_init[j].drops => 34 <= j
    BY DropsAre
  <2>3. 15 \in 1..33 /\ k \in 1..34 /\ 15 < k /\ \A j \in 1..33 : 34 <= j => k <= j
    OBVIOUS
  <2> QED
    BY <2>1, <2>2, <2>3, Kept
<1>12. ASSUME NEW k \in 17..34 PROVE "map_layer" \in MadeBefore(k)
  <2>1. "map_layer" \in run_db_init[16].makes
    BY InitTable DEF Is
  <2>2. \A j \in 1..33 : "map_layer" \in run_db_init[j].drops => 34 <= j
    BY DropsAre
  <2>3. 16 \in 1..33 /\ k \in 1..34 /\ 16 < k /\ \A j \in 1..33 : 34 <= j => k <= j
    OBVIOUS
  <2> QED
    BY <2>1, <2>2, <2>3, Kept
<1>13. ASSUME NEW k \in 17..31 PROVE "map_layer.layer_name" \in MadeBefore(k)
  <2>1. "map_layer.layer_name" \in run_db_init[16].makes
    BY InitTable DEF Is
  <2>2. \A j \in 1..33 : "map_layer.layer_name" \in run_db_init[j].drops => 31 <= j
    BY DropsAre
  <2>3. 16 \in 1..33 /\ k \in 1..34 /\ 16 < k /\ \A j \in 1..33 : 31 <= j => k <= j
    OBVIOUS
  <2> QED
    BY <2>1, <2>2, <2>3, Kept
<1>14. ASSUME NEW k \in 20..34 PROVE "layman_users_roles" \in MadeBefore(k)
  <2>1. "layman_users_roles" \in run_db_init[19].makes
    BY InitTable DEF Is, RoleViews
  <2>2. \A j \in 1..33 : "layman_users_roles" \in run_db_init[j].drops => 34 <= j
    BY DropsAre
  <2>3. 19 \in 1..33 /\ k \in 1..34 /\ 19 < k /\ \A j \in 1..33 : 34 <= j => k <= j
    OBVIOUS
  <2> QED
    BY <2>1, <2>2, <2>3, Kept
<1>15. ASSUME NEW k \in 24..24 PROVE "users_sub_key" \in MadeBefore(k)
  <2>1. "users_sub_key" \in run_db_init[23].makes
    BY InitTable DEF Is
  <2>2. \A j \in 1..33 : "users_sub_key" \in run_db_init[j].drops => 24 <= j
    BY DropsAre
  <2>3. 23 \in 1..33 /\ k \in 1..34 /\ 23 < k /\ \A j \in 1..33 : 24 <= j => k <= j
    OBVIOUS
  <2> QED
    BY <2>1, <2>2, <2>3, Kept
<1>16. ASSUME NEW k \in 27..34 PROVE "map_layer.layer_uuid" \in MadeBefore(k)
  <2>1. "map_layer.layer_uuid" \in run_db_init[26].makes
    BY InitTable DEF Is
  <2>2. \A j \in 1..33 : "map_layer.layer_uuid" \in run_db_init[j].drops => 34 <= j
    BY DropsAre
  <2>3. 26 \in 1..33 /\ k \in 1..34 /\ 26 < k /\ \A j \in 1..33 : 34 <= j => k <= j
    OBVIOUS
  <2> QED
    BY <2>1, <2>2, <2>3, Kept
<1>17. ASSUME NEW k \in 28..34 PROVE "created_at" \in MadeBefore(k)
  <2>1. "created_at" \in run_db_init[27].makes
    BY InitTable DEF Is
  <2>2. \A j \in 1..33 : "created_at" \in run_db_init[j].drops => 34 <= j
    BY DropsAre
  <2>3. 27 \in 1..33 /\ k \in 1..34 /\ 27 < k /\ \A j \in 1..33 : 34 <= j => k <= j
    OBVIOUS
  <2> QED
    BY <2>1, <2>2, <2>3, Kept
<1> QED
  BY <1>1, <1>2, <1>3, <1>4, <1>5, <1>6, <1>7, <1>8, <1>9, <1>10, <1>11, <1>12, <1>13, <1>14, <1>15, <1>16, <1>17

(* What must not be there before a call, no call before it makes.          *)
LEMMA MadeOnce ==
    ASSUME NEW i \in 1..33, NEW o \in run_db_init[i].makes
    PROVE  /\ o = "users_issuer_sub_key" => i \in {1, 24}
           /\ o \in {"data_version"} => i = 3
           /\ o \in {"image_mosaic_check"} => i = 12
           /\ o \in {"table_uri_check"} => i = 13
           /\ o \in {"geodata_type"} => i = 14
           /\ o \in {"wfs_wms_status_check"} => i = 15
           /\ o \in {"map_layer"} => i = 16
           /\ o \in {"role_xor_user"} => i = 17
           /\ o \in RoleViews => i = 19
           /\ o \in {"rights_type"} => i = 20
           /\ o \in {"bbox_with_crs"} => i = 21
           /\ o \in {"geodata_type_check"} => i = 22
           /\ o \in {"users_sub_key"} => i = 23
           /\ o \in {"layman_workspace", "layman_wms_workspace"} => i = 28
<1> USE InitTable DEF Is, PrimeSchema, RoleViews
<1>1. CASE i = 1
  BY <1>1
<1>2. CASE i = 2
  BY <1>2
<1>3. CASE i = 3
  BY <1>3
<1>4. CASE i = 4
  BY <1>4
<1>5. CASE i = 5
  BY <1>5
<1>6. CASE i = 6
  BY <1>6
<1>7. CASE i = 7
  BY <1>7
<1>8. CASE i = 8
  BY <1>8
<1>9. CASE i = 9
  BY <1>9
<1>10. CASE i = 10
  BY <1>10
<1>11. CASE i = 11
  BY <1>11
<1>12. CASE i = 12
  BY <1>12
<1>13. CASE i = 13
  BY <1>13
<1>14. CASE i = 14
  BY <1>14
<1>15. CASE i = 15
  BY <1>15
<1>16. CASE i = 16
  BY <1>16
<1>17. CASE i = 17
  BY <1>17
<1>18. CASE i = 18
  BY <1>18
<1>19. CASE i = 19
  BY <1>19
<1>20. CASE i = 20
  BY <1>20
<1>21. CASE i = 21
  BY <1>21
<1>22. CASE i = 22
  BY <1>22
<1>23. CASE i = 23
  BY <1>23
<1>24. CASE i = 24
  BY <1>24
<1>25. CASE i = 25
  BY <1>25
<1>26. CASE i = 26
  BY <1>26
<1>27. CASE i = 27
  BY <1>27
<1>28. CASE i = 28
  BY <1>28
<1>29. CASE i = 29
  BY <1>29
<1>30. CASE i = 30
  BY <1>30
<1>31. CASE i = 31
  BY <1>31
<1>32. CASE i = 32
  BY <1>32
<1>33. CASE i = 33
  BY <1>33
<1> HIDE InitTable DEF Is, PrimeSchema, RoleViews
<1>34. \/ i \in {1, 2, 3, 4, 5, 6, 7, 8, 9, 10, 11, 12, 13, 14, 15, 16, 17}
       \/ i \in {18, 19, 20, 21, 22, 23, 24, 25, 26, 27, 28, 29, 30, 31, 32, 33}
  OBVIOUS
<1> QED
  BY <1>1, <1>2, <1>3, <1>4, <1>5, <1>6, <1>7, <1>8, <1>9, <1>10, <1>11, <1>12, <1>13, <1>14, <1>15, <1>16, <1>17, <1>18, <1>19, <1>20, <1>21, <1>22, <1>23, <1>24, <1>25, <1>26, <1>27, <1>28, <1>29, <1>30, <1>31, <1>32, <1>33, <1>34

(* Each call of the initialisation finds what it needs, and never makes    *)
(* what is there already.                                                  *)
LEMMA InitFinds ==
    ASSUME NEW k \in 1..33
    PROVE  /\ run_db_init[k].needs \subseteq MadeBefore(k) \cup {"gs_user", "role_service_schema"}
           /\ run_db_init[k].forbids \cap MadeBefore(k) = {}
<1>1. run_db_init[k].needs \subseteq MadeBefore(k) \cup {"gs_user", "role_service_schema"}
  <2> USE Stays, InitTable DEF Is, PrimeSchema
  <2>1. CASE k = 1
    BY <2>1
  <2>2. CASE k = 2
    BY <2>2
  <2>3. CASE k = 3
    BY <2>3
  <2>4. CASE k = 4
    BY <2>4
  <2>5. CASE k = 5
    BY <2>5
  <2>6. CASE k = 6
    BY <2>6
  <2>7. CASE k = 7
    BY <2>7
  <2>8. CASE k = 8
    BY <2>8
  <2>9. CASE k = 9
    BY <2>9
  <2>10. CASE k = 10
    BY <2>10
  <2>11. CASE k = 11
    BY <2>11
  <2>12. CASE k = 12
    BY <2>12
  <2>13. CASE k = 13
    BY <2>13
  <2>14. CASE k = 14
    BY <2>14
  <2>15. CASE k = 15
    BY <2>15
  <2>16. CASE k = 16
    BY <2>16
  <2>17. CASE k = 17
    BY <2>17
  <2>18. CASE k = 18
    BY <2>18
  <2>19. CASE k = 19
    BY <2>19
  <2>20. CASE k = 20
    BY <2>20
  <2>21. CASE k = 21
    BY <2>21
  <2>22. CASE k = 22
    BY <2>22
  <2>23. CASE k = 23
    BY <2>23
  <2>24. CASE k = 24
    BY <2>24
  <2>25. CASE k = 25
    BY <2>25
  <2>26. CASE k = 26
    BY <2>26
  <2>27. CASE k = 27
    BY <2>27
  <2>28. CASE k = 28
    BY <2>28
  <2>29. CASE k = 29
    BY <2>29
  <2>30. CASE k = 30
    BY <2>30
  <2>31. CASE k = 31
    BY <2>31
  <2>32. CASE k = 32
    BY <2>32
  <2>33. CASE k = 33
    BY <2>33
  <2> HIDE Stays, InitTable DEF Is, PrimeSchema
  <2>34. \/ k \in {1, 2, 3, 4, 5, 6, 7, 8, 9, 10, 11, 12, 13, 14, 15, 16, 17}
         \/ k \in {18, 19, 20, 21, 22, 23, 24, 25, 26, 27, 28, 29, 30, 31, 32, 33}
    OBVIOUS
  <2> QED
    BY <2>1, <2>2, <2>3, <2>4, <2>5, <2>6, <2>7, <2>8, <2>9, <2>10, <2>11, <2>12, <2>13,
       <2>14, <2>15, <2>16, <2>17, <2>18, <2>19, <2>20, <2>21, <2>22, <2>23, <2>24, <2>25, <2>26,
       <2>27, <2>28, <2>29, <2>30, <2>31, <2>32, <2>33, <2>34
<1>2. ASSUME NEW o \in run_db_init[k].forbids, o \in MadeBefore(k) PROVE FALSE
  <2>1. PICK i \in 1..(k - 1) : /\ o \in run_db_init[i].makes
                                /\ \A j \in (i + 1)..(k - 1) : o \notin run_db_init[j].drops
    BY <1>2, k \in 1..34, MadeIff
  <2>2. i \in 1..33 /\ i < k
    OBVIOUS
  <2> USE InitTable DEF Is
  <2>3. CASE k = 1
    BY <2>2, <2>3
  <2>4. CASE k = 18
    <3>1. i = 19
      BY <2>1, <2>2, <2>4, MadeOnce
    <3> QED
      BY <2>2, <2>4, <3>1
  <2>5. CASE k = 24
    <3>1. i = 1
      BY <2>1, <2>2, <2>5, MadeOnce
    <3>2. o \in run_db_init[23].drops /\ 23 \in (i + 1)..(k - 1)
      BY <1>2, <2>5, <3>1
    <3> QED
      BY <2>1, <3>2
  <2>6. CASE k = 3
    BY <1>2, <2>1, <2>2, <2>6, MadeOnce
  <2>7. CASE k = 12
    BY <1>2, <2>1, <2>2, <2>7, MadeOnce
  <2>8. CASE k = 13
    BY <1>2, <2>1, <2>2, <2>8, MadeOnce
  <2>9. CASE k = 14
    BY <1>2, <2>1, <2>2, <2>9, MadeOnce
  <2>10. CASE k = 15
    BY <1>2, <2>1, <2>2, <2>10, MadeOnce
  <2>11. CASE k = 16
    BY <1>2, <2>1, <2>2, <2>11, MadeOnce
  <2>12. CASE k = 17
    BY <1>2, <2>1, <2>2, <2>12, MadeOnce
  <2>13. CASE k = 19
    BY <1>2, <2>1, <2>2, <2>13, MadeOnce
  <2>14. CASE k = 20
    BY <1>2, <2>1, <2>2, <2>14, MadeOnce
  <2>15. CASE k = 21
    BY <1>2, <2>1, <2>2, <2>15, MadeOnce
  <2>16. CASE k = 22
    BY <1>2, <2>1, <2>2, <2>16, MadeOnce
  <2>17. CASE k = 23
    BY <1>2, <2>1, <2>2, <2>17, MadeOnce
  <2>18. CASE k = 28
    BY <1>2, <2>1, <2>2, <2>18, MadeOnce
  <2>19. CASE k \in {2, 4, 5, 6, 7, 8, 9, 10, 11, 25, 26, 27, 29, 30, 31, 32, 33}
    BY <1>2, <2>19
  <2> HIDE InitTable DEF Is
  <2>20. \/ k \in {2, 4, 5, 6, 7, 8, 9, 10, 11, 25, 26, 27, 29, 30, 31, 32, 33}
         \/ k \in {1, 3, 12, 13, 14, 15, 16, 17, 18, 19, 20, 21, 22, 23, 24, 28}
    OBVIOUS
  <2> QED
    BY <2>3, <2>4, <2>5, <2>6, <2>7, <2>8, <2>9, <2>10, <2>11, <2>12, <2>13, <2>14,
       <2>15, <2>16, <2>17, <2>18, <2>19, <2>20
<1> QED
  BY <1>1, <1>2

(* The versions they set, and what they drop when they raise.              *)
LEMMA InitSets ==
    ASSUME NEW k \in 1..33
    PROVE  /\ k = 6 => /\ "data" \in DOMAIN run_db_init[k].sets /\ run_db_init[k].sets["data"] = None4
           /\ k = 32 => DOMAIN run_db_init[k].sets = {"schema"} /\ run_db_init[k].sets["schema"] = V2
           /\ k = 33 => DOMAIN run_db_init[k].sets = {"data"} /\ run_db_init[k].sets["data"] = V2
           /\ k \notin {6, 32, 33} => DOMAIN run_db_init[k].sets = {}
           /\ k = 1 => run_db_init[k].undo = PrimeSchema
           /\ k = 2 => run_db_init[k].undo = PrimeSchema \cup {"codelists"}
           /\ k \notin {1, 2} => run_db_init[k].undo = {}
<1> USE DEF run_db_init, Call
<1>1. DOMAIN run_db_init[1].sets = {} /\ run_db_init[1].undo = PrimeSchema
  BY DEF create_schema
<1>2. DOMAIN run_db_init[2].sets = {} /\ run_db_init[2].undo = PrimeSchema \cup {"codelists"}
  BY DEF setup_codelists_data
<1>3. DOMAIN run_db_init[3].sets = {} /\ run_db_init[3].undo = {}
  BY DEF initialize_data_versioning
<1>4. DOMAIN run_db_init[4].sets = {} /\ run_db_init[4].undo = {}
  BY DEF alter_schema
<1>5. DOMAIN run_db_init[5].sets = {} /\ run_db_init[5].undo = {}
  BY DEF update_style_type_in_db
<1>6. "data" \in DOMAIN run_db_init[6].sets /\ run_db_init[6].sets["data"] = None4 /\ run_db_init[6].undo = {}
  BY DEF adjust_db_for_schema_migrations, None4
<1>7. DOMAIN run_db_init[7].sets = {} /\ run_db_init[7].undo = {}
  BY DEF adjust_prime_db_schema_for_fulltext_search
<1>8. DOMAIN run_db_init[8].sets = {} /\ run_db_init[8].undo = {}
  BY DEF adjust_prime_db_schema_for_last_change_search
<1>9. DOMAIN run_db_init[9].sets = {} /\ run_db_init[9].undo = {}
  BY DEF adjust_prime_db_schema_for_bbox_search
<1>10. DOMAIN run_db_init[10].sets = {} /\ run_db_init[10].undo = {}
  BY DEF adjust_db_for_srid
<1>11. DOMAIN run_db_init[11].sets = {} /\ run_db_init[11].undo = {}
  BY DEF adjust_db_for_file_type
<1>12. DOMAIN run_db_init[12].sets = {} /\ run_db_init[12].undo = {}
  BY DEF adjust_db_for_image_mosaic
<1>13. DOMAIN run_db_init[13].sets = {} /\ run_db_init[13].undo = {}
  BY DEF adjust_db_for_table_uri
<1>14. DOMAIN run_db_init[14].sets = {} /\ run_db_init[14].undo = {}
  BY DEF rename_file_type_to_geodata_type
<1>15. DOMAIN run_db_init[15].sets = {} /\ run_db_init[15].undo = {}
  BY DEF adjust_db_for_wfs_wms_status
<1>16. DOMAIN run_db_init[16].sets = {} /\ run_db_init[16].undo = {}
  BY DEF create_map_layer_relation_table
<1>17. DOMAIN run_db_init[17].sets = {} /\ run_db_init[17].undo = {}
  BY DEF adjust_db_for_roles
<1>18. DOMAIN run_db_init[18].sets = {} /\ run_db_init[18].undo = {}
  BY DEF restrict_workspace_name_length
<1>19. DOMAIN run_db_init[19].sets = {} /\ run_db_init[19].undo = {}
  BY DEF create_role_service_schema
<1>20. DOMAIN run_db_init[20].sets = {} /\ run_db_init[20].undo = {}
  BY DEF remove_right_types_table
<1>21. DOMAIN run_db_init[21].sets = {} /\ run_db_init[21].undo = {}
  BY DEF adjust_db_publication_srid_constraint
<1>22. DOMAIN run_db_init[22].sets = {} /\ run_db_init[22].undo = {}
  BY DEF adjust_db_publication_file_type_constraint
<1>23. DOMAIN run_db_init[23].sets = {} /\ run_db_init[23].undo = {}
  BY DEF ensure_sub_uniqueness
<1>24. DOMAIN run_db_init[24].sets = {} /\ run_db_init[24].undo = {}
  BY DEF ensure_issuer_sub_uniqueness
<1>25. DOMAIN run_db_init[25].sets = {} /\ run_db_init[25].undo = {}
  BY DEF adjust_db_for_description
<1>26. DOMAIN run_db_init[26].sets = {} /\ run_db_init[26].undo = {}
  BY DEF adjust_db_for_map_layer_relation
<1>27. DOMAIN run_db_init[27].sets = {} /\ run_db_init[27].undo = {}
  BY DEF adjust_db_for_created_at
<1>28. DOMAIN run_db_init[28].sets = {} /\ run_db_init[28].undo = {}
  BY DEF ensure_gs_workspaces_and_stores
<1>29. DOMAIN run_db_init[29].sets = {} /\ run_db_init[29].undo = {}
  BY DEF ensure_layers_db_schema
<1>30. DOMAIN run_db_init[30].sets = {} /\ run_db_init[30].undo = {}
  BY DEF adjust_publications_created_at
<1>31. DOMAIN run_db_init[31].sets = {} /\ run_db_init[31].undo = {}
  BY DEF adjust_map_layer_data
<1>32. DOMAIN run_db_init[32].sets = {"schema"} /\ run_db_init[32].sets["schema"] = V2 /\ run_db_init[32].undo = {}
  BY DEF set_current_migration_version, MIN_UPGRADEABLE_VERSION, V2
<1>33. DOMAIN run_db_init[33].sets = {"data"} /\ run_db_init[33].sets["data"] = V2 /\ run_db_init[33].undo = {}
  BY DEF set_current_migration_version, MIN_UPGRADEABLE_VERSION, V2
<1> HIDE DEF run_db_init, Call
<1>34. \/ k \in {1, 2, 3, 4, 5, 6, 7, 8, 9, 10, 11, 12, 13, 14, 15, 16, 17}
       \/ k \in {18, 19, 20, 21, 22, 23, 24, 25, 26, 27, 28, 29, 30, 31, 32, 33}
  OBVIOUS
<1> QED
  BY <1>1, <1>2, <1>3, <1>4, <1>5, <1>6, <1>7, <1>8, <1>9, <1>10, <1>11, <1>12, <1>13,
      <1>14, <1>15, <1>16, <1>17, <1>18, <1>19, <1>20, <1>21, <1>22, <1>23, <1>24, <1>25, <1>26,
      <1>27, <1>28, <1>29, <1>30, <1>31, <1>32, <1>33, <1>34

-----------------------------------------------------------------------------
(* Lists of calls.                                                         *)
IsSeq(t) == \E S : t \in Seq(S)

(* The first call of a list, and what is left after it.                    *)
LEMMA First ==
    ASSUME NEW a, NEW t, IsSeq(t)
    PROVE  /\ IsSeq(<<a>> \o t) /\ <<a>> \o t # <<>>
           /\ Head(<<a>> \o t) = a /\ Tail(<<a>> \o t) = t
<1>1. PICK T : t \in Seq(T)
  BY DEF IsSeq
<1> DEFINE S == T \cup {a}
<1>2. t \in Seq(S) /\ <<a>> \in Seq(S) /\ Len(<<a>>) = 1 /\ <<a>>[1] = a
  BY <1>1, SeqMonotonic
<1> HIDE DEF S
<1>3. /\ <<a>> \o t \in Seq(S) /\ Len(<<a>> \o t) = Len(t) + 1 /\ Len(t) \in Nat
      /\ \A i \in 1..(Len(t) + 1) : (<<a>> \o t)[i] = IF i <= 1 THEN a ELSE t[i - 1]
  BY <1>2, ConcatProperties, LenProperties
<1>4. <<a>> \o t # <<>>
  BY <1>3, EmptySeq
<1>5. Head(<<a>> \o t) = a
  BY <1>3, <1>4
<1>6. Tail(<<a>> \o t) = t
  <2>1. /\ Tail(<<a>> \o t) \in Seq(S) /\ Len(Tail(<<a>> \o t)) = Len(t)
        /\ \A i \in 1..Len(t) : Tail(<<a>> \o t)[i] = (<<a>> \o t)[i + 1]
    BY <1>3, <1>4, HeadTailProperties
  <2>2. \A i \in 1..Len(t) : Tail(<<a>> \o t)[i] = t[i]
    BY <1>3, <2>1
  <2> QED
    BY <1>2, <2>1, <2>2, SeqEqual
<1> QED
  BY <1>3, <1>4, <1>5, <1>6 DEF IsSeq

(* Concatenation is associative, and <<>> is neutral.                      *)
LEMMA Joined ==
    ASSUME NEW r, NEW s, NEW t, IsSeq(r), IsSeq(s), IsSeq(t)
    PROVE  /\ IsSeq(r \o s) /\ (r \o s) \o t = r \o (s \o t)
           /\ r \o <<>> = r /\ <<>> \o r = r
<1>1. PICK R, S, T : r \in Seq(R) /\ s \in Seq(S) /\ t \in Seq(T)
  BY DEF IsSeq
<1>2. r \in Seq(R \cup S \cup T) /\ s \in Seq(R \cup S \cup T) /\ t \in Seq(R \cup S \cup T)
  BY <1>1, SeqMonotonic
<1> QED
  BY <1>2, ConcatAssociative, ConcatProperties, ConcatEmptySeq DEF IsSeq

LEMMA Listed ==
    /\ IsSeq(<<>>)
    /\ \A a : IsSeq(<<a>>)
    /\ \A a, b : IsSeq(<<a, b>>) /\ <<a, b>> = <<a>> \o <<b>>
    /\ \A a, b, c : IsSeq(<<a, b, c>>) /\ <<a, b, c>> = <<a>> \o <<b, c>>
    /\ \A a, b, c, d : <<a, b, c, d>> = <<a>> \o <<b, c, d>>
<1>1. IsSeq(<<>>)
  BY EmptySeq DEF IsSeq
<1>2. ASSUME NEW a PROVE IsSeq(<<a>>)
  <2>1. <<a>> \in Seq({a})
    OBVIOUS
  <2> QED
    BY <2>1 DEF IsSeq
<1>3. ASSUME NEW a, NEW b PROVE IsSeq(<<a, b>>) /\ <<a, b>> = <<a>> \o <<b>>
  <2>1. /\ <<a, b>> \in Seq({a, b}) /\ Len(<<a, b>>) = 2 /\ <<a, b>>[1] = a /\ <<a, b>>[2] = b
        /\ <<a>> \in Seq({a, b}) /\ Len(<<a>>) = 1 /\ <<a>>[1] = a
        /\ <<b>> \in Seq({a, b}) /\ Len(<<b>>) = 1 /\ <<b>>[1] = b
    OBVIOUS
  <2> DEFINE s == <<a, b>>
             r == <<a>> \o <<b>>
  <2>2. /\ r \in Seq({a, b}) /\ Len(r) = 2
        /\ \A i \in 1..2 : r[i] = IF i <= 1 THEN <<a>>[i] ELSE <<b>>[i - 1]
    BY <2>1, ConcatProperties
  <2>3. r[1] = a /\ r[2] = b
    <3>1. r[2] = <<b>>[2 - 1] /\ 2 - 1 = 1
      BY <2>2
    <3> QED
      BY <2>1, <2>2, <3>1
  <2>4. s \in Seq({a, b}) /\ Len(s) = 2 /\ \A i \in 1..2 : s[i] = r[i]
    <3>1. \A i \in 1..2 : i = 1 \/ i = 2
      OBVIOUS
    <3> QED
      BY <2>1, <2>3, <3>1
  <2> HIDE DEF s, r
  <2>5. s = r
    BY <2>2, <2>4, SeqEqual
  <2> QED
    BY <2>1, <2>5 DEF IsSeq, s, r
<1>4. ASSUME NEW a, NEW b, NEW c PROVE IsSeq(<<a, b, c>>) /\ <<a, b, c>> = <<a>> \o <<b, c>>
  <2>1. /\ <<a, b, c>> \in Seq({a, b, c}) /\ Len(<<a, b, c>>) = 3
        /\ <<a, b, c>>[1] = a /\ <<a, b, c>>[2] = b /\ <<a, b, c>>[3] = c
        /\ <<a>> \in Seq({a, b, c}) /\ Len(<<a>>) = 1 /\ <<a>>[1] = a
        /\ <<b, c>> \in Seq({a, b, c}) /\ Len(<<b, c>>) = 2 /\ <<b, c>>[1] = b /\ <<b, c>>[2] = c
    OBVIOUS
  <2> DEFINE s == <<a, b, c>>
             r == <<a>> \o <<b, c>>
  <2>2. /\ r \in Seq({a, b, c}) /\ Len(r) = 3
        /\ \A i \in 1..3 : r[i] = IF i <= 1 THEN <<a>>[i] ELSE <<b, c>>[i - 1]
    BY <2>1, ConcatProperties
  <2>3. r[1] = a /\ r[2] = b /\ r[3] = c
    <3>1. r[2] = <<b, c>>[2 - 1] /\ 2 - 1 = 1 /\ r[3] = <<b, c>>[3 - 1] /\ 3 - 1 = 2
      BY <2>2
    <3> QED
      BY <2>1, <2>2, <3>1
  <2>4. s \in Seq({a, b, c}) /\ Len(s) = 3 /\ \A i \in 1..3 : s[i] = r[i]
    <3>1. \A i \in 1..3 : i = 1 \/ i = 2 \/ i = 3
      OBVIOUS
    <3> QED
      BY <2>1, <2>3, <3>1
  <2> HIDE DEF s, r
  <2>5. s = r
    BY <2>2, <2>4, SeqEqual
  <2> QED
    BY <2>1, <2>5 DEF IsSeq, s, r
<1>5. ASSUME NEW a, NEW b, NEW c, NEW d PROVE <<a, b, c, d>> = <<a>> \o <<b, c, d>>
  OBVIOUS
<1> QED
  BY <1>1, <1>2, <1>3, <1>4, <1>5

LEMMA LoadsAre ==
    /\ IsSeq(Loads) /\ Len(Loads) = 6
    /\ Loads[1] = import_uuids_to_redis /\ Loads[2] = import_authn_to_redis
    /\ Loads[3] = ensure_output_srs_for_all /\ Loads[4] = ensure_srid_definitions
    /\ Loads[5] = set_after_restart /\ Loads[6] = validate_role_service
<1>1. Loads \in Seq({import_uuids_to_redis, import_authn_to_redis, ensure_output_srs_for_all,
                     ensure_srid_definitions, set_after_restart, validate_role_service})
  BY DEF Loads
<1> QED
  BY <1>1 DEF Loads, IsSeq

LEMMA ListOfInit == IsSeq(run_db_init)
<1>1. run_db_init \in Seq({run_db_init[i] : i \in 1..33})
  <2>1. run_db_init = [i \in 1..33 |-> run_db_init[i]]
    BY DEF run_db_init
  <2> QED
    BY <2>1
<1> QED
  BY <1>1 DEF IsSeq

(* A list from its k-th element on is that element and the rest.           *)
LEMMA RestOf ==
    ASSUME NEW s, IsSeq(s), NEW k \in 1..Len(s)
    PROVE  /\ SubSeq(s, k, Len(s)) = <<s[k]>> \o SubSeq(s, k + 1, Len(s))
           /\ IsSeq(SubSeq(s, k + 1, Len(s)))
           /\ SubSeq(s, Len(s) + 1, Len(s)) = <<>> /\ SubSeq(s, 1, Len(s)) = s
<1>1. PICK S : s \in Seq(S)
  BY DEF IsSeq
<1>2. Len(s) \in Nat /\ k \in Int /\ \A i \in 1..Len(s) : s[i] \in S
  BY <1>1, LenProperties, ElementOfSeq
<1>3. SubSeq(s, k + 1, Len(s)) \in Seq(S)
  <2>1. \A i \in (k + 1)..Len(s) : s[i] \in S
    BY <1>2
  <2> QED
    BY <1>2, <2>1, SubSeqProperties
<1>4. SubSeq(s, k, Len(s)) = <<s[k]>> \o SubSeq(s, k + 1, Len(s))
  BY <1>1, <1>2, SubSeqRecursiveFirst
<1>5. SubSeq(s, Len(s) + 1, Len(s)) = <<>>
  BY <1>2, SubSeqEmpty
<1>6. SubSeq(s, 1, Len(s)) = s
  BY <1>1, SubSeqFull
<1> QED
  BY <1>3, <1>4, <1>5, <1>6 DEF IsSeq

(* The steps of the upgrade, and what comes after each.                    *)
LEMMA StepsOfUpgrade ==
    ASSUME NEW p
    PROVE  /\ IsSeq(AfterUpgrade(p)) /\ IsSeq(FromData(p)) /\ IsSeq(FromSchema(p)) /\ IsSeq(FromCheck(p))
           /\ IsSeq(FromNew(p)) /\ IsSeq(FromFinalSchema(p)) /\ IsSeq(FromSetSchema(p)) /\ IsSeq(FromNothing(p))
           /\ IsSeq(FromFinalData(p)) /\ IsSeq(FromSetLayer(p)) /\ IsSeq(FromLayer(p))
           /\ IsSeq(FromSetMap(p)) /\ IsSeq(FromMap(p)) /\ upgrade \o AfterUpgrade(p) = FromNew(p)
<1>1. IsSeq(AfterUpgrade(p))
  BY Listed, LoadsAre DEF AfterUpgrade
<1>12. /\ IsSeq(FromFinalData(p)) /\ IsSeq(FromSetLayer(p)) /\ IsSeq(FromLayer(p))
       /\ IsSeq(FromSetMap(p)) /\ IsSeq(FromMap(p))
  <2>1. IsSeq(FromFinalData(p))
    BY <1>1, First DEF FromFinalData
  <2>2. IsSeq(FromSetLayer(p))
    BY <2>1, First DEF FromSetLayer
  <2>3. IsSeq(FromLayer(p))
    BY <2>2, First DEF FromLayer
  <2>4. IsSeq(FromSetMap(p))
    BY <2>3, First DEF FromSetMap
  <2>5. IsSeq(FromMap(p))
    BY <2>4, First DEF FromMap
  <2> QED
    BY <2>1, <2>2, <2>3, <2>4, <2>5
<1>2. IsSeq(FromData(p))
  BY <1>1, First DEF FromData
<1>13. IsSeq(FromFinalSchema(p)) /\ IsSeq(FromSetSchema(p)) /\ IsSeq(FromNothing(p))
  <2>1. IsSeq(FromFinalSchema(p))
    BY <1>2, First DEF FromFinalSchema
  <2>2. IsSeq(FromSetSchema(p))
    BY <2>1, First DEF FromSetSchema
  <2>3. IsSeq(FromNothing(p))
    BY <2>2, First DEF FromNothing
  <2> QED
    BY <2>1, <2>2, <2>3
<1>3. IsSeq(FromSchema(p))
  BY <1>2, First DEF FromSchema
<1>4. IsSeq(FromCheck(p))
  BY <1>3, First DEF FromCheck
<1>5. IsSeq(FromNew(p))
  BY <1>4, First DEF FromNew
<1> DEFINE a == [kind |-> "is_new_installation"]
           b == [kind |-> "check_version_upgradeability"]
           c == Migrate("schema")
           d == Migrate("data")
           t == AfterUpgrade(p)
<1>6. upgrade = <<a, b, c, d>>
  BY DEF upgrade, Migrate
<1>7. FromNew(p) = <<a>> \o (<<b>> \o (<<c>> \o (<<d>> \o t)))
  BY DEF FromNew, FromCheck, FromSchema, FromData
<1> HIDE DEF a, b, c, d, t
<1>8. <<a, b, c, d>> = <<a>> \o <<b, c, d>>
  OBVIOUS
<1>9. IsSeq(t) /\ IsSeq(<<d>> \o t) /\ IsSeq(<<c>> \o (<<d>> \o t))
  BY <1>1, First DEF t
<1>10. <<b, c, d>> \o t = <<b>> \o (<<c>> \o (<<d>> \o t))
  <2>1. <<b, c, d>> = <<b>> \o <<c, d>> /\ <<c, d>> = <<c>> \o <<d>>
    BY Listed
  <2>2. IsSeq(<<b>>) /\ IsSeq(<<c>>) /\ IsSeq(<<d>>) /\ IsSeq(<<c, d>>)
    BY Listed
  <2>3. (<<b>> \o <<c, d>>) \o t = <<b>> \o (<<c, d>> \o t)
    BY <1>9, <2>2, Joined
  <2>4. (<<c>> \o <<d>>) \o t = <<c>> \o (<<d>> \o t)
    BY <1>9, <2>2, Joined
  <2> QED
    BY <2>1, <2>3, <2>4
<1>11. (<<a>> \o <<b, c, d>>) \o t = <<a>> \o (<<b, c, d>> \o t)
  <2>1. IsSeq(<<a>>) /\ IsSeq(<<b, c, d>>)
    BY Listed
  <2> DEFINE x == <<b, c, d>>
  <2>2. IsSeq(x)
    BY <2>1
  <2> HIDE DEF x
  <2>3. (<<a>> \o x) \o t = <<a>> \o (x \o t)
    BY <1>9, <2>1, <2>2, Joined
  <2> QED
    BY <2>3 DEF x
<1> QED
  BY <1>1, <1>2, <1>3, <1>4, <1>5, <1>6, <1>7, <1>8, <1>10, <1>11, <1>12, <1>13 DEF t

LEMMA UpgradeAlone == upgrade = FromNew(Upgrader)
<1>1. AfterUpgrade(Upgrader) = <<>>
  BY DEF AfterUpgrade
<1>2. IsSeq(upgrade)
  <2>1. upgrade \in Seq({upgrade[1], upgrade[2], upgrade[3], upgrade[4]})
    BY DEF upgrade
  <2> QED
    BY <2>1 DEF IsSeq
<1> QED
  BY <1>1, <1>2, StepsOfUpgrade, Joined

(* The lists of the code, as their first call and what comes after it.     *)
LEMMA StepsOfAdjustment ==
    ASSUME NEW p
    PROVE  /\ p = Upgrader => Adjustment(p) = <<ensure_user, ensure_proxy_base_url>>
           /\ p # Upgrader => Adjustment(p) =
                  <<ensure_user>> \o (<<ensure_proxy_base_url>> \o (<<ensure_srs_lists>> \o FromNew(p)))
<1>1. IsSeq(upgrade)
  BY UpgradeAlone, StepsOfUpgrade
<1>2. CASE p = Upgrader
  BY <1>2, Listed, Joined DEF Adjustment
<1>3. CASE p # Upgrader
  <2>1. AfterUpgrade(p) = Loads /\ IsSeq(Loads)
    BY <1>3, LoadsAre DEF AfterUpgrade
  <2>2. Adjustment(p) = <<ensure_user, ensure_proxy_base_url>> \o ((<<ensure_srs_lists>> \o upgrade) \o Loads)
    BY <1>3 DEF Adjustment, Loads
  <2>3. (<<ensure_srs_lists>> \o upgrade) \o Loads = <<ensure_srs_lists>> \o FromNew(p)
    <3>1. IsSeq(<<ensure_srs_lists>>) /\ upgrade \o Loads = FromNew(p)
      BY <2>1, Listed, StepsOfUpgrade
    <3>2. (<<ensure_srs_lists>> \o upgrade) \o Loads = <<ensure_srs_lists>> \o (upgrade \o Loads)
      <4> DEFINE x == <<ensure_srs_lists>>
      <4>1. IsSeq(x)
        BY <3>1
      <4> HIDE DEF x
      <4>2. (x \o upgrade) \o Loads = x \o (upgrade \o Loads)
        BY <1>1, <2>1, <4>1, Joined
      <4> QED
        BY <4>2 DEF x
    <3> QED
      BY <3>1, <3>2
  <2> DEFINE a == ensure_user
             b == ensure_proxy_base_url
             t == <<ensure_srs_lists>> \o FromNew(p)
  <2>4. IsSeq(t) /\ Adjustment(p) = <<a, b>> \o t
    BY <2>2, <2>3, First, StepsOfUpgrade
  <2> HIDE DEF a, b, t
  <2>5. IsSeq(<<a>>) /\ IsSeq(<<b>>) /\ <<a, b>> = <<a>> \o <<b>>
    BY Listed
  <2>6. (<<a>> \o <<b>>) \o t = <<a>> \o (<<b>> \o t)
    BY <2>4, <2>5, Joined
  <2> QED
    BY <1>3, <2>4, <2>5, <2>6 DEF a, b, t
<1> QED
  BY <1>2, <1>3

LEMMA StepsOfInit ==
    ASSUME NEW p
    PROVE  /\ FromInit(1, p) = run_db_init \o FromCheck(p) /\ FromInit(34, p) = FromCheck(p)
           /\ \A k \in 1..33 : FromInit(k, p) = <<run_db_init[k]>> \o FromInit(k + 1, p) /\ IsSeq(FromInit(k + 1, p))
<1>1. Len(run_db_init) = 33 /\ 1 \in 1..33
  BY InitTable
<1>2. FromInit(1, p) = run_db_init \o FromCheck(p) /\ FromInit(34, p) = FromCheck(p)
  <2>1. SubSeq(run_db_init, 33 + 1, 33) = <<>> /\ SubSeq(run_db_init, 1, 33) = run_db_init
    <3>1. IsSeq(run_db_init) /\ 1 \in 1..Len(run_db_init)
      BY <1>1, ListOfInit
    <3>2. /\ SubSeq(run_db_init, Len(run_db_init) + 1, Len(run_db_init)) = <<>>
          /\ SubSeq(run_db_init, 1, Len(run_db_init)) = run_db_init
      BY <3>1, RestOf
    <3> QED
      BY <1>1, <3>2
  <2>2. <<>> \o FromCheck(p) = FromCheck(p) /\ 33 + 1 = 34
    BY StepsOfUpgrade, Joined
  <2> QED
    BY <1>1, <2>1, <2>2 DEF FromInit
<1>3. ASSUME NEW k \in 1..33
      PROVE  FromInit(k, p) = <<run_db_init[k]>> \o FromInit(k + 1, p) /\ IsSeq(FromInit(k + 1, p))
  <2> DEFINE s == SubSeq(run_db_init, k + 1, 33)
  <2>1. IsSeq(s) /\ SubSeq(run_db_init, k, 33) = <<run_db_init[k]>> \o s
    <3>1. IsSeq(run_db_init) /\ k \in 1..Len(run_db_init)
      BY <1>1, ListOfInit
    <3>2. /\ SubSeq(run_db_init, k, Len(run_db_init)) = <<run_db_init[k]>> \o SubSeq(run_db_init, k + 1, Len(run_db_init))
          /\ IsSeq(SubSeq(run_db_init, k + 1, Len(run_db_init)))
      BY <3>1, RestOf
    <3> QED
      BY <1>1, <3>2
  <2> HIDE DEF s
  <2>2. IsSeq(<<run_db_init[k]>>)
    BY Listed
  <2>3. (<<run_db_init[k]>> \o s) \o FromCheck(p) = <<run_db_init[k]>> \o (s \o FromCheck(p)) /\ IsSeq(s \o FromCheck(p))
    BY <2>1, <2>2, StepsOfUpgrade, Joined
  <2> QED
    BY <1>1, <2>1, <2>3 DEF FromInit, s
<1> QED
  BY <1>2, <1>3

LEMMA StepsOfLoads ==
    /\ LoadsFrom(1) = Loads /\ LoadsFrom(7) = <<>>
    /\ \A k \in 1..6 : LoadsFrom(k) = <<Loads[k]>> \o LoadsFrom(k + 1) /\ IsSeq(LoadsFrom(k + 1))
<1>1. Len(Loads) = 6 /\ 1 \in 1..Len(Loads) /\ IsSeq(Loads)
  BY LoadsAre
<1>2. /\ SubSeq(Loads, Len(Loads) + 1, Len(Loads)) = <<>> /\ SubSeq(Loads, 1, Len(Loads)) = Loads
  BY <1>1, RestOf
<1>3. ASSUME NEW k \in 1..Len(Loads)
      PROVE  LoadsFrom(k) = <<Loads[k]>> \o LoadsFrom(k + 1) /\ IsSeq(LoadsFrom(k + 1))
  BY <1>1, RestOf DEF LoadsFrom
<1>4. 6 + 1 = 7
  OBVIOUS
<1> QED
  BY <1>1, <1>2, <1>3, <1>4 DEF LoadsFrom

(* Two calls, and then more calls, before what was left.                   *)
LEMMA Onto ==
    ASSUME NEW q, NEW r, NEW s, NEW x, NEW t, IsSeq(r), IsSeq(s), IsSeq(x), IsSeq(t), q = r \o s
    PROVE  /\ (q \o x) \o t = r \o (s \o (x \o t)) /\ IsSeq(q \o x)
           /\ (<<>> \o x) \o t = x \o t
<1>1. IsSeq(q) /\ IsSeq(x \o t) /\ IsSeq(q \o x)
  BY Joined
<1>2. (q \o x) \o t = q \o (x \o t)
  BY <1>1, Joined
<1>3. (r \o s) \o (x \o t) = r \o (s \o (x \o t))
  BY <1>1, Joined
<1>4. <<>> \o x = x
  BY Joined
<1> QED
  BY <1>1, <1>2, <1>3, <1>4

-----------------------------------------------------------------------------
(* The migrations.                                                         *)
LEMMA VersionsLater ==
    /\ Later(V3, V2) /\ ~Later(V3, V3) /\ ~Later(V3, V31)
    /\ Later(V31, V2) /\ Later(V31, V3) /\ ~Later(V31, V31)
    /\ Later(V2, None4) /\ Later(V2, <<1, 23, 0, 0>>)
<1> USE DEF V2, V3, V31, None4
<1>1. \A v \in {V2, V3, V31, None4, <<1, 23, 0, 0>>} : DOMAIN v = 1..4
  OBVIOUS
<1>2. 1..(1 - 1) = {} /\ 1 \in 1..4 /\ 4 \in 1..4
  OBVIOUS
<1>3. Later(V3, V2) /\ Later(V31, V2) /\ Later(V2, <<1, 23, 0, 0>>)
  <2>1. V3[1] > V2[1] /\ V31[1] > V2[1] /\ V2[1] > <<1, 23, 0, 0>>[1]
    OBVIOUS
  <2> QED
    BY <1>1, <1>2, <2>1 DEF Later
<1>4. Later(V2, None4)
  <2>1. V2[1] > None4[1]
    OBVIOUS
  <2> QED
    BY <1>1, <1>2, <2>1 DEF Later
<1>5. Later(V31, V3)
  <2>1. V31[4] > V3[4] /\ \A j \in 1..(4 - 1) : V31[j] = V3[j]
    OBVIOUS
  <2> QED
    BY <1>1, <1>2, <2>1 DEF Later
<1>6. ~Later(V3, V3) /\ ~Later(V3, V31) /\ ~Later(V31, V31)
  <2>1. \A i \in 1..4 : ~(V3[i] > V3[i]) /\ ~(V3[i] > V31[i]) /\ ~(V31[i] > V31[i])
    <3>1. \A i \in 1..4 : i \in {1, 2, 3, 4}
      OBVIOUS
    <3>2. \A i \in {1, 2, 3, 4} : ~(V3[i] > V3[i]) /\ ~(V3[i] > V31[i]) /\ ~(V31[i] > V31[i])
      OBVIOUS
    <3> QED
      BY <3>1, <3>2
  <2> QED
    BY <1>1, <2>1 DEF Later
<1> QED
  BY <1>3, <1>4, <1>5, <1>6

(* The migrations of this version of Layman, and the versions they set.    *)
LEMMA MigrationsAre ==
    /\ MIGRATIONS["schema"][1][1] = V3 /\ MIGRATIONS["schema"][1][2] = Call({}, {}, {}, {})
    /\ MIGRATIONS["data"][1][1] = V3 /\ MIGRATIONS["data"][1][2] = migrate_metadata_urls("map_urls")
    /\ MIGRATIONS["data"][2][1] = V31 /\ MIGRATIONS["data"][2][2] = migrate_metadata_urls("layer_urls")
    /\ get_max_data_version("schema") = V3 /\ get_max_data_version("data") = V31
    /\ \A t \in {"schema", "data"} : MIN_UPGRADEABLE_VERSION[t] = V2
  BY DEF MIGRATIONS, get_max_data_version, MIN_UPGRADEABLE_VERSION, V2, V3, V31

(* run_migrations expands to what is later than the version of the schema. *)
LEMMA PendingSchema ==
    ASSUME NEW p
    PROVE  /\ version["schema"] = V2 => PendingMigrations("schema") \o FromData(p) = FromNothing(p)
           /\ version["schema"] = V3 => PendingMigrations("schema") \o FromData(p) = FromFinalSchema(p)
<1>1. IsSeq(FromData(p)) /\ IsSeq(<<Final("schema")>>)
  BY StepsOfUpgrade, Listed
<1>2. PendingMigrations("schema") = Migration("schema", 1) \o <<Final("schema")>>
  BY DEF PendingMigrations, Final
<1>3. CASE version["schema"] = V2
  <2> DEFINE a == Call({}, {}, {}, {})
             b == Sets("schema", V3)
             x == <<Final("schema")>>
  <2>1. Migration("schema", 1) = <<a, b>>
    BY <1>3, MigrationsAre, VersionsLater DEF Migration, Sets
  <2>2. FromNothing(p) = <<a>> \o (<<b>> \o (x \o FromData(p)))
    BY DEF FromNothing, FromSetSchema, FromFinalSchema
  <2>3. IsSeq(x)
    BY <1>1
  <2> HIDE DEF a, b, x
  <2>4. (<<a, b>> \o x) \o FromData(p) = <<a>> \o (<<b>> \o (x \o FromData(p)))
    <3> DEFINE r == <<a>>
               s == <<b>>
               q == <<a, b>>
    <3>1. IsSeq(r) /\ IsSeq(s) /\ q = r \o s
      BY Listed
    <3> HIDE DEF r, s, q
    <3>2. (q \o x) \o FromData(p) = r \o (s \o (x \o FromData(p)))
      BY <1>1, <2>3, <3>1, Onto
    <3> QED
      BY <3>2 DEF r, s, q
  <2>5. V2 # V3
    BY DEF V2, V3
  <2> QED
    BY <1>2, <1>3, <2>1, <2>2, <2>4, <2>5 DEF x
<1>4. CASE version["schema"] = V3
  <2> DEFINE x == <<Final("schema")>>
  <2>1. Migration("schema", 1) = <<>>
    BY <1>4, MigrationsAre, VersionsLater DEF Migration
  <2>2. FromFinalSchema(p) = x \o FromData(p)
    BY DEF FromFinalSchema
  <2>3. IsSeq(x)
    BY <1>1
  <2> HIDE DEF x
  <2>4. (<<>> \o x) \o FromData(p) = x \o FromData(p)
    BY <1>1, <2>3, Joined
  <2>5. V2 # V3
    BY DEF V2, V3
  <2> QED
    BY <1>2, <1>4, <2>1, <2>2, <2>4, <2>5 DEF x
<1> QED
  BY <1>3, <1>4

(* run_migrations expands to what is later than the version of the data.   *)
LEMMA PendingData ==
    ASSUME NEW p
    PROVE  /\ version["data"] = V2 => PendingMigrations("data") \o AfterUpgrade(p) = FromMap(p)
           /\ version["data"] = V3 => PendingMigrations("data") \o AfterUpgrade(p) = FromLayer(p)
           /\ version["data"] = V31 => PendingMigrations("data") \o AfterUpgrade(p) = FromFinalData(p)
<1> DEFINE a == migrate_metadata_urls("map_urls")
           b == Sets("data", V3)
           c == migrate_metadata_urls("layer_urls")
           d == Sets("data", V31)
           x == <<Final("data")>>
           t == AfterUpgrade(p)
<1>1. IsSeq(t) /\ IsSeq(x)
  BY StepsOfUpgrade, Listed
<1>2. PendingMigrations("data") = (Migration("data", 1) \o Migration("data", 2)) \o x
  BY DEF PendingMigrations, Final
<1>3. /\ Migration("data", 1) = IF version["data"] = V2 THEN <<a, b>> ELSE Migration("data", 1)
      /\ version["data"] \in {V3, V31} => Migration("data", 1) = <<>>
      /\ version["data"] \in {V2, V3} => Migration("data", 2) = <<c, d>>
      /\ version["data"] = V31 => Migration("data", 2) = <<>>
  BY MigrationsAre, VersionsLater DEF Migration, Sets
<1>4. /\ FromFinalData(p) = x \o t
      /\ FromLayer(p) = <<c>> \o (<<d>> \o (x \o t))
      /\ FromMap(p) = <<a>> \o (<<b>> \o (<<c>> \o (<<d>> \o (x \o t))))
  BY DEF FromFinalData, FromSetLayer, FromLayer, FromSetMap, FromMap
<1>5. V2 # V3 /\ V2 # V31 /\ V3 # V31
  BY DEF V2, V3, V31
<1> HIDE DEF a, b, c, d, x, t
<1>6. CASE version["data"] = V31
  <2>1. IsSeq(<<>>) /\ <<>> \o <<>> = <<>> /\ (<<>> \o x) \o t = x \o t
    BY <1>1, Listed, Joined
  <2> QED
    BY <1>2, <1>3, <1>4, <1>5, <1>6, <2>1 DEF t
<1>7. (<<c, d>> \o x) \o t = <<c>> \o (<<d>> \o (x \o t)) /\ IsSeq(<<c, d>> \o x)
  <2> DEFINE r == <<c>>
             s == <<d>>
             q == <<c, d>>
  <2>1. IsSeq(r) /\ IsSeq(s) /\ q = r \o s
    BY Listed
  <2> HIDE DEF r, s, q
  <2>2. (q \o x) \o t = r \o (s \o (x \o t))
    BY <1>1, <2>1, Onto
  <2>3. IsSeq(q \o x)
    BY <1>1, <2>1, Joined
  <2> QED
    BY <2>2, <2>3 DEF r, s, q
<1>8. CASE version["data"] = V3
  <2>1. IsSeq(<<c, d>>) /\ <<>> \o <<c, d>> = <<c, d>>
    <3> DEFINE y == <<c, d>>
    <3>1. IsSeq(y)
      BY Listed
    <3> HIDE DEF y
    <3>2. <<>> \o y = y
      BY <3>1, Joined
    <3> QED
      BY <3>1, <3>2 DEF y
  <2> QED
    BY <1>2, <1>3, <1>4, <1>5, <1>7, <1>8, <2>1 DEF t
<1>9. CASE version["data"] = V2
  <2> DEFINE y == <<c, d>>
             z == <<a, b>>
  <2>1. IsSeq(y) /\ IsSeq(z)
    BY Listed
  <2>2. IsSeq(y \o x)
    BY <1>7
  <2>3. (y \o x) \o t = <<c>> \o (<<d>> \o (x \o t))
    BY <1>7
  <2>4. PendingMigrations("data") = (z \o y) \o x
    BY <1>2, <1>3, <1>9
  <2>5. (z \o (y \o x)) \o t = <<a>> \o (<<b>> \o ((y \o x) \o t))
    <3> DEFINE r == <<a>>
               s == <<b>>
               u == y \o x
    <3>1. IsSeq(r) /\ IsSeq(s) /\ z = r \o s /\ IsSeq(u)
      BY <2>2, Listed
    <3> HIDE DEF r, s, u, y, z
    <3>2. (z \o u) \o t = r \o (s \o (u \o t))
      BY <1>1, <3>1, Onto
    <3> QED
      BY <3>2 DEF r, s, u
  <2> HIDE DEF y, z
  <2>6. (z \o y) \o x = z \o (y \o x)
    BY <1>1, <2>1, Joined
  <2> QED
    BY <1>4, <1>5, <1>9, <2>3, <2>4, <2>5, <2>6 DEF t
<1> QED
  BY <1>6, <1>8, <1>9 DEF t

-----------------------------------------------------------------------------
(* What the initialisation touches, and what it leaves alone.              *)
Outside == {"role_service_schema", "gs_user", "proxy_base_url", "srs_lists", "qgis_srs", "srid_definitions",
            "map_urls", "layer_urls"}

LEMMA InitWithin ==
    ASSUME NEW i \in 1..33
    PROVE  /\ run_db_init[i].kind = "call" /\ run_db_init[i].makes \cap Outside = {}
           /\ "migration_type" \in run_db_init[i].makes => i = 6
           /\ i # 18 => run_db_init[i].forbids \subseteq run_db_init[i].makes
<1> USE InitTable DEF Is, PrimeSchema, RoleViews, Outside
<1>1. CASE i = 1
  BY <1>1
<1>2. CASE i = 2
  BY <1>2
<1>3. CASE i = 3
  BY <1>3
<1>4. CASE i = 4
  BY <1>4
<1>5. CASE i = 5
  BY <1>5
<1>6. CASE i = 6
  BY <1>6
<1>7. CASE i = 7
  BY <1>7
<1>8. CASE i = 8
  BY <1>8
<1>9. CASE i = 9
  BY <1>9
<1>10. CASE i = 10
  BY <1>10
<1>11. CASE i = 11
  BY <1>11
<1>12. CASE i = 12
  BY <1>12
<1>13. CASE i = 13
  BY <1>13
<1>14. CASE i = 14
  BY <1>14
<1>15. CASE i = 15
  BY <1>15
<1>16. CASE i = 16
  BY <1>16
<1>17. CASE i = 17
  BY <1>17
<1>18. CASE i = 18
  BY <1>18
<1>19. CASE i = 19
  BY <1>19
<1>20. CASE i = 20
  BY <1>20
<1>21. CASE i = 21
  BY <1>21
<1>22. CASE i = 22
  BY <1>22
<1>23. CASE i = 23
  BY <1>23
<1>24. CASE i = 24
  BY <1>24
<1>25. CASE i = 25
  BY <1>25
<1>26. CASE i = 26
  BY <1>26
<1>27. CASE i = 27
  BY <1>27
<1>28. CASE i = 28
  BY <1>28
<1>29. CASE i = 29
  BY <1>29
<1>30. CASE i = 30
  BY <1>30
<1>31. CASE i = 31
  BY <1>31
<1>32. CASE i = 32
  BY <1>32
<1>33. CASE i = 33
  BY <1>33
<1> HIDE InitTable DEF Is, PrimeSchema, RoleViews, Outside
<1>34. \/ i \in {1, 2, 3, 4, 5, 6, 7, 8, 9, 10, 11, 12, 13, 14, 15, 16, 17}
       \/ i \in {18, 19, 20, 21, 22, 23, 24, 25, 26, 27, 28, 29, 30, 31, 32, 33}
  OBVIOUS
<1> QED
  BY <1>1, <1>2, <1>3, <1>4, <1>5, <1>6, <1>7, <1>8, <1>9, <1>10, <1>11, <1>12, <1>13,
      <1>14, <1>15, <1>16, <1>17, <1>18, <1>19, <1>20, <1>21, <1>22, <1>23, <1>24, <1>25, <1>26,
      <1>27, <1>28, <1>29, <1>30, <1>31, <1>32, <1>33, <1>34

LEMMA ObjectsAre ==
    /\ \A k \in 1..33 : run_db_init[k].makes \subseteq Objects /\ run_db_init[k].forbids \subseteq Objects
    /\ Objects \cap Outside = {} /\ "schema" \in Objects /\ "migration_type" \in Objects
    /\ \A k \in 1..34 : MadeBefore(k) \subseteq Objects
<1>1. Len(run_db_init) = 33
  BY InitTable
<1>2. ASSUME NEW k \in 1..33 PROVE run_db_init[k].makes \subseteq Objects
  BY <1>1 DEF Objects
<1>3. ASSUME NEW k \in 1..33 PROVE run_db_init[k].forbids \subseteq Objects
  <2>1. CASE k = 18
    <3>1. run_db_init[18].forbids = RoleViews /\ run_db_init[19].makes = RoleViews
      BY InitTable DEF Is
    <3> QED
      BY <1>2, <2>1, <3>1
  <2>2. CASE k # 18
    BY <1>2, <2>2, InitWithin
  <2> QED
    BY <2>1, <2>2
<1>4. Objects \cap Outside = {}
  <2> SUFFICES ASSUME NEW o \in Objects, o \in Outside PROVE FALSE
    OBVIOUS
  <2>1. PICK i \in 1..33 : o \in run_db_init[i].makes
    BY <1>1 DEF Objects
  <2> QED
    BY <2>1, InitWithin
<1>5. "schema" \in run_db_init[1].makes /\ "migration_type" \in run_db_init[6].makes
  BY InitTable DEF Is, PrimeSchema
<1>6. ASSUME NEW k \in 1..34 PROVE MadeBefore(k) \subseteq Objects
  <2> SUFFICES ASSUME NEW o \in MadeBefore(k) PROVE o \in Objects
    OBVIOUS
  <2>1. PICK i \in 1..(k - 1) : o \in run_db_init[i].makes
    BY MadeIff
  <2>2. i \in 1..33
    OBVIOUS
  <2> QED
    BY <1>2, <2>1, <2>2
<1> QED
  BY <1>2, <1>3, <1>4, <1>5, <1>6

LEMMA DropsWithin ==
    ASSUME NEW k \in 1..33
    PROVE  run_db_init[k].drops \cap Outside = {} /\ run_db_init[k].undo \cap Outside = {}
<1>1. run_db_init[k].drops \cap Outside = {}
  BY DropsAre DEF Outside
<1>2. run_db_init[k].undo \subseteq PrimeSchema \cup {"codelists"}
  <2>1. k = 1 \/ k = 2 \/ k \notin {1, 2}
    OBVIOUS
  <2> QED
    BY <2>1, InitSets
<1>3. (PrimeSchema \cup {"codelists"}) \cap Outside = {}
  BY DEF PrimeSchema, Outside
<1> QED
  BY <1>1, <1>2, <1>3

(* An initialisation that is interrupted leaves no schema, or one that the *)
(* check of the version refuses.                                           *)
LEMMA InterruptedInit ==
    ASSUME NEW k \in 1..33, NEW m, NEW v, InitAt(k, m, v)
    PROVE  /\ Installed(m, v) /\ Installed(m \ run_db_init[k].undo, v)
<1>1. "role_service_schema" \in m /\ m \cap Objects = MadeBefore(k) /\ (k > 6 => v["data"] = None4)
  BY DEF InitAt
<1>2. Refused(m, v)
  <2>1. CASE k > 6
    BY <1>1, <2>1 DEF Refused
  <2>2. CASE ~(k > 6)
    <3>1. "migration_type" \notin MadeBefore(k)
      <4> SUFFICES ASSUME "migration_type" \in MadeBefore(k) PROVE FALSE
        OBVIOUS
      <4>1. PICK i \in 1..(k - 1) : "migration_type" \in run_db_init[i].makes
        <5>1. k \in 1..34
          OBVIOUS
        <5> QED
          BY <5>1, MadeIff
      <4>2. i \in 1..33 /\ i < 6
        BY <2>2
      <4>3. i = 6
        BY <4>1, <4>2, InitWithin
      <4> QED
        BY <4>2, <4>3
    <3> QED
      BY <1>1, <3>1, ObjectsAre DEF Refused
  <2> QED
    BY <2>1, <2>2
<1>3. Installed(m, v)
  <2>1. CASE k = 1
    BY <1>1, <1>2, <2>1, MadeFirst DEF Installed
  <2>2. CASE k # 1
    <3>1. k \in 2..34 /\ "schema" \in PrimeSchema \ {"right_types", "rights_type_fkey", "users_issuer_sub_key"}
      BY <2>2 DEF PrimeSchema
    <3>2. "schema" \in m
      BY <1>1, <3>1, Stays
    <3> QED
      BY <1>1, <1>2, <3>2 DEF Installed
  <2> QED
    BY <2>1, <2>2
<1>4. "role_service_schema" \in m \ run_db_init[k].undo
  <2>1. "role_service_schema" \in Outside
    BY DEF Outside
  <2> QED
    BY <1>1, <2>1, DropsWithin
<1>5. CASE k \notin {1, 2}
  <2>1. m \ run_db_init[k].undo = m
    BY <1>5, InitSets
  <2> QED
    BY <1>3, <2>1
<1>6. CASE k \in {1, 2}
  <2>1. (m \ run_db_init[k].undo) \cap Objects = {}
    <3>1. CASE k = 1
      BY <1>1, <3>1, MadeFirst
    <3>2. CASE k = 2
      <4>1. MadeBefore(2) = (MadeBefore(1) \ run_db_init[1].drops) \cup run_db_init[1].makes
        <5>1. MadeBefore(1 + 1) = (MadeBefore(1) \ run_db_init[1].drops) \cup run_db_init[1].makes /\ 1 + 1 = 2
          BY MadeNext
        <5> QED
          BY <5>1
      <4>2. run_db_init[1].makes = PrimeSchema
        BY InitTable DEF Is
      <4>3. MadeBefore(2) \subseteq run_db_init[2].undo
        BY <4>1, <4>2, MadeFirst, InitSets
      <4> QED
        BY <1>1, <3>2, <4>3
    <3> QED
      BY <1>6, <3>1, <3>2
  <2>2. "schema" \notin m \ run_db_init[k].undo
    BY <2>1, ObjectsAre
  <2> QED
    BY <1>3, <1>4, <2>1, <2>2 DEF Installed
<1> QED
  BY <1>3, <1>5, <1>6

(* A call of the initialisation that succeeds.                             *)
LEMMA InitGoesOn ==
    ASSUME NEW k \in 1..33, NEW m, NEW v, NEW w, InitAt(k, m, v),
           \A t \in {"schema", "data"} :
               w[t] = IF t \in DOMAIN run_db_init[k].sets THEN run_db_init[k].sets[t] ELSE v[t]
    PROVE  LET n == (m \ run_db_init[k].drops) \cup run_db_init[k].makes
           IN  /\ m \cap Outside \subseteq n
               /\ k # 33 => InitAt(k + 1, n, w)
               /\ k = 33 => Complete(n, w) /\ "schema" \in n /\ Installed(n, w)
<1> DEFINE n == (m \ run_db_init[k].drops) \cup run_db_init[k].makes
<1>1. "role_service_schema" \in m /\ m \cap Objects = MadeBefore(k)
  BY DEF InitAt
<1>2. m \cap Outside \subseteq n
  BY DropsWithin
<1>3. n \cap Objects = MadeBefore(k + 1)
  <2>1. MadeBefore(k + 1) = (MadeBefore(k) \ run_db_init[k].drops) \cup run_db_init[k].makes
    BY MadeNext
  <2> QED
    BY <1>1, <2>1, ObjectsAre
<1>4. "role_service_schema" \in n
  BY <1>1, <1>2 DEF Outside
<1>5. CASE k # 33
  <2>1. k + 1 > 6 => w["data"] = None4
    <3>1. CASE k > 6
      <4>1. v["data"] = None4 /\ (k = 32 \/ k \notin {6, 32, 33})
        BY <1>5, <3>1 DEF InitAt
      <4>2. "data" \notin DOMAIN run_db_init[k].sets
        BY <4>1, InitSets
      <4> QED
        BY <4>1, <4>2
    <3>2. CASE k = 6
      BY <3>2, InitSets
    <3>3. CASE k < 6
      BY <3>3
    <3> QED
      BY <3>1, <3>2, <3>3
  <2>2. k + 1 > 32 => w["schema"] = V2
    <3>1. k + 1 > 32 => k = 32
      BY <1>5
    <3> QED
      BY <3>1, InitSets
  <2> QED
    BY <1>2, <1>3, <1>4, <1>5, <2>1, <2>2 DEF InitAt
<1>6. CASE k = 33
  <2>1. w["data"] = V2 /\ w["schema"] = V2
    <3>1. v["schema"] = V2 /\ "schema" \notin DOMAIN run_db_init[k].sets
      BY <1>6, InitSets DEF InitAt
    <3> QED
      BY <1>6, <3>1, InitSets
  <2>2. MadeBefore(34) \subseteq n
    <3>1. k + 1 = 34
      BY <1>6
    <3> QED
      BY <1>3, <3>1
  <2>3. Len(run_db_init) + 1 = 34
    BY InitTable
  <2>4. V2 # V31
    BY DEF V2, V31
  <2>5. Complete(n, w)
    BY <2>1, <2>2, <2>3, <2>4 DEF Complete
  <2>6. "schema" \in n
    <3>1. 34 \in 2..34 /\ "schema" \in PrimeSchema \ {"right_types", "rights_type_fkey", "users_issuer_sub_key"}
      BY DEF PrimeSchema
    <3> QED
      BY <2>2, <3>1, Stays
  <2> QED
    BY <1>2, <1>4, <1>6, <2>5, <2>6 DEF Installed
<1> QED
  BY <1>2, <1>5, <1>6

(* A call outside the initialisation.                                      *)
LEMMA OtherMakes ==
    ASSUME NEW m, NEW v, NEW w, NEW X, X \cap Objects = {}, w["schema"] = v["schema"], w["data"] = v["data"]
    PROVE  /\ Installed(m, v) => Installed(m \cup X, w)
           /\ Complete(m, v) => Complete(m \cup X, w)
<1>1. Complete(m, v) => Complete(m \cup X, w)
  BY DEF Complete
<1>2. ASSUME Installed(m, v) PROVE Installed(m \cup X, w)
  <2>1. "schema" \notin X /\ "migration_type" \notin X
    BY ObjectsAre
  <2>2. Refused(m, v) => Refused(m \cup X, w)
    BY <2>1 DEF Refused
  <2> QED
    BY <1>1, <1>2, <2>1, <2>2 DEF Installed
<1> QED
  BY <1>1, <1>2

-----------------------------------------------------------------------------
(* The other calls.                                                        *)
Plain(c, needs, makes) == Is(c, needs, {}, makes, {}) /\ DOMAIN c.sets = {} /\ c.undo = {}

Setting(c, type, v) ==
    /\ Is(c, {"migration_type"}, {}, {}, {}) /\ c.undo = {}
    /\ DOMAIN c.sets = {type} /\ c.sets[type] = v

Loader(c, what, needs) == c.kind = "load" /\ c.what = what /\ c.needs = needs /\ c.forbids = {}

(* What the calls outside the initialisation need and make.                *)
LEMMA OtherCalls ==
    /\ Plain(ensure_user, {"role_service_schema"}, {"gs_user"})
    /\ Plain(ensure_proxy_base_url, {"gs_user"}, {"proxy_base_url"})
    /\ Plain(ensure_srs_lists, {"gs_user"}, {"srs_lists"})
    /\ Plain(Call({}, {}, {}, {}), {}, {})
    /\ \A u : Plain(migrate_metadata_urls(u), {"schema"}, {u})
    /\ Plain(ensure_output_srs_for_all, {"style_type", "srs_lists"}, {"qgis_srs"})
    /\ Plain(ensure_srid_definitions, {}, {"srid_definitions"})
    /\ \A t, v : Setting(Sets(t, v), t, v)
    /\ Loader(import_uuids_to_redis, "uuids", {"publications", "geodata_type", "wfs_wms_status"})
    /\ Loader(import_authn_to_redis, "authn", {"users", "workspaces"})
    /\ Loader(set_after_restart, "statuses", {"wfs_wms_status"})
    /\ Loader(validate_role_service, "roles", {"role_service_schema", "layman_users_roles"})
<1> USE DEF Plain, Is, Call
<1>1. /\ Plain(ensure_user, {"role_service_schema"}, {"gs_user"})
      /\ Plain(ensure_proxy_base_url, {"gs_user"}, {"proxy_base_url"})
      /\ Plain(ensure_srs_lists, {"gs_user"}, {"srs_lists"})
      /\ Plain(Call({}, {}, {}, {}), {}, {})
  BY DEF ensure_user, ensure_proxy_base_url, ensure_srs_lists
<1>2. /\ \A u : Plain(migrate_metadata_urls(u), {"schema"}, {u})
      /\ Plain(ensure_output_srs_for_all, {"style_type", "srs_lists"}, {"qgis_srs"})
      /\ Plain(ensure_srid_definitions, {}, {"srid_definitions"})
  BY DEF migrate_metadata_urls, ensure_output_srs_for_all, ensure_srid_definitions
<1>3. \A t, v : Setting(Sets(t, v), t, v)
  BY DEF Setting, Sets, set_current_migration_version
<1>4. /\ Loader(import_uuids_to_redis, "uuids", {"publications", "geodata_type", "wfs_wms_status"})
      /\ Loader(import_authn_to_redis, "authn", {"users", "workspaces"})
      /\ Loader(set_after_restart, "statuses", {"wfs_wms_status"})
      /\ Loader(validate_role_service, "roles", {"role_service_schema", "layman_users_roles"})
  BY DEF Loader, Load, import_uuids_to_redis, import_authn_to_redis, set_after_restart, validate_role_service
<1> QED
  BY <1>1, <1>2, <1>3, <1>4

(* What a call is ready for.                                               *)
LEMMA ReadyFor ==
    ASSUME NEW c
    PROVE  /\ c.kind \in {"call", "load"} => (Ready(c) <=> c.needs \subseteq made /\ c.forbids \cap made = {})
           /\ c.kind \in {"is_new_installation", "run_migrations"} => Ready(c)
           /\ c.kind = "final_version" => (Ready(c) <=> version[c.type] = get_max_data_version(c.type))
           /\ c.kind = "check_version_upgradeability" =>
                  (Ready(c) => "migration_type" \in made /\ ~Later(V2, version["data"]))
<1>1. c.kind = "check_version_upgradeability" =>
          (Ready(c) => "migration_type" \in made /\ ~Later(V2, version["data"]))
  BY MigrationsAre DEF Ready, Known
<1> QED
  BY <1>1 DEF Ready

(* What a step does to what is left, when c is the first call of it.       *)
LEMMA DoesFirst ==
    ASSUME NEW p \in Processes, NEW c, NEW t, IsSeq(t), DOMAIN todo = Processes,
           todo[p] = <<c>> \o t, Does(p)
    PROVE  /\ Ready(c)
           /\ todo'[p] = (CASE c.kind = "is_new_installation" /\ "schema" \notin made -> run_db_init
                            [] c.kind = "run_migrations" -> PendingMigrations(c.type)
                            [] OTHER -> <<>>) \o t
           /\ made' = IF c.kind = "call" THEN (made \ c.drops) \cup c.makes ELSE made
           /\ version' = IF c.kind = "call"
                         THEN [s \in {"schema", "data"} |-> IF s \in DOMAIN c.sets THEN c.sets[s] ELSE version[s]]
                         ELSE version
           /\ loaded' = IF c.kind = "load" THEN loaded \cup {c.what} ELSE loaded
<1>1. Head(todo[p]) = c /\ Tail(todo[p]) = t
  BY First
<1>2. todo' = [todo EXCEPT ![p] =
                 (CASE c.kind = "is_new_installation" /\ "schema" \notin made -> run_db_init
                    [] c.kind = "run_migrations" -> PendingMigrations(c.type)
                    [] OTHER -> <<>>) \o Tail(@)]
  BY <1>1 DEF Does
<1>3. todo'[p] = (CASE c.kind = "is_new_installation" /\ "schema" \notin made -> run_db_init
                    [] c.kind = "run_migrations" -> PendingMigrations(c.type)
                    [] OTHER -> <<>>) \o Tail(todo[p])
  BY <1>2
<1> QED
  BY <1>1, <1>3 DEF Does

LEMMA DoesPlain ==
    ASSUME NEW p \in Processes, NEW c, NEW t, IsSeq(t), DOMAIN todo = Processes,
           todo[p] = <<c>> \o t, Does(p), NEW needs, NEW makes, Plain(c, needs, makes)
    PROVE  /\ todo'[p] = t /\ made' = made \cup makes /\ loaded' = loaded
           /\ version'["schema"] = version["schema"] /\ version'["data"] = version["data"]
<1>1. c.kind = "call" /\ c.drops = {} /\ c.makes = makes /\ DOMAIN c.sets = {}
  BY DEF Plain, Is
<1>2. todo'[p] = <<>> \o t
  BY <1>1, DoesFirst
<1>3. made' = made \cup makes /\ loaded' = loaded /\ version' = [s \in {"schema", "data"} |-> version[s]]
  BY <1>1, DoesFirst
<1> QED
  BY <1>2, <1>3, Joined

LEMMA DoesSet ==
    ASSUME NEW p \in Processes, NEW c, NEW t, IsSeq(t), DOMAIN todo = Processes,
           todo[p] = <<c>> \o t, Does(p), NEW type \in {"schema", "data"}, NEW v, Setting(c, type, v)
    PROVE  /\ todo'[p] = t /\ made' = made /\ loaded' = loaded
           /\ version'[type] = v
           /\ \A s \in {"schema", "data"} : s # type => version'[s] = version[s]
<1>1. c.kind = "call" /\ c.drops = {} /\ c.makes = {} /\ DOMAIN c.sets = {type} /\ c.sets[type] = v
  BY DEF Setting, Is
<1>2. todo'[p] = <<>> \o t
  BY <1>1, DoesFirst
<1>3. made' = made /\ loaded' = loaded
  BY <1>1, DoesFirst
<1>4. version' = [s \in {"schema", "data"} |-> IF s \in {type} THEN c.sets[s] ELSE version[s]]
  BY <1>1, DoesFirst
<1> QED
  BY <1>1, <1>2, <1>3, <1>4, Joined

LEMMA DoesLoad ==
    ASSUME NEW p \in Processes, NEW c, NEW t, IsSeq(t), DOMAIN todo = Processes,
           todo[p] = <<c>> \o t, Does(p), NEW what, NEW needs, Loader(c, what, needs)
    PROVE  todo'[p] = t /\ made' = made /\ version' = version /\ loaded' = loaded \cup {what}
<1>1. c.kind = "load" /\ c.what = what
  BY DEF Loader
<1>2. todo'[p] = <<>> \o t
  BY <1>1, DoesFirst
<1> QED
  BY <1>1, <1>2, DoesFirst, Joined

LEMMA DoesCheck ==
    ASSUME NEW p \in Processes, NEW c, NEW t, IsSeq(t), DOMAIN todo = Processes,
           todo[p] = <<c>> \o t, Does(p), c.kind \in {"check_version_upgradeability", "final_version"}
    PROVE  todo'[p] = t /\ made' = made /\ version' = version /\ loaded' = loaded
<1>1. todo'[p] = <<>> \o t
  BY DoesFirst
<1> QED
  BY <1>1, DoesFirst, Joined

-----------------------------------------------------------------------------
(* What is left of the upgrade, step by step.                              *)
Onward(p, t, m, v, l) ==
    /\ "gs_user" \in m /\ Installed(m, v)
    /\ \/ Upgrading(p, t, m, v)
       \/ p # Upgrader /\ Loading(t, m, v, l)
       \/ p = Upgrader /\ t = <<>>

(* is_new_installation: the initialisation comes next, or the check.       *)
LEMMA FindsWhetherNew ==
    ASSUME NEW p \in Processes, DOMAIN todo = Processes, Does(p),
           Upgrading(p, todo[p], made, version), Installed(made, version), todo[p] = FromNew(p)
    PROVE  Onward(p, todo'[p], made', version', loaded')
<1> DEFINE c == [kind |-> "is_new_installation"]
           t == FromCheck(p)
<1>1. todo[p] = <<c>> \o t /\ IsSeq(t) /\ c.kind = "is_new_installation"
  BY StepsOfUpgrade DEF FromNew
<1>2. "gs_user" \in made /\ (p # Upgrader => Server \subseteq made)
  BY DEF Upgrading
<1> HIDE DEF c, t
<1>3. made' = made /\ version' = version
  BY <1>1, DoesFirst
<1>4. CASE "schema" \in made
  <2>1. todo'[p] = <<>> \o t
    BY <1>1, <1>4, DoesFirst
  <2>2. todo'[p] = FromCheck(p)
    BY <1>1, <2>1, Joined DEF t
  <2> QED
    BY <1>2, <1>3, <1>4, <2>2 DEF Onward, Upgrading
<1>5. CASE "schema" \notin made
  <2>1. todo'[p] = run_db_init \o t
    BY <1>1, <1>5, DoesFirst
  <2>2. todo'[p] = FromInit(1, p)
    BY <2>1, StepsOfInit DEF t
  <2>3. InitAt(1, made, version)
    BY <1>5, MadeFirst DEF Installed, InitAt
  <2>4. 1 \in 1..Len(run_db_init)
    BY InitTable
  <2>5. \E k \in 1..Len(run_db_init) : todo'[p] = FromInit(k, p) /\ InitAt(k, made', version')
    BY <1>3, <2>2, <2>3, <2>4
  <2> QED
    BY <1>2, <1>3, <2>5 DEF Onward, Upgrading
<1> QED
  BY <1>4, <1>5

(* A call of the initialisation: the next one comes, or the check.         *)
LEMMA Initialises ==
    ASSUME NEW p \in Processes, DOMAIN todo = Processes, Does(p),
           Upgrading(p, todo[p], made, version),
           NEW k \in 1..33, todo[p] = FromInit(k, p), InitAt(k, made, version)
    PROVE  Onward(p, todo'[p], made', version', loaded')
<1> DEFINE c == run_db_init[k]
           t == FromInit(k + 1, p)
<1>1. todo[p] = <<c>> \o t /\ IsSeq(t) /\ c.kind = "call"
  BY StepsOfInit, InitWithin
<1>2. "gs_user" \in made /\ (p # Upgrader => Server \subseteq made) /\ Len(run_db_init) = 33
  BY InitTable DEF Upgrading
<1> HIDE DEF c, t
<1>3. todo'[p] = <<>> \o t
  BY <1>1, DoesFirst
<1>4. /\ made' = (made \ c.drops) \cup c.makes
      /\ version' = [s \in {"schema", "data"} |-> IF s \in DOMAIN c.sets THEN c.sets[s] ELSE version[s]]
  BY <1>1, DoesFirst
<1>5. \A s \in {"schema", "data"} :
          version'[s] = IF s \in DOMAIN run_db_init[k].sets THEN run_db_init[k].sets[s] ELSE version[s]
  BY <1>4 DEF c
<1>6. made' = (made \ run_db_init[k].drops) \cup run_db_init[k].makes
  BY <1>4 DEF c
<1>7. /\ made \cap Outside \subseteq made'
      /\ k # 33 => InitAt(k + 1, made', version')
      /\ k = 33 => Complete(made', version') /\ "schema" \in made' /\ Installed(made', version')
  BY <1>5, <1>6, InitGoesOn
<1>8. "gs_user" \in made' /\ (p # Upgrader => Server \subseteq made')
  BY <1>2, <1>7 DEF Outside, Server
<1>9. todo'[p] = FromInit(k + 1, p)
  BY <1>1, <1>3, Joined DEF t
<1>10. CASE k # 33
  <2>1. k + 1 \in 1..33
    BY <1>10
  <2>2. Installed(made', version')
    BY <1>7, <1>10, <2>1, InterruptedInit
  <2>3. \E i \in 1..Len(run_db_init) : todo'[p] = FromInit(i, p) /\ InitAt(i, made', version')
    BY <1>2, <1>7, <1>9, <1>10, <2>1
  <2> QED
    BY <1>8, <2>2, <2>3 DEF Onward, Upgrading
<1>11. CASE k = 33
  <2>1. todo'[p] = FromCheck(p)
    <3>1. k + 1 = 34
      BY <1>11
    <3> QED
      BY <1>9, <3>1, StepsOfInit
  <2> QED
    BY <1>7, <1>8, <1>11, <2>1 DEF Onward, Upgrading
<1> QED
  BY <1>10, <1>11

(* The check of the version lets a complete installation pass only.        *)
LEMMA Checks ==
    ASSUME NEW p \in Processes, DOMAIN todo = Processes, Does(p),
           Upgrading(p, todo[p], made, version), Installed(made, version), "schema" \in made,
           todo[p] = FromCheck(p)
    PROVE  Onward(p, todo'[p], made', version', loaded')
<1> DEFINE c == [kind |-> "check_version_upgradeability"]
           t == FromSchema(p)
<1>1. todo[p] = <<c>> \o t /\ IsSeq(t) /\ c.kind = "check_version_upgradeability"
  BY StepsOfUpgrade DEF FromCheck
<1>2. "gs_user" \in made /\ (p # Upgrader => Server \subseteq made)
  BY DEF Upgrading
<1> HIDE DEF c, t
<1>3. Ready(c)
  BY <1>1, DoesFirst
<1>4. "migration_type" \in made /\ ~Later(V2, version["data"])
  BY <1>1, <1>3, ReadyFor
<1>5. ~Refused(made, version)
  BY <1>4, VersionsLater DEF Refused
<1>6. Complete(made, version)
  BY <1>5 DEF Installed
<1>7. todo'[p] = t /\ made' = made /\ version' = version
  BY <1>1, DoesCheck
<1> QED
  BY <1>2, <1>6, <1>7 DEF Onward, Upgrading, t

(* run_migrations: what is pending is put in its place.                    *)
LEMMA Migrates ==
    ASSUME NEW p \in Processes, DOMAIN todo = Processes, Does(p),
           Upgrading(p, todo[p], made, version), Installed(made, version), Complete(made, version),
           \/ todo[p] = FromSchema(p)
           \/ version["schema"] = V3 /\ todo[p] = FromData(p)
    PROVE  Onward(p, todo'[p], made', version', loaded')
<1>1. "gs_user" \in made /\ (p # Upgrader => Server \subseteq made)
  BY DEF Upgrading
<1>2. V2 # V3 /\ V2 # V31 /\ V3 # V31
  BY DEF V2, V3, V31
<1>3. CASE todo[p] = FromSchema(p)
  <2> DEFINE c == Migrate("schema")
             t == FromData(p)
  <2>1. todo[p] = <<c>> \o t /\ IsSeq(t) /\ c.kind = "run_migrations" /\ c.type = "schema"
    BY <1>3, StepsOfUpgrade DEF FromSchema, Migrate
  <2> HIDE DEF c, t
  <2>2. todo'[p] = PendingMigrations("schema") \o t /\ made' = made /\ version' = version
    BY <2>1, DoesFirst
  <2>3. version["schema"] \in {V2, V3}
    BY DEF Complete
  <2>4. \/ version["schema"] = V2 /\ todo'[p] = FromNothing(p)
        \/ version["schema"] = V3 /\ todo'[p] = FromFinalSchema(p)
    BY <2>2, <2>3, PendingSchema DEF t
  <2> QED
    BY <1>1, <2>2, <2>4 DEF Onward, Upgrading
<1>4. CASE version["schema"] = V3 /\ todo[p] = FromData(p)
  <2> DEFINE c == Migrate("data")
             t == AfterUpgrade(p)
  <2>1. todo[p] = <<c>> \o t /\ IsSeq(t) /\ c.kind = "run_migrations" /\ c.type = "data"
    BY <1>4, StepsOfUpgrade DEF FromData, Migrate
  <2> HIDE DEF c, t
  <2>2. todo'[p] = PendingMigrations("data") \o t /\ made' = made /\ version' = version
    BY <2>1, DoesFirst
  <2>3. version["data"] \in {V2, V3, V31}
    BY DEF Complete
  <2>4. \/ version["data"] = V2 /\ todo'[p] = FromMap(p)
        \/ version["data"] = V3 /\ todo'[p] = FromLayer(p)
        \/ version["data"] = V31 /\ todo'[p] = FromFinalData(p)
    BY <2>2, <2>3, PendingData DEF t
  <2> QED
    BY <1>1, <1>4, <2>2, <2>4 DEF Onward, Upgrading, Migrated
<1> QED
  BY <1>3, <1>4

(* The record that a migration has run.                                    *)
LEMMA Recorded ==
    ASSUME NEW p \in Processes, DOMAIN todo = Processes, Does(p),
           Upgrading(p, todo[p], made, version), Installed(made, version), Complete(made, version),
           \/ todo[p] = FromSetSchema(p)
           \/ version["schema"] = V3 /\ version["data"] = V2 /\ "map_urls" \in made /\ todo[p] = FromSetMap(p)
           \/ version["schema"] = V3 /\ version["data"] = V3 /\ "layer_urls" \in made /\ todo[p] = FromSetLayer(p)
    PROVE  Onward(p, todo'[p], made', version', loaded')
<1>1. "gs_user" \in made /\ (p # Upgrader => Server \subseteq made)
  BY DEF Upgrading
<1>2. V2 # V3 /\ V2 # V31 /\ V3 # V31
  BY DEF V2, V3, V31
<1>3. CASE todo[p] = FromSetSchema(p)
  <2> DEFINE c == Sets("schema", V3)
             t == FromFinalSchema(p)
  <2>1. todo[p] = <<c>> \o t /\ IsSeq(t) /\ Setting(c, "schema", V3)
    BY <1>3, StepsOfUpgrade, OtherCalls DEF FromSetSchema
  <2> HIDE DEF c, t
  <2>2. todo'[p] = t /\ made' = made /\ version'["schema"] = V3 /\ version'["data"] = version["data"]
    BY <2>1, DoesSet
  <2>3. Complete(made', version') /\ Installed(made', version')
    BY <2>2 DEF Complete, Installed
  <2> QED
    BY <1>1, <2>2, <2>3 DEF Onward, Upgrading, t
<1>4. CASE version["schema"] = V3 /\ version["data"] = V2 /\ "map_urls" \in made /\ todo[p] = FromSetMap(p)
  <2> DEFINE c == Sets("data", V3)
             t == FromLayer(p)
  <2>1. todo[p] = <<c>> \o t /\ IsSeq(t) /\ Setting(c, "data", V3)
    BY <1>4, StepsOfUpgrade, OtherCalls DEF FromSetMap
  <2> HIDE DEF c, t
  <2>2. todo'[p] = t /\ made' = made /\ version'["data"] = V3 /\ version'["schema"] = version["schema"]
    BY <2>1, DoesSet
  <2>3. Complete(made', version') /\ Installed(made', version')
    BY <1>2, <1>4, <2>2 DEF Complete, Installed
  <2> QED
    BY <1>1, <1>4, <2>2, <2>3 DEF Onward, Upgrading, t
<1>5. CASE version["schema"] = V3 /\ version["data"] = V3 /\ "layer_urls" \in made /\ todo[p] = FromSetLayer(p)
  <2> DEFINE c == Sets("data", V31)
             t == FromFinalData(p)
  <2>1. todo[p] = <<c>> \o t /\ IsSeq(t) /\ Setting(c, "data", V31)
    BY <1>5, StepsOfUpgrade, OtherCalls DEF FromSetLayer
  <2> HIDE DEF c, t
  <2>2. todo'[p] = t /\ made' = made /\ version'["data"] = V31 /\ version'["schema"] = version["schema"]
    BY <2>1, DoesSet
  <2>3. Complete(made', version') /\ Installed(made', version')
    BY <1>2, <1>5, <2>2 DEF Complete, Installed
  <2> QED
    BY <1>1, <1>5, <2>2, <2>3 DEF Onward, Upgrading, Migrated, t
<1> QED
  BY <1>3, <1>4, <1>5

(* A migration itself.                                                     *)
LEMMA Patched ==
    ASSUME NEW p \in Processes, DOMAIN todo = Processes, Does(p),
           Upgrading(p, todo[p], made, version), Installed(made, version), Complete(made, version),
           \/ todo[p] = FromNothing(p)
           \/ version["schema"] = V3 /\ version["data"] = V2 /\ todo[p] = FromMap(p)
           \/ version["schema"] = V3 /\ version["data"] = V3 /\ todo[p] = FromLayer(p)
    PROVE  Onward(p, todo'[p], made', version', loaded')
<1>1. "gs_user" \in made /\ (p # Upgrader => Server \subseteq made)
  BY DEF Upgrading
<1>2. {} \cap Objects = {} /\ {"map_urls"} \cap Objects = {} /\ {"layer_urls"} \cap Objects = {}
  BY ObjectsAre DEF Outside
<1>3. CASE todo[p] = FromNothing(p)
  <2> DEFINE c == Call({}, {}, {}, {})
             t == FromSetSchema(p)
  <2>1. todo[p] = <<c>> \o t /\ IsSeq(t) /\ Plain(c, {}, {})
    BY <1>3, StepsOfUpgrade, OtherCalls DEF FromNothing
  <2> HIDE DEF c, t
  <2>2. /\ todo'[p] = t /\ made' = made \cup {}
        /\ version'["schema"] = version["schema"] /\ version'["data"] = version["data"]
    BY <2>1, DoesPlain
  <2>3. Complete(made', version') /\ Installed(made', version')
    BY <1>2, <2>2, OtherMakes
  <2> QED
    BY <1>1, <2>2, <2>3 DEF Onward, Upgrading, t
<1>4. CASE version["schema"] = V3 /\ version["data"] = V2 /\ todo[p] = FromMap(p)
  <2> DEFINE c == migrate_metadata_urls("map_urls")
             t == FromSetMap(p)
  <2>1. todo[p] = <<c>> \o t /\ IsSeq(t) /\ Plain(c, {"schema"}, {"map_urls"})
    BY <1>4, StepsOfUpgrade, OtherCalls DEF FromMap
  <2> HIDE DEF c, t
  <2>2. /\ todo'[p] = t /\ made' = made \cup {"map_urls"}
        /\ version'["schema"] = version["schema"] /\ version'["data"] = version["data"]
    BY <2>1, DoesPlain
  <2>3. Complete(made', version') /\ Installed(made', version')
    BY <1>2, <2>2, OtherMakes
  <2> QED
    BY <1>1, <1>4, <2>2, <2>3 DEF Onward, Upgrading, t
<1>5. CASE version["schema"] = V3 /\ version["data"] = V3 /\ todo[p] = FromLayer(p)
  <2> DEFINE c == migrate_metadata_urls("layer_urls")
             t == FromSetLayer(p)
  <2>1. todo[p] = <<c>> \o t /\ IsSeq(t) /\ Plain(c, {"schema"}, {"layer_urls"})
    BY <1>5, StepsOfUpgrade, OtherCalls DEF FromLayer
  <2> HIDE DEF c, t
  <2>2. /\ todo'[p] = t /\ made' = made \cup {"layer_urls"}
        /\ version'["schema"] = version["schema"] /\ version'["data"] = version["data"]
    BY <2>1, DoesPlain
  <2>3. Complete(made', version') /\ Installed(made', version')
    BY <1>2, <2>2, OtherMakes
  <2> QED
    BY <1>1, <1>5, <2>2, <2>3 DEF Onward, Upgrading, t
<1> QED
  BY <1>3, <1>4, <1>5

(* The assertion that the last version is reached.                         *)
LEMMA Asserted ==
    ASSUME NEW p \in Processes, DOMAIN todo = Processes, Does(p),
           Upgrading(p, todo[p], made, version), Installed(made, version), Complete(made, version),
           \/ version["schema"] = V3 /\ todo[p] = FromFinalSchema(p)
           \/ Migrated(version) /\ todo[p] = FromFinalData(p)
    PROVE  Onward(p, todo'[p], made', version', loaded')
<1>1. "gs_user" \in made /\ (p # Upgrader => Server \subseteq made)
  BY DEF Upgrading
<1>2. CASE version["schema"] = V3 /\ todo[p] = FromFinalSchema(p)
  <2> DEFINE c == Final("schema")
             t == FromData(p)
  <2>1. todo[p] = <<c>> \o t /\ IsSeq(t) /\ c.kind = "final_version"
    BY <1>2, StepsOfUpgrade DEF FromFinalSchema, Final
  <2> HIDE DEF c, t
  <2>2. todo'[p] = t /\ made' = made /\ version' = version
    BY <2>1, DoesCheck
  <2> QED
    BY <1>1, <1>2, <2>2 DEF Onward, Upgrading, t
<1>3. CASE Migrated(version) /\ todo[p] = FromFinalData(p)
  <2> DEFINE c == Final("data")
             t == AfterUpgrade(p)
  <2>1. todo[p] = <<c>> \o t /\ IsSeq(t) /\ c.kind = "final_version"
    BY <1>3, StepsOfUpgrade DEF FromFinalData, Final
  <2> HIDE DEF c, t
  <2>2. todo'[p] = t /\ made' = made /\ version' = version
    BY <2>1, DoesCheck
  <2>3. CASE p = Upgrader
    BY <1>1, <2>2, <2>3 DEF Onward, AfterUpgrade, t
  <2>4. CASE p # Upgrader
    <3>1. todo'[p] = LoadsFrom(1)
      BY <2>2, <2>4, StepsOfLoads DEF AfterUpgrade, t
    <3>2. 1 \in 1..(Len(Loads) + 1) /\ LoadedBy(1, loaded')
      BY LoadsAre DEF LoadedBy
    <3>3. Loading(todo'[p], made', version', loaded')
      BY <1>1, <1>3, <2>2, <2>4, <3>1, <3>2 DEF Loading
    <3> QED
      BY <1>1, <2>2, <2>4, <3>3 DEF Onward
  <2> QED
    BY <2>3, <2>4
<1> QED
  BY <1>2, <1>3

(* Every step of the upgrade leads to the next one, or to its end.         *)
LEMMA UpgradeGoesOn ==
    ASSUME NEW p \in Processes, DOMAIN todo = Processes, Does(p),
           Upgrading(p, todo[p], made, version), Installed(made, version)
    PROVE  Onward(p, todo'[p], made', version', loaded')
<1>1. CASE todo[p] = FromNew(p)
  BY <1>1, FindsWhetherNew
<1>2. ASSUME NEW k \in 1..Len(run_db_init), todo[p] = FromInit(k, p), InitAt(k, made, version)
      PROVE  Onward(p, todo'[p], made', version', loaded')
  <2>1. k \in 1..33
    BY InitTable
  <2> QED
    BY <1>2, <2>1, Initialises
<1>3. CASE todo[p] = FromCheck(p) /\ "schema" \in made
  BY <1>3, Checks
<1>4. CASE /\ Complete(made, version)
           /\ \/ todo[p] = FromSchema(p)
              \/ version["schema"] = V3 /\ todo[p] = FromData(p)
  BY <1>4, Migrates
<1>5. CASE /\ Complete(made, version)
           /\ \/ todo[p] = FromSetSchema(p)
              \/ version["schema"] = V3 /\ version["data"] = V2 /\ "map_urls" \in made /\ todo[p] = FromSetMap(p)
              \/ version["schema"] = V3 /\ version["data"] = V3 /\ "layer_urls" \in made /\ todo[p] = FromSetLayer(p)
  BY <1>5, Recorded
<1>6. CASE /\ Complete(made, version)
           /\ \/ todo[p] = FromNothing(p)
              \/ version["schema"] = V3 /\ version["data"] = V2 /\ todo[p] = FromMap(p)
              \/ version["schema"] = V3 /\ version["data"] = V3 /\ todo[p] = FromLayer(p)
  BY <1>6, Patched
<1>7. CASE /\ Complete(made, version)
           /\ \/ version["schema"] = V3 /\ todo[p] = FromFinalSchema(p)
              \/ Migrated(version) /\ todo[p] = FromFinalData(p)
  BY <1>7, Asserted
<1> QED
  BY <1>1, <1>2, <1>3, <1>4, <1>5, <1>6, <1>7 DEF Upgrading

-----------------------------------------------------------------------------
(* What is loaded after the upgrade, and what comes before it.             *)
LEMMA LoadsFind ==
    ASSUME NEW m, NEW v, Complete(m, v)
    PROVE  {"publications", "geodata_type", "wfs_wms_status", "users", "workspaces", "style_type",
            "layman_users_roles", "schema", "migration_type"} \subseteq m
<1>1. MadeBefore(34) \subseteq m
  <2>1. Len(run_db_init) + 1 = 34
    BY InitTable
  <2> QED
    BY <2>1 DEF Complete
<1>2. /\ 34 \in 2..34 /\ 34 \in 5..34 /\ 34 \in 7..34 /\ 34 \in 15..34 /\ 34 \in 16..34 /\ 34 \in 20..34
      /\ {"publications", "users", "workspaces", "schema"}
             \subseteq PrimeSchema \ {"right_types", "rights_type_fkey", "users_issuer_sub_key"}
  BY DEF PrimeSchema
<1>3. /\ {"publications", "users", "workspaces", "schema"} \subseteq MadeBefore(34)
      /\ "geodata_type" \in MadeBefore(34) /\ "wfs_wms_status" \in MadeBefore(34)
      /\ "style_type" \in MadeBefore(34) /\ "layman_users_roles" \in MadeBefore(34)
      /\ "migration_type" \in MadeBefore(34)
  BY <1>2, Stays
<1> QED
  BY <1>1, <1>3

(* The call of Loads at k, with what it loads.                             *)
LEMMA LoadsGoOn ==
    ASSUME NEW p \in Processes, DOMAIN todo = Processes, Does(p), p # Upgrader,
           Loading(todo[p], made, version, loaded), Installed(made, version)
    PROVE  Onward(p, todo'[p], made', version', loaded')
<1>1. Len(Loads) = 6 /\ Server \subseteq made /\ Complete(made, version) /\ Migrated(version)
  BY LoadsAre DEF Loading
<1>2. PICK k \in 1..7 : todo[p] = LoadsFrom(k) /\ LoadedBy(k, loaded)
  BY <1>1 DEF Loading
<1>3. k \in 1..6
  <2>1. todo[p] # <<>>
    BY DEF Does, Calls
  <2> QED
    BY <1>2, <2>1, StepsOfLoads
<1> DEFINE c == Loads[k]
           t == LoadsFrom(k + 1)
<1>4. todo[p] = <<c>> \o t /\ IsSeq(t)
  BY <1>2, <1>3, StepsOfLoads
<1>5. /\ k = 1 => Loader(c, "uuids", {"publications", "geodata_type", "wfs_wms_status"})
      /\ k = 2 => Loader(c, "authn", {"users", "workspaces"})
      /\ k = 3 => Plain(c, {"style_type", "srs_lists"}, {"qgis_srs"})
      /\ k = 4 => Plain(c, {}, {"srid_definitions"})
      /\ k = 5 => Loader(c, "statuses", {"wfs_wms_status"})
      /\ k = 6 => Loader(c, "roles", {"role_service_schema", "layman_users_roles"})
  BY LoadsAre, OtherCalls
<1> HIDE DEF c, t
<1>6. \E X \in {{}, {"qgis_srs"}, {"srid_definitions"}} :
          /\ todo'[p] = t /\ made' = made \cup X
          /\ version'["schema"] = version["schema"] /\ version'["data"] = version["data"]
          /\ LoadedBy(k + 1, loaded')
  <2>1. CASE k = 1
    <3>1. todo'[p] = t /\ made' = made /\ version' = version /\ loaded' = loaded \cup {"uuids"}
      BY <1>4, <1>5, <2>1, DoesLoad
    <3> QED
      BY <1>2, <2>1, <3>1 DEF LoadedBy
  <2>2. CASE k = 2
    <3>1. todo'[p] = t /\ made' = made /\ version' = version /\ loaded' = loaded \cup {"authn"}
      BY <1>4, <1>5, <2>2, DoesLoad
    <3> QED
      BY <1>2, <2>2, <3>1 DEF LoadedBy
  <2>3. CASE k = 3
    <3>1. /\ todo'[p] = t /\ made' = made \cup {"qgis_srs"} /\ loaded' = loaded
          /\ version'["schema"] = version["schema"] /\ version'["data"] = version["data"]
      BY <1>4, <1>5, <2>3, DoesPlain
    <3> QED
      BY <1>2, <2>3, <3>1 DEF LoadedBy
  <2>4. CASE k = 4
    <3>1. /\ todo'[p] = t /\ made' = made \cup {"srid_definitions"} /\ loaded' = loaded
          /\ version'["schema"] = version["schema"] /\ version'["data"] = version["data"]
      BY <1>4, <1>5, <2>4, DoesPlain
    <3> QED
      BY <1>2, <2>4, <3>1 DEF LoadedBy
  <2>5. CASE k = 5
    <3>1. todo'[p] = t /\ made' = made /\ version' = version /\ loaded' = loaded \cup {"statuses"}
      BY <1>4, <1>5, <2>5, DoesLoad
    <3> QED
      BY <1>2, <2>5, <3>1 DEF LoadedBy
  <2>6. CASE k = 6
    <3>1. todo'[p] = t /\ made' = made /\ version' = version /\ loaded' = loaded \cup {"roles"}
      BY <1>4, <1>5, <2>6, DoesLoad
    <3> QED
      BY <1>2, <2>6, <3>1 DEF LoadedBy
  <2> QED
    BY <1>3, <2>1, <2>2, <2>3, <2>4, <2>5, <2>6
<1>7. PICK X \in {{}, {"qgis_srs"}, {"srid_definitions"}} :
          /\ todo'[p] = t /\ made' = made \cup X
          /\ version'["schema"] = version["schema"] /\ version'["data"] = version["data"]
          /\ LoadedBy(k + 1, loaded')
  BY <1>6
<1>8. X \cap Objects = {}
  BY ObjectsAre DEF Outside
<1>9. Complete(made', version') /\ Installed(made', version')
  BY <1>1, <1>7, <1>8, OtherMakes
<1>10. Server \subseteq made' /\ Migrated(version') /\ "gs_user" \in made'
  BY <1>1, <1>7 DEF Migrated, Server
<1>11. k + 1 \in 1..(Len(Loads) + 1) /\ todo'[p] = LoadsFrom(k + 1)
  BY <1>1, <1>3, <1>7 DEF t
<1> QED
  BY <1>7, <1>9, <1>10, <1>11 DEF Onward, Loading

-----------------------------------------------------------------------------
(* The first call of what is left finds what it needs; if it raises, it    *)
(* leaves an installation that can be launched.                            *)
Sound(c) ==
    /\ c.kind = "check_version_upgradeability" \/ Ready(c)
    /\ c.kind = "call" => Installed(made \ c.undo, version) /\ c.undo \cap Outside = {}

Fine(q) == q # <<>> /\ Sound(Head(q))

(* A call that finds what it needs may be made, and may raise.             *)
LEMMA SoundPlain ==
    ASSUME NEW c, NEW needs, NEW makes, NEW type, NEW v, needs \subseteq made, Installed(made, version),
           \/ Plain(c, needs, makes)
           \/ Setting(c, type, v) /\ needs = {"migration_type"}
           \/ Loader(c, type, needs)
    PROVE  Sound(c)
<1>1. c.kind \in {"call", "load"} /\ c.needs = needs /\ c.forbids = {}
  BY DEF Plain, Setting, Loader, Is
<1>2. c.kind = "call" => c.undo = {}
  BY <1>1 DEF Plain, Setting, Loader, Is
<1>3. Ready(c)
  BY <1>1, ReadyFor
<1>4. made \ {} = made
  OBVIOUS
<1> QED
  BY <1>2, <1>3, <1>4 DEF Sound

LEMMA FineFirst ==
    ASSUME NEW c, NEW t, IsSeq(t), Sound(c)
    PROVE  Fine(<<c>> \o t)
  BY First DEF Fine

(* The calls of the initialisation may be made, and may raise.             *)
LEMMA InitFine ==
    ASSUME NEW p, NEW k \in 1..33, InitAt(k, made, version), "gs_user" \in made
    PROVE  Fine(FromInit(k, p))
<1> DEFINE c == run_db_init[k]
<1>1. FromInit(k, p) = <<c>> \o FromInit(k + 1, p) /\ IsSeq(FromInit(k + 1, p)) /\ c.kind = "call"
  BY StepsOfInit, InitWithin
<1>2. Installed(made \ c.undo, version) /\ c.undo \cap Outside = {}
  BY InterruptedInit, DropsWithin
<1>3. MadeBefore(k) = made \cap Objects /\ "role_service_schema" \in made
  BY DEF InitAt
<1>4. c.needs \subseteq made
  BY <1>3, InitFinds
<1>5. c.forbids \cap made = {}
  <2>1. c.forbids \subseteq Objects
    BY ObjectsAre
  <2>2. c.forbids \cap MadeBefore(k) = {}
    BY InitFinds
  <2> QED
    BY <1>3, <2>1, <2>2
<1> HIDE DEF c
<1>6. Sound(c)
  BY <1>1, <1>2, <1>4, <1>5, ReadyFor DEF Sound
<1> QED
  BY <1>1, <1>6, FineFirst

LEMMA SoundKinds ==
    ASSUME NEW c
    PROVE  /\ c.kind \in {"is_new_installation", "run_migrations", "check_version_upgradeability"} => Sound(c)
           /\ c.kind = "final_version" /\ version[c.type] = get_max_data_version(c.type) => Sound(c)
<1>1. c.kind \in {"is_new_installation", "run_migrations"} => Ready(c)
  BY ReadyFor
<1>2. c.kind = "final_version" /\ version[c.type] = get_max_data_version(c.type) => Ready(c)
  BY ReadyFor
<1> QED
  BY <1>1, <1>2 DEF Sound

(* Whatever comes next of the upgrade may be made, and may raise.          *)
LEMMA UpgradeFine ==
    ASSUME NEW p, Upgrading(p, todo[p], made, version), Installed(made, version)
    PROVE  Fine(todo[p])
<1>1. "gs_user" \in made
  BY DEF Upgrading
<1>2. CASE todo[p] \in {FromNew(p), FromCheck(p), FromSchema(p), FromData(p)}
  <2> DEFINE a == [kind |-> "is_new_installation"]
             b == [kind |-> "check_version_upgradeability"]
             c == Migrate("schema")
             d == Migrate("data")
  <2>1. Sound(a) /\ Sound(b) /\ Sound(c) /\ Sound(d)
    <3>1. a.kind = "is_new_installation" /\ b.kind = "check_version_upgradeability"
      OBVIOUS
    <3>2. c.kind = "run_migrations" /\ d.kind = "run_migrations"
      BY DEF Migrate
    <3> HIDE DEF a, b, c, d
    <3> QED
      BY <3>1, <3>2, SoundKinds
  <2>2. /\ FromNew(p) = <<a>> \o FromCheck(p) /\ FromCheck(p) = <<b>> \o FromSchema(p)
        /\ FromSchema(p) = <<c>> \o FromData(p) /\ FromData(p) = <<d>> \o AfterUpgrade(p)
    BY DEF FromNew, FromCheck, FromSchema, FromData
  <2> HIDE DEF a, b, c, d
  <2>3. Fine(FromNew(p)) /\ Fine(FromCheck(p))
    BY <2>1, <2>2, StepsOfUpgrade, FineFirst
  <2>4. Fine(FromSchema(p)) /\ Fine(FromData(p))
    BY <2>1, <2>2, StepsOfUpgrade, FineFirst
  <2> QED
    BY <1>2, <2>3, <2>4
<1>3. ASSUME NEW k \in 1..Len(run_db_init), todo[p] = FromInit(k, p), InitAt(k, made, version)
      PROVE  Fine(todo[p])
  <2>1. k \in 1..33
    BY InitTable
  <2> QED
    BY <1>1, <1>3, <2>1, InitFine
<1>4. CASE Complete(made, version) /\ todo[p] \in {FromSetSchema(p), FromSetMap(p), FromSetLayer(p)}
  <2> DEFINE a == Sets("schema", V3)
             b == Sets("data", V3)
             c == Sets("data", V31)
  <2>1. {"migration_type"} \subseteq made
    BY <1>4, LoadsFind
  <2>2. Setting(a, "schema", V3) /\ Setting(b, "data", V3) /\ Setting(c, "data", V31)
    BY OtherCalls
  <2>3. /\ FromSetSchema(p) = <<a>> \o FromFinalSchema(p) /\ FromSetMap(p) = <<b>> \o FromLayer(p)
        /\ FromSetLayer(p) = <<c>> \o FromFinalData(p)
    BY DEF FromSetSchema, FromSetMap, FromSetLayer
  <2> HIDE DEF a, b, c
  <2>4. Sound(a) /\ Sound(b) /\ Sound(c)
    <3>1. Sound(a)
      BY <2>1, <2>2, SoundPlain
    <3>2. Sound(b)
      BY <2>1, <2>2, SoundPlain
    <3>3. Sound(c)
      BY <2>1, <2>2, SoundPlain
    <3> QED
      BY <3>1, <3>2, <3>3
  <2>5. Fine(FromSetSchema(p)) /\ Fine(FromSetMap(p)) /\ Fine(FromSetLayer(p))
    BY <2>3, <2>4, StepsOfUpgrade, FineFirst
  <2> QED
    BY <1>4, <2>5
<1>5. CASE Complete(made, version) /\ todo[p] \in {FromNothing(p), FromMap(p), FromLayer(p)}
  <2> DEFINE a == Call({}, {}, {}, {})
             b == migrate_metadata_urls("map_urls")
             c == migrate_metadata_urls("layer_urls")
  <2>1. {} \subseteq made /\ {"schema"} \subseteq made
    BY <1>5, LoadsFind
  <2>2. Plain(a, {}, {}) /\ Plain(b, {"schema"}, {"map_urls"}) /\ Plain(c, {"schema"}, {"layer_urls"})
    BY OtherCalls
  <2>3. /\ FromNothing(p) = <<a>> \o FromSetSchema(p) /\ FromMap(p) = <<b>> \o FromSetMap(p)
        /\ FromLayer(p) = <<c>> \o FromSetLayer(p)
    BY DEF FromNothing, FromMap, FromLayer
  <2> HIDE DEF a, b, c
  <2>4. Sound(a) /\ Sound(b) /\ Sound(c)
    <3>1. Sound(a)
      BY <2>1, <2>2, SoundPlain
    <3>2. Sound(b)
      BY <2>1, <2>2, SoundPlain
    <3>3. Sound(c)
      BY <2>1, <2>2, SoundPlain
    <3> QED
      BY <3>1, <3>2, <3>3
  <2>5. Fine(FromNothing(p)) /\ Fine(FromMap(p)) /\ Fine(FromLayer(p))
    BY <2>3, <2>4, StepsOfUpgrade, FineFirst
  <2> QED
    BY <1>5, <2>5
<1>6. CASE version["schema"] = V3 /\ todo[p] = FromFinalSchema(p)
  <2> DEFINE c == Final("schema")
  <2>1. c.kind = "final_version" /\ version[c.type] = get_max_data_version(c.type)
    BY <1>6, MigrationsAre DEF Final
  <2>2. todo[p] = <<c>> \o FromData(p)
    BY <1>6 DEF FromFinalSchema
  <2> HIDE DEF c
  <2> QED
    BY <2>1, <2>2, SoundKinds, StepsOfUpgrade, FineFirst
<1>7. CASE Migrated(version) /\ todo[p] = FromFinalData(p)
  <2> DEFINE c == Final("data")
  <2>1. c.kind = "final_version" /\ version[c.type] = get_max_data_version(c.type)
    BY <1>7, MigrationsAre DEF Final, Migrated
  <2>2. todo[p] = <<c>> \o AfterUpgrade(p)
    BY <1>7 DEF FromFinalData
  <2> HIDE DEF c
  <2> QED
    BY <2>1, <2>2, SoundKinds, StepsOfUpgrade, FineFirst
<1> QED
  BY <1>2, <1>3, <1>4, <1>5, <1>6, <1>7 DEF Upgrading

(* What Redis is loaded from is there; after the last call all is loaded.  *)
LEMMA LoadsFine ==
    ASSUME NEW t, Loading(t, made, version, loaded), Installed(made, version)
    PROVE  IF t = <<>> THEN Served(made, version, loaded) ELSE Fine(t)
<1>1. Len(Loads) = 6 /\ Server \subseteq made /\ Complete(made, version) /\ Migrated(version)
  BY LoadsAre DEF Loading
<1>2. PICK k \in 1..7 : t = LoadsFrom(k) /\ LoadedBy(k, loaded)
  BY <1>1 DEF Loading
<1>3. CASE k = 7
  BY <1>1, <1>2, <1>3, StepsOfLoads DEF LoadedBy, Served
<1>4. CASE k \in 1..6
  <2> DEFINE c == Loads[k]
  <2>1. t = <<c>> \o LoadsFrom(k + 1) /\ IsSeq(LoadsFrom(k + 1))
    BY <1>2, <1>4, StepsOfLoads
  <2>2. /\ k = 1 => Loader(c, "uuids", {"publications", "geodata_type", "wfs_wms_status"})
        /\ k = 2 => Loader(c, "authn", {"users", "workspaces"})
        /\ k = 3 => Plain(c, {"style_type", "srs_lists"}, {"qgis_srs"})
        /\ k = 4 => Plain(c, {}, {"srid_definitions"})
        /\ k = 5 => Loader(c, "statuses", {"wfs_wms_status"})
        /\ k = 6 => Loader(c, "roles", {"role_service_schema", "layman_users_roles"})
    BY LoadsAre, OtherCalls
  <2> HIDE DEF c
  <2>3. /\ {"publications", "geodata_type", "wfs_wms_status"} \subseteq made
        /\ {"users", "workspaces"} \subseteq made /\ {"style_type", "srs_lists"} \subseteq made
        /\ {} \subseteq made /\ {"wfs_wms_status"} \subseteq made
        /\ {"role_service_schema", "layman_users_roles"} \subseteq made
    BY <1>1, LoadsFind DEF Server, Installed
  <2>4. Sound(c)
    <3>1. CASE k = 1
      BY <2>2, <2>3, <3>1, SoundPlain
    <3>2. CASE k = 2
      BY <2>2, <2>3, <3>2, SoundPlain
    <3>3. CASE k = 3
      BY <2>2, <2>3, <3>3, SoundPlain
    <3>4. CASE k = 4
      BY <2>2, <2>3, <3>4, SoundPlain
    <3>5. CASE k = 5
      BY <2>2, <2>3, <3>5, SoundPlain
    <3>6. CASE k = 6
      BY <2>2, <2>3, <3>6, SoundPlain
    <3> QED
      BY <1>4, <3>1, <3>2, <3>3, <3>4, <3>5, <3>6
  <2>5. Fine(t)
    BY <2>1, <2>4, FineFirst
  <2> QED
    BY <2>5 DEF Fine
<1> QED
  BY <1>3, <1>4

(* Before the upgrade: the user of Layman in GeoServer and its settings.   *)
LEMMA StepsOfPreparing ==
    ASSUME NEW p
    PROVE  /\ <<ensure_user, ensure_proxy_base_url>> = <<ensure_user>> \o <<ensure_proxy_base_url>>
           /\ <<ensure_proxy_base_url>> = <<ensure_proxy_base_url>> \o <<>>
           /\ IsSeq(<<>>) /\ IsSeq(<<ensure_proxy_base_url>>)
           /\ IsSeq(<<ensure_proxy_base_url>> \o (<<ensure_srs_lists>> \o FromNew(p)))
           /\ IsSeq(<<ensure_srs_lists>> \o FromNew(p)) /\ IsSeq(FromNew(p))
<1>1. IsSeq(FromNew(p)) /\ IsSeq(<<ensure_srs_lists>> \o FromNew(p))
  BY StepsOfUpgrade, First
<1>2. IsSeq(<<ensure_proxy_base_url>> \o (<<ensure_srs_lists>> \o FromNew(p)))
  BY <1>1, First
<1> DEFINE a == ensure_user
           b == ensure_proxy_base_url
<1> HIDE DEF a, b
<1>3. <<a, b>> = <<a>> \o <<b>> /\ IsSeq(<<>>)
  BY Listed
<1>4. IsSeq(<<b>>) /\ <<b>> = <<b>> \o <<>>
  <2> DEFINE r == <<b>>
  <2>1. IsSeq(r)
    BY Listed
  <2> HIDE DEF r
  <2>2. r = r \o <<>>
    BY <2>1, Joined
  <2> QED
    BY <2>1, <2>2 DEF r
<1> QED
  BY <1>1, <1>2, <1>3, <1>4 DEF a, b

(* One step of the preparation, c, which makes X, and then t.              *)
LEMMA PreparesOne ==
    ASSUME NEW p \in Processes, DOMAIN todo = Processes, Installed(made, version),
           NEW c, NEW t, IsSeq(t), todo[p] = <<c>> \o t, NEW needs, NEW X, Plain(c, needs, X),
           needs \subseteq made, X \subseteq Outside
    PROVE  /\ Fine(todo[p])
           /\ Does(p) => todo'[p] = t /\ made' = made \cup X /\ Installed(made', version')
<1>1. Fine(todo[p])
  <2>1. Sound(c)
    BY SoundPlain
  <2> QED
    BY <2>1, FineFirst
<1>2. ASSUME Does(p) PROVE todo'[p] = t /\ made' = made \cup X /\ Installed(made', version')
  <2>1. /\ todo'[p] = t /\ made' = made \cup X
        /\ version'["schema"] = version["schema"] /\ version'["data"] = version["data"]
    BY <1>2, DoesPlain
  <2>2. X \cap Objects = {}
    BY ObjectsAre
  <2> QED
    BY <2>1, <2>2, OtherMakes
<1> QED
  BY <1>1, <1>2

(* The calls before the upgrade find what they need, up to the upgrade.    *)
LEMMA PreparingGoesOn ==
    ASSUME NEW p \in Processes, DOMAIN todo = Processes, Installed(made, version), Preparing(p, todo[p], made)
    PROVE  /\ Fine(todo[p]) \/ (todo[p] = <<>> /\ p = Upgrader /\ "gs_user" \in made)
           /\ Does(p) => /\ Installed(made', version') /\ made \subseteq made'
                         /\ \/ Preparing(p, todo'[p], made')
                            \/ p # Upgrader /\ Upgrading(p, todo'[p], made', version')
<1>1. {"role_service_schema"} \subseteq made
  BY DEF Installed
<1>2. {"gs_user"} \subseteq Outside /\ {"proxy_base_url"} \subseteq Outside /\ {"srs_lists"} \subseteq Outside
  BY DEF Outside
<1>9. ASSUME NEW c, NEW t, IsSeq(t), todo[p] = <<c>> \o t, c = ensure_user
      PROVE  /\ Fine(todo[p])
             /\ Does(p) => todo'[p] = t /\ made' = made \cup {"gs_user"} /\ Installed(made', version')
  <2>1. Plain(c, {"role_service_schema"}, {"gs_user"})
    BY <1>9, OtherCalls
  <2> QED
    BY <1>1, <1>2, <1>9, <2>1, PreparesOne
<1>10. ASSUME NEW c, NEW t, IsSeq(t), todo[p] = <<c>> \o t, c = ensure_proxy_base_url, {"gs_user"} \subseteq made
       PROVE  /\ Fine(todo[p])
              /\ Does(p) => todo'[p] = t /\ made' = made \cup {"proxy_base_url"} /\ Installed(made', version')
  <2>1. Plain(c, {"gs_user"}, {"proxy_base_url"})
    BY <1>10, OtherCalls
  <2> QED
    BY <1>2, <1>10, <2>1, PreparesOne
<1>11. ASSUME NEW c, NEW t, IsSeq(t), todo[p] = <<c>> \o t, c = ensure_srs_lists, {"gs_user"} \subseteq made
       PROVE  /\ Fine(todo[p])
              /\ Does(p) => todo'[p] = t /\ made' = made \cup {"srs_lists"} /\ Installed(made', version')
  <2>1. Plain(c, {"gs_user"}, {"srs_lists"})
    BY <1>11, OtherCalls
  <2> QED
    BY <1>2, <1>11, <2>1, PreparesOne
<1>3. CASE p = Upgrader /\ todo[p] = <<ensure_user, ensure_proxy_base_url>>
  <2>1. todo[p] = <<ensure_user>> \o <<ensure_proxy_base_url>>
    BY <1>3, StepsOfPreparing
  <2> DEFINE t == <<ensure_proxy_base_url>>
  <2>2. IsSeq(t) /\ todo[p] = <<ensure_user>> \o t
    BY <2>1, StepsOfPreparing
  <2> HIDE DEF t
  <2>3. /\ Fine(todo[p])
        /\ Does(p) => todo'[p] = t /\ made' = made \cup {"gs_user"} /\ Installed(made', version')
    BY <1>9, <2>2
  <2> QED
    BY <1>3, <2>3 DEF Preparing, t
<1>4. CASE p = Upgrader /\ todo[p] = <<ensure_proxy_base_url>> /\ "gs_user" \in made
  <2>1. todo[p] = <<ensure_proxy_base_url>> \o <<>> /\ IsSeq(<<>>)
    BY <1>4, StepsOfPreparing
  <2>2. {"gs_user"} \subseteq made
    BY <1>4
  <2>3. /\ Fine(todo[p])
        /\ Does(p) => todo'[p] = <<>> /\ made' = made \cup {"proxy_base_url"} /\ Installed(made', version')
    BY <1>10, <2>1, <2>2
  <2> QED
    BY <1>4, <2>3 DEF Preparing
<1>5. CASE p = Upgrader /\ todo[p] = <<>> /\ "gs_user" \in made
  <2>1. ~Does(p)
    BY <1>5 DEF Does, Calls
  <2> QED
    BY <1>5, <2>1
<1>6. CASE p # Upgrader /\ todo[p] = <<ensure_user>> \o (<<ensure_proxy_base_url>> \o (<<ensure_srs_lists>> \o FromNew(p)))
  <2> DEFINE t == <<ensure_proxy_base_url>> \o (<<ensure_srs_lists>> \o FromNew(p))
  <2>1. todo[p] = <<ensure_user>> \o t /\ IsSeq(t)
    BY <1>6, StepsOfPreparing
  <2> HIDE DEF t
  <2>2. /\ Fine(todo[p])
        /\ Does(p) => todo'[p] = t /\ made' = made \cup {"gs_user"} /\ Installed(made', version')
    BY <1>9, <2>1
  <2> QED
    BY <1>6, <2>2 DEF Preparing, t
<1>7. CASE p # Upgrader /\ todo[p] = <<ensure_proxy_base_url>> \o (<<ensure_srs_lists>> \o FromNew(p)) /\ "gs_user" \in made
  <2> DEFINE t == <<ensure_srs_lists>> \o FromNew(p)
  <2>1. todo[p] = <<ensure_proxy_base_url>> \o t /\ IsSeq(t) /\ {"gs_user"} \subseteq made
    BY <1>7, StepsOfPreparing
  <2> HIDE DEF t
  <2>2. /\ Fine(todo[p])
        /\ Does(p) => todo'[p] = t /\ made' = made \cup {"proxy_base_url"} /\ Installed(made', version')
    BY <1>10, <2>1
  <2>3. Does(p) => {"gs_user", "proxy_base_url"} \subseteq made'
    BY <2>1, <2>2
  <2> QED
    BY <1>7, <2>2, <2>3 DEF Preparing, t
<1>8. CASE p # Upgrader /\ todo[p] = <<ensure_srs_lists>> \o FromNew(p) /\ {"gs_user", "proxy_base_url"} \subseteq made
  <2> DEFINE t == FromNew(p)
  <2>1. todo[p] = <<ensure_srs_lists>> \o t /\ IsSeq(t) /\ {"gs_user"} \subseteq made
    BY <1>8, StepsOfPreparing
  <2> HIDE DEF t
  <2>2. /\ Fine(todo[p])
        /\ Does(p) => todo'[p] = t /\ made' = made \cup {"srs_lists"} /\ Installed(made', version')
    BY <1>11, <2>1
  <2>3. Does(p) => Upgrading(p, todo'[p], made', version')
    <3>1. Does(p) => "gs_user" \in made' /\ Server \subseteq made' /\ todo'[p] = FromNew(p)
      BY <1>8, <2>2 DEF Server, t
    <3> QED
      BY <3>1 DEF Upgrading
  <2> QED
    BY <1>8, <2>2, <2>3
<1> QED
  BY <1>3, <1>4, <1>5, <1>6, <1>7, <1>8 DEF Preparing

-----------------------------------------------------------------------------
(* Each process that calls is at a step of Doing, and Doing goes on.       *)
LEMMA DoingFine ==
    ASSUME NEW p \in Processes, DOMAIN todo = Processes, Installed(made, version),
           Doing(p, pc[p], todo[p], made, version, loaded)
    PROVE  \/ Fine(todo[p])
           \/ /\ todo[p] = <<>>
              /\ \/ pc[p] = "upgrade" /\ p = Upgrader
                 \/ p = Upgrader /\ "gs_user" \in made
                 \/ p # Upgrader /\ Served(made, version, loaded)
<1>1. CASE Preparing(p, todo[p], made)
  BY <1>1, PreparingGoesOn
<1>2. CASE Upgrading(p, todo[p], made, version)
  BY <1>2, UpgradeFine
<1>3. CASE p # Upgrader /\ Loading(todo[p], made, version, loaded)
  BY <1>3, LoadsFine
<1> QED
  BY <1>1, <1>2, <1>3 DEF Doing

LEMMA DoingGoesOn ==
    ASSUME NEW p \in Processes, DOMAIN todo = Processes, Installed(made, version), Does(p),
           Doing(p, pc[p], todo[p], made, version, loaded)
    PROVE  /\ Doing(p, pc[p], todo'[p], made', version', loaded')
           /\ Installed(made', version') /\ ("gs_user" \in made => "gs_user" \in made')
<1>1. CASE pc[p] = "adjust" /\ Preparing(p, todo[p], made)
  BY <1>1, PreparingGoesOn DEF Doing
<1>2. CASE pc[p] = (IF p = Upgrader THEN "upgrade" ELSE "adjust") /\ Upgrading(p, todo[p], made, version)
  <2>1. Onward(p, todo'[p], made', version', loaded')
    BY <1>2, UpgradeGoesOn
  <2> QED
    BY <1>2, <2>1 DEF Onward, Doing
<1>3. CASE pc[p] = "adjust" /\ p # Upgrader /\ Loading(todo[p], made, version, loaded)
  <2>1. Onward(p, todo'[p], made', version', loaded')
    BY <1>3, LoadsGoOn
  <2> QED
    BY <1>3, <2>1 DEF Onward, Doing
<1>4. todo[p] # <<>>
  BY DEF Does, Calls
<1> QED
  BY <1>1, <1>2, <1>3, <1>4 DEF Doing

(* At most one process adjusts or upgrades.                                *)
LEMMA CallsAlone ==
    ASSUME Inv, StartInv, NEW p \in Processes, NEW q \in Processes,
           pc[p] \in {"adjust", "upgrade"}, pc[q] \in {"adjust", "upgrade"}
    PROVE  p = q
<1>1. pc[p] = "upgrade" => p = Upgrader
  BY DEF StartInv, OneMode, Processes
<1>2. pc[q] = "upgrade" => q = Upgrader
  BY DEF StartInv, OneMode, Processes
<1>3. pc[Upgrader] # "off" => \A r \in Flask \cup Celery : pc[r] = "off"
  BY DEF StartInv, OneMode
<1> QED
  BY <1>1, <1>2, <1>3 DEF Inv, AdjustsAlone, Processes

(* A process that neither claims nor calls moves to another place.         *)
LEMMA OneMoves ==
    ASSUME Inv, StartInv, NEW p \in Processes, NEW s, pc[p] # "off", pc' = [pc EXCEPT ![p] = s],
           deps' = deps, key' = key, made' = made, version' = version, loaded' = loaded,
           DOMAIN todo' = Processes, \A q \in Processes : q # p => todo'[q] = todo[q],
           s # "adjust", s = "up" => key = "done" /\ p # Upgrader,
           s = "upgrade" => p = Upgrader /\ Upgrading(p, todo'[p], made, version)
    PROVE  StartInv'
<1>1. pc \in [Processes -> Places] /\ Upgrader \in Processes
  BY DEF Inv, Processes
<1>2. \A q \in Processes : pc'[q] = IF q = p THEN s ELSE pc[q]
  BY <1>1
<1>3. deps.mode = "none"
  BY DEF StartInv, OneMode
<1>4. OneMode'
  <2>1. pc'[Upgrader] # "off" => \A q \in Flask \cup Celery : pc'[q] = "off"
    <3>1. CASE p = Upgrader
      <4>1. \A q \in Flask \cup Celery : q # p /\ q \in Processes /\ pc[q] = "off"
        BY <3>1, UpgraderApart DEF StartInv, OneMode, Processes
      <4> QED
        BY <1>2, <4>1
    <3>2. CASE p # Upgrader
      <4>1. pc[Upgrader] = "off"
        BY <3>2 DEF StartInv, OneMode, Processes
      <4> QED
        BY <1>1, <1>2, <3>2, <4>1
    <3> QED
      BY <3>1, <3>2
  <2>2. \A q \in Flask \cup Celery : pc'[q] # "upgrade"
    BY <1>2, UpgraderApart DEF StartInv, OneMode, Processes
  <2>3. pc'[Upgrader] # "up"
    BY <1>1, <1>2 DEF StartInv, OneMode
  <2> QED
    BY <1>3, <2>1, <2>2, <2>3 DEF OneMode
<1>5. KeyDone'
  <2>1. \A q \in Processes : pc'[q] = "up" => key = "done"
    BY <1>2 DEF StartInv, KeyDone
  <2>2. (\E q \in Flask \cup Celery : pc'[q] # "off") => (\E q \in Flask \cup Celery : pc[q] # "off")
    <3>1. CASE p \in Flask \cup Celery
      BY <3>1
    <3>2. CASE p \notin Flask \cup Celery
      BY <1>2, <3>2 DEF Processes
    <3> QED
      BY <3>1, <3>2
  <2> QED
    BY <2>1, <2>2 DEF StartInv, KeyDone
<1>6. Callers'
  <2>1. ASSUME NEW q \in Processes, pc'[q] \in {"adjust", "upgrade"}
        PROVE  Doing(q, pc'[q], todo'[q], made', version', loaded')
    <3>1. CASE q = p
      <4>1. pc'[q] = "upgrade" /\ p = Upgrader /\ Upgrading(p, todo'[p], made, version)
        BY <1>2, <2>1, <3>1
      <4> QED
        BY <3>1, <4>1 DEF Doing
    <3>2. CASE q # p
      <4>1. pc'[q] = pc[q] /\ todo'[q] = todo[q]
        BY <1>2, <3>2
      <4>2. Doing(q, pc[q], todo[q], made, version, loaded)
        BY <2>1, <4>1 DEF StartInv, Callers
      <4> QED
        BY <4>1, <4>2
    <3> QED
      BY <3>1, <3>2
  <2> QED
    BY <2>1 DEF Callers
<1> QED
  BY <1>4, <1>5, <1>6 DEF StartInv

LEMMA InitStartInv == InitStart => StartInv
<1> SUFFICES ASSUME InitStart PROVE StartInv
  OBVIOUS
<1>1. /\ key = "none" /\ pc = [p \in Processes |-> "off"] /\ todo = [p \in Processes |-> <<>>]
      /\ deps.mode = "none" /\ Upgrader \in Processes
  BY DEF InitStart, Processes
<1>2. "role_service_schema" \in made
  BY DEF InitStart, Installed2, setup_geoserver
<1>3. ASSUME release = "none" PROVE Installed(made, version)
  <2>1. made = {"role_service_schema"}
    BY <1>3 DEF InitStart, setup_geoserver
  <2>2. made \cap Objects = {} /\ "schema" \notin made
    BY <2>1, ObjectsAre DEF Outside
  <2> QED
    BY <1>2, <2>2 DEF Installed
<1>4. ASSUME release = "1.23" PROVE Installed(made, version)
  <2>1. version = [schema |-> <<1, 23, 0, 3>>, data |-> <<1, 23, 0, 0>>] /\ made = Installed2
    BY <1>4 DEF InitStart
  <2>2. Refused(made, version)
    BY <2>1 DEF Refused
  <2>3. "schema" \in made
    <3>1. 34 \in 2..34 /\ "schema" \in PrimeSchema \ {"right_types", "rights_type_fkey", "users_issuer_sub_key"}
      BY DEF PrimeSchema
    <3>2. "schema" \in MadeBefore(34) /\ Len(run_db_init) + 1 = 34
      BY <3>1, Stays, InitTable
    <3> QED
      BY <2>1, <3>2 DEF Installed2
  <2> QED
    BY <1>2, <2>2, <2>3 DEF Installed
<1>5. ASSUME release = "2.0" PROVE Installed(made, version)
  <2>1. version = MIN_UPGRADEABLE_VERSION /\ made = Installed2
    BY <1>5 DEF InitStart
  <2>2. version["schema"] = V2 /\ version["data"] = V2 /\ V2 # V31
    BY <2>1, MigrationsAre DEF V2, V31
  <2>3. Complete(made, version)
    BY <2>1, <2>2 DEF Complete, Installed2
  <2>4. "schema" \in made
    BY <2>3, LoadsFind
  <2> QED
    BY <1>2, <2>3, <2>4 DEF Installed
<1>6. release \in {"none", "1.23", "2.0"}
  BY DEF InitStart
<1>7. Installed(made, version)
  BY <1>3, <1>4, <1>5, <1>6
<1>8. DOMAIN todo = Processes /\ \A p \in Processes : pc[p] = "off"
  BY <1>1
<1>9. OneMode /\ KeyDone /\ Callers
  BY <1>1, <1>8 DEF OneMode, KeyDone, Callers, Processes
<1> QED
  BY <1>7, <1>8, <1>9 DEF StartInv

(* A launch forgets Redis and the processes, not what is installed.        *)
LEMMA LaunchesSound ==
    ASSUME Inv, StartInv,
           \/ \E mode \in {"server", "upgrade"} : Launch(mode)
           \/ ServiceAnswers \/ ServiceSilent \/ ServiceRefuses
    PROVE  StartInv'
<1>1. Upgrader \in Processes /\ Flask \cup Celery \subseteq Processes
  BY DEF Processes
<1>2. CASE \E mode \in {"server", "upgrade"} : Launch(mode)
  <2>1. /\ key' = "none" /\ DOMAIN todo' = Processes /\ \A p \in Processes : pc'[p] = "off"
        /\ made' = made /\ version' = version
    BY <1>2 DEF Launch
  <2>2. OneMode' /\ KeyDone' /\ Callers'
    BY <1>1, <2>1 DEF OneMode, KeyDone, Callers
  <2> QED
    BY <2>1, <2>2 DEF StartInv
<1>3. CASE ServiceSilent \/ ServiceRefuses
  <2>1. key = "none" /\ \A p \in Processes : pc[p] = "off"
    BY <1>3 DEF ServiceSilent, ServiceRefuses, StartInv, OneMode
  <2>2. UNCHANGED <<key, pc, todo, made, version, loaded>>
    BY <1>3 DEF ServiceSilent, ServiceRefuses
  <2>3. OneMode' /\ KeyDone' /\ Callers'
    BY <1>1, <2>1, <2>2 DEF OneMode, KeyDone, Callers
  <2> QED
    BY <2>2, <2>3 DEF StartInv
<1>4. CASE ServiceAnswers
  <2>1. key = "none" /\ \A p \in Processes : pc[p] = "off"
    BY <1>4 DEF ServiceAnswers, StartInv, OneMode
  <2>2. UNCHANGED <<key, todo, made, version, loaded>>
    BY <1>4 DEF ServiceAnswers
  <2>3. CASE deps.at < Len(Services)
    <3>1. pc' = pc
      BY <1>4, <2>3 DEF ServiceAnswers
    <3>2. OneMode' /\ KeyDone' /\ Callers'
      BY <1>1, <2>1, <2>2, <3>1 DEF OneMode, KeyDone, Callers
    <3> QED
      BY <2>2, <3>2 DEF StartInv
  <2>4. CASE ~(deps.at < Len(Services))
    <3>1. /\ deps'.mode = "none"
          /\ pc' = [p \in Processes |-> CASE p \in Flask  /\ deps.mode = "server"  -> "import"
                                         [] p \in Celery /\ deps.mode = "server"  -> "wait_for_layman"
                                         [] p = Upgrader /\ deps.mode = "upgrade" -> "import"
                                         [] OTHER -> "off"]
      BY <1>4, <2>4 DEF ServiceAnswers
    <3>2. \A p \in Processes : pc'[p] \in {"import", "wait_for_layman", "off"}
      BY <3>1
    <3>3. pc'[Upgrader] # "off" => deps.mode = "upgrade"
      BY <1>1, <3>1, UpgraderApart
    <3>4. \A p \in Flask \cup Celery : pc'[p] # "off" => deps.mode = "server"
      BY <1>1, <3>1, UpgraderApart
    <3>5. OneMode'
      BY <1>1, <3>1, <3>2, <3>3, <3>4 DEF OneMode
    <3>6. KeyDone' /\ Callers'
      BY <2>1, <2>2, <3>2 DEF KeyDone, Callers
    <3> QED
      BY <2>2, <3>5, <3>6 DEF StartInv
  <2> QED
    BY <2>3, <2>4
<1> QED
  BY <1>2, <1>3, <1>4

(* The elected process begins with what earlier launches left.             *)
LEMMA ClaimSound ==
    ASSUME Inv, StartInv, NEW p \in Processes, Claim(p), p \notin written
    PROVE  StartInv'
<1>1. /\ pc[p] = "claim" /\ key' = "processing" /\ pc' = [pc EXCEPT ![p] = "adjust"]
      /\ todo' = [todo EXCEPT ![p] = Adjustment(p)] /\ UNCHANGED <<made, version, loaded, deps>>
  BY DEF Claim
<1>2. pc \in [Processes -> Places] /\ DOMAIN todo = Processes /\ key = "none"
  BY <1>1 DEF Inv, Unwritten, StartInv
<1>3. \A q \in Processes : /\ pc'[q] = IF q = p THEN "adjust" ELSE pc[q]
                           /\ todo'[q] = IF q = p THEN Adjustment(p) ELSE todo[q]
  BY <1>1, <1>2
<1>4. \A q \in Processes : pc[q] \notin {"up", "adjust"}
  BY <1>2 DEF StartInv, KeyDone, Inv, KeyTells
<1>5. OneMode'
  <2>1. deps.mode = "none"
    BY <1>1 DEF StartInv, OneMode
  <2>2. \A q \in Processes : pc'[q] # "off" => pc[q] # "off"
    BY <1>1, <1>3
  <2>3. \A q \in Processes : pc'[q] \in {"up", "upgrade"} => pc'[q] = pc[q]
    BY <1>3
  <2> QED
    BY <1>1, <2>1, <2>2, <2>3 DEF StartInv, OneMode, Processes
<1>6. KeyDone'
  BY <1>1, <1>3, <1>4 DEF KeyDone
<1>7. Callers'
  <2>1. ASSUME NEW q \in Processes, pc'[q] \in {"adjust", "upgrade"}
        PROVE  Doing(q, pc'[q], todo'[q], made', version', loaded')
    <3>1. CASE q = p
      <4>1. pc'[q] = "adjust" /\ todo'[q] = Adjustment(p) /\ Preparing(p, Adjustment(p), made)
        BY <1>3, <3>1, StepsOfAdjustment DEF Preparing
      <4> QED
        BY <1>1, <3>1, <4>1 DEF Doing
    <3>2. CASE q # p
      <4>1. pc'[q] = pc[q] /\ todo'[q] = todo[q]
        BY <1>3, <3>2
      <4>2. Doing(q, pc[q], todo[q], made, version, loaded)
        BY <2>1, <4>1 DEF StartInv, Callers
      <4> QED
        BY <1>1, <4>1, <4>2
    <3> QED
      BY <3>1, <3>2
  <2> QED
    BY <2>1 DEF Callers
<1> QED
  BY <1>1, <1>2, <1>5, <1>6, <1>7 DEF StartInv

(* The key says done when everything is done.                              *)
LEMMA DoneSound ==
    ASSUME Inv, StartInv, NEW p \in Processes, Done(p)
    PROVE  StartInv'
<1>1. /\ pc[p] = "adjust" /\ todo[p] = <<>> /\ key' = "done"
      /\ pc' = [pc EXCEPT ![p] = IF p = Upgrader THEN "upgrade" ELSE "up"]
      /\ todo' = [todo EXCEPT ![p] = IF p = Upgrader THEN upgrade ELSE <<>>]
      /\ UNCHANGED <<made, version, loaded, deps>>
  BY DEF Done
<1>2. pc \in [Processes -> Places] /\ DOMAIN todo = Processes /\ Installed(made, version)
  BY DEF Inv, StartInv
<1>3. \A q \in Processes :
          /\ pc'[q] = IF q # p THEN pc[q] ELSE IF p = Upgrader THEN "upgrade" ELSE "up"
          /\ todo'[q] = IF q # p THEN todo[q] ELSE IF p = Upgrader THEN upgrade ELSE <<>>
  BY <1>1, <1>2
<1>4. \/ p = Upgrader /\ "gs_user" \in made
      \/ p # Upgrader /\ Served(made, version, loaded)
  <2>1. Doing(p, pc[p], todo[p], made, version, loaded)
    BY <1>1 DEF StartInv, Callers
  <2>2. ~Fine(todo[p])
    BY <1>1 DEF Fine
  <2> QED
    BY <1>1, <1>2, <2>1, <2>2, DoingFine
<1>5. OneMode'
  <2>1. deps.mode = "none"
    BY <1>1 DEF StartInv, OneMode
  <2>2. \A q \in Processes : pc'[q] # "off" => pc[q] # "off"
    BY <1>1, <1>3
  <2>3. \A q \in Flask \cup Celery : pc'[q] # "upgrade"
    BY <1>3, UpgraderApart DEF StartInv, OneMode, Processes
  <2>4. pc'[Upgrader] # "up"
    BY <1>3 DEF StartInv, OneMode, Processes
  <2> QED
    BY <1>1, <2>1, <2>2, <2>3, <2>4 DEF StartInv, OneMode, Processes
<1>6. KeyDone'
  <2>1. "gs_user" \in made
    BY <1>4 DEF Served, Server
  <2>2. (\E q \in Flask \cup Celery : pc'[q] # "off") => Served(made, version, loaded)
    <3>1. CASE p = Upgrader
      <4>1. pc[Upgrader] # "off"
        BY <1>1, <3>1
      <4>2. \A q \in Flask \cup Celery : pc[q] = "off" /\ q # p
        BY <3>1, <4>1, UpgraderApart DEF StartInv, OneMode
      <4> QED
        BY <1>3, <4>2 DEF Processes
    <3> QED
      BY <1>4, <3>1
  <2> QED
    BY <1>1, <2>1, <2>2 DEF KeyDone
<1>7. Callers'
  <2>1. ASSUME NEW q \in Processes, pc'[q] \in {"adjust", "upgrade"}
        PROVE  Doing(q, pc'[q], todo'[q], made', version', loaded')
    <3>1. CASE q = p
      <4>1. p = Upgrader /\ pc'[q] = "upgrade" /\ todo'[q] = FromNew(p) /\ "gs_user" \in made
        BY <1>3, <1>4, <2>1, <3>1, UpgradeAlone
      <4> QED
        BY <1>1, <3>1, <4>1 DEF Doing, Upgrading
    <3>2. CASE q # p
      <4>1. pc'[q] = pc[q] /\ todo'[q] = todo[q]
        BY <1>3, <3>2
      <4>2. Doing(q, pc[q], todo[q], made, version, loaded)
        BY <2>1, <4>1 DEF StartInv, Callers
      <4> QED
        BY <1>1, <4>1, <4>2
    <3> QED
      BY <3>1, <3>2
  <2> QED
    BY <2>1 DEF Callers
<1> QED
  BY <1>1, <1>2, <1>5, <1>6, <1>7 DEF StartInv

(* A call that is made.                                                    *)
LEMMA DoesSound ==
    ASSUME Inv, StartInv, NEW p \in Processes, Does(p)
    PROVE  StartInv'
<1>1. pc[p] \in {"adjust", "upgrade"} /\ UNCHANGED <<key, pc, deps>>
  BY DEF Does, Calls
<1>2. DOMAIN todo = Processes /\ Installed(made, version) /\ Doing(p, pc[p], todo[p], made, version, loaded)
  BY <1>1 DEF StartInv, Callers
<1>3. /\ Doing(p, pc[p], todo'[p], made', version', loaded')
      /\ Installed(made', version') /\ ("gs_user" \in made => "gs_user" \in made')
  BY <1>2, DoingGoesOn
<1>4. DOMAIN todo' = Processes
  BY <1>2 DEF Does
<1>5. OneMode'
  BY <1>1 DEF StartInv, OneMode
<1>6. KeyDone'
  <2>1. \A q \in Processes : pc[q] = "up" => key = "done"
    BY DEF StartInv, KeyDone
  <2>2. ASSUME key = "done" PROVE "gs_user" \in made' /\ \A q \in Flask \cup Celery : pc[q] = "off"
    <3>1. pc[p] = "upgrade"
      BY <1>1, <2>2 DEF Inv, KeyTells
    <3>2. p = Upgrader
      BY <3>1 DEF StartInv, OneMode, Processes
    <3> QED
      BY <1>3, <2>2, <3>1, <3>2 DEF StartInv, OneMode, KeyDone
  <2> QED
    BY <1>1, <2>1, <2>2 DEF KeyDone
<1>7. Callers'
  <2>1. ASSUME NEW q \in Processes, pc'[q] \in {"adjust", "upgrade"}
        PROVE  Doing(q, pc'[q], todo'[q], made', version', loaded')
    <3>1. q = p
      BY <1>1, <2>1, CallsAlone
    <3> QED
      BY <1>1, <1>3, <3>1
  <2> QED
    BY <2>1 DEF Callers
<1> QED
  BY <1>3, <1>4, <1>5, <1>6, <1>7 DEF StartInv

(* A call that raises: its own process stops, and those of gunicorn.       *)
LEMMA RaisesSound ==
    ASSUME Inv, StartInv, NEW p \in Processes, Raises(p)
    PROVE  StartInv'
<1>1. /\ pc[p] \in {"adjust", "upgrade"} /\ todo[p] # <<>> /\ UNCHANGED <<key, version, loaded, deps>>
      /\ pc' = [q \in Processes |-> IF p = q \/ ({p, q} \subseteq Flask) THEN "failed" ELSE pc[q]]
      /\ made' = IF Head(todo[p]).kind = "call" THEN made \ Head(todo[p]).undo ELSE made
      /\ todo' = [todo EXCEPT ![p] = <<>>]
  BY DEF Raises, Calls
<1>2. DOMAIN todo = Processes /\ Installed(made, version) /\ Doing(p, pc[p], todo[p], made, version, loaded)
  BY <1>1 DEF StartInv, Callers
<1>3. Sound(Head(todo[p]))
  BY <1>1, <1>2, DoingFine DEF Fine
<1>4. Installed(made', version') /\ ("gs_user" \in made => "gs_user" \in made')
  <2>1. "gs_user" \in Outside
    BY DEF Outside
  <2> QED
    BY <1>1, <1>2, <1>3, <2>1 DEF Sound
<1>5. DOMAIN todo' = Processes
  BY <1>1, <1>2
<1>6. \A q \in Processes : pc'[q] # pc[q] => pc'[q] = "failed" /\ (q = p \/ {p, q} \subseteq Flask)
  BY <1>1
<1>7. deps.mode = "none" /\ Upgrader \in Processes /\ Flask \cup Celery \subseteq Processes
  BY <1>1 DEF StartInv, OneMode, Processes
<1>8. (pc[Upgrader] # "off" \/ p = Upgrader) => p = Upgrader /\ \A q \in Flask \cup Celery : pc'[q] = "off"
  <2>1. p # Upgrader => p \in Flask \cup Celery
    BY DEF Processes
  <2>2. pc[Upgrader] # "off" => p = Upgrader
    BY <1>1, <2>1 DEF StartInv, OneMode
  <2>3. ASSUME p = Upgrader PROVE \A q \in Flask \cup Celery : pc'[q] = "off"
    <3>1. \A q \in Flask \cup Celery : pc[q] = "off" /\ q # p
      BY <1>1, <2>3, UpgraderApart DEF StartInv, OneMode
    <3>2. p \notin Flask
      BY <2>3, UpgraderApart
    <3> QED
      BY <1>6, <1>7, <3>1, <3>2
  <2> QED
    BY <2>2, <2>3
<1>9. OneMode'
  <2>1. pc'[Upgrader] # "off" => pc[Upgrader] # "off" \/ p = Upgrader
    BY <1>6, <1>7, UpgraderApart
  <2>2. \A q \in Flask \cup Celery : pc'[q] # "upgrade"
    BY <1>6, <1>7 DEF StartInv, OneMode
  <2>3. pc'[Upgrader] # "up"
    BY <1>6, <1>7 DEF StartInv, OneMode
  <2> QED
    BY <1>1, <1>7, <1>8, <2>1, <2>2, <2>3 DEF OneMode
<1>10. KeyDone'
  <2>1. \A q \in Processes : pc'[q] = "up" => key = "done"
    BY <1>6 DEF StartInv, KeyDone
  <2>2. ASSUME key = "done" PROVE "gs_user" \in made' /\ \A q \in Flask \cup Celery : pc'[q] = "off"
    <3>1. pc[p] = "upgrade"
      BY <1>1, <2>2 DEF Inv, KeyTells
    <3>2. p = Upgrader
      BY <3>1 DEF StartInv, OneMode, Processes
    <3> QED
      BY <1>4, <1>8, <2>2, <3>2 DEF StartInv, KeyDone
  <2> QED
    BY <1>1, <2>1, <2>2 DEF KeyDone
<1>11. Callers'
  <2>1. ASSUME NEW q \in Processes, pc'[q] \in {"adjust", "upgrade"}
        PROVE  Doing(q, pc'[q], todo'[q], made', version', loaded')
    <3>1. pc[q] \in {"adjust", "upgrade"} /\ pc'[q] = pc[q]
      BY <1>6, <2>1
    <3>2. q = p
      BY <1>1, <3>1, CallsAlone
    <3>3. pc'[q] = "failed"
      BY <1>1, <3>2
    <3> QED
      BY <2>1, <3>3
  <2> QED
    BY <2>1 DEF Callers
<1> QED
  BY <1>4, <1>5, <1>9, <1>10, <1>11 DEF StartInv

LEMMA ServedReady == StartInv /\ key = "done" => "gs_user" \in made
  BY DEF StartInv, KeyDone

(* The upgrade by a process that found the key done.                       *)
LEMMA UpgradesDone ==
    ASSUME Inv, StartInv, NEW p \in Processes, NEW s, s = (IF p = Upgrader THEN "upgrade" ELSE "up"),
           key = "done", pc[p] # "off", pc' = [pc EXCEPT ![p] = s],
           NEW t, t = (IF p = Upgrader THEN upgrade ELSE <<>>), todo' = [todo EXCEPT ![p] = t],
           deps' = deps, key' = key, made' = made, version' = version, loaded' = loaded
    PROVE  StartInv'
<1>1. DOMAIN todo = Processes
  BY DEF StartInv
<1>2. DOMAIN todo' = Processes /\ todo'[p] = t /\ \A q \in Processes : q # p => todo'[q] = todo[q]
  BY <1>1
<1>3. s = "upgrade" => p = Upgrader /\ Upgrading(p, todo'[p], made, version)
  BY <1>2, UpgradeAlone, ServedReady DEF Upgrading
<1>4. s # "adjust" /\ (s = "up" => p # Upgrader)
  OBVIOUS
<1> QED
  BY <1>2, <1>3, <1>4, OneMoves

(* Every step of a process.                                                *)
LEMMA StepsSound ==
    ASSUME Inv, StartInv, NEW p \in Processes, Steps(p)
    PROVE  StartInv'
<1>1. DOMAIN todo = Processes
  BY DEF StartInv
<1>2. CASE WatchKey(p)
  BY <1>1, <1>2, OneMoves DEF WatchKey
<1>3. CASE FirstGet(p)
  <2>1. /\ pc[p] = "watched" /\ UNCHANGED <<key, made, version, loaded, deps>>
        /\ pc' = [pc EXCEPT ![p] = IF key # "done" THEN "not_done"
                                   ELSE IF p = Upgrader THEN "upgrade" ELSE "up"]
        /\ todo' = [todo EXCEPT ![p] = IF key = "done" /\ p = Upgrader THEN upgrade ELSE <<>>]
    BY <1>3 DEF FirstGet
  <2>2. CASE key = "done"
    <3> DEFINE s == IF p = Upgrader THEN "upgrade" ELSE "up"
               t == IF p = Upgrader THEN upgrade ELSE <<>>
    <3>1. pc' = [pc EXCEPT ![p] = s] /\ todo' = [todo EXCEPT ![p] = t]
      BY <2>1, <2>2
    <3>2. /\ s = (IF p = Upgrader THEN "upgrade" ELSE "up") /\ t = (IF p = Upgrader THEN upgrade ELSE <<>>)
          /\ deps' = deps /\ key' = key /\ made' = made /\ version' = version /\ loaded' = loaded
          /\ pc[p] # "off"
      BY <2>1
    <3> HIDE DEF s, t
    <3> QED
      BY <2>2, <3>1, <3>2, UpgradesDone
  <2>3. CASE key # "done"
    <3>1. pc' = [pc EXCEPT ![p] = "not_done"] /\ todo' = [todo EXCEPT ![p] = <<>>]
      BY <2>1, <2>3
    <3>2. DOMAIN todo' = Processes /\ \A q \in Processes : q # p => todo'[q] = todo[q]
      BY <1>1, <3>1
    <3>3. /\ deps' = deps /\ key' = key /\ made' = made /\ version' = version /\ loaded' = loaded
          /\ pc[p] # "off"
      BY <2>1
    <3> QED
      BY <3>1, <3>2, <3>3, OneMoves
  <2> QED
    BY <2>2, <2>3
<1>4. CASE SecondGet(p)
  <2> DEFINE s == IF key = "none" /\ p \notin Celery THEN "claim" ELSE "wait"
  <2>1. /\ pc[p] = "not_done" /\ UNCHANGED <<key, todo, made, version, loaded, deps>>
        /\ pc' = [pc EXCEPT ![p] = s]
    BY <1>4 DEF SecondGet
  <2>2. s \in {"claim", "wait"}
    OBVIOUS
  <2>3. CASE s = "claim"
    <3>1. pc' = [pc EXCEPT ![p] = "claim"]
      BY <2>1, <2>3
    <3> QED
      BY <1>1, <2>1, <3>1, OneMoves
  <2>4. CASE s = "wait"
    <3>1. pc' = [pc EXCEPT ![p] = "wait"]
      BY <2>1, <2>4
    <3> QED
      BY <1>1, <2>1, <3>1, OneMoves
  <2> HIDE DEF s
  <2> QED
    BY <2>2, <2>3, <2>4
<1>5. CASE Claim(p)
  <2>1. CASE p \notin written
    BY <1>5, <2>1, ClaimSound
  <2>2. CASE p \in written
    <3>1. pc[p] = "claim" /\ UNCHANGED <<key, todo, made, version, loaded, deps>> /\ pc' = [pc EXCEPT ![p] = "wait"]
      BY <1>5, <2>2 DEF Claim
    <3> QED
      BY <1>1, <3>1, OneMoves
  <2> QED
    BY <2>1, <2>2
<1>6. CASE Done(p)
  BY <1>6, DoneSound
<1>7. CASE Wait(p)
  <2> DEFINE s == IF p = Upgrader THEN "upgrade" ELSE "up"
             t == IF p = Upgrader THEN upgrade ELSE <<>>
  <2>1. /\ pc' = [pc EXCEPT ![p] = s] /\ todo' = [todo EXCEPT ![p] = t] /\ pc[p] # "off" /\ key = "done"
        /\ deps' = deps /\ key' = key /\ made' = made /\ version' = version /\ loaded' = loaded
    BY <1>7 DEF Wait
  <2>2. s = (IF p = Upgrader THEN "upgrade" ELSE "up") /\ t = (IF p = Upgrader THEN upgrade ELSE <<>>)
    OBVIOUS
  <2> HIDE DEF s, t
  <2> QED
    BY <2>1, <2>2, UpgradesDone
<1>8. CASE Does(p)
  BY <1>8, DoesSound
<1>9. CASE Ends(p)
  BY <1>1, <1>9, OneMoves DEF Ends
<1> QED
  BY <1>2, <1>3, <1>4, <1>5, <1>6, <1>7, <1>8, <1>9 DEF Steps

LEMMA NextStartInv == Inv /\ StartInv /\ [NextStart]_startVars => StartInv'
<1> SUFFICES ASSUME Inv, StartInv, [NextStart]_startVars PROVE StartInv'
  OBVIOUS
<1>1. CASE \/ \E mode \in {"server", "upgrade"} : Launch(mode)
           \/ ServiceAnswers \/ ServiceSilent \/ ServiceRefuses
  BY <1>1, LaunchesSound
<1>2. ASSUME NEW p \in Processes, Steps(p) PROVE StartInv'
  BY <1>2, StepsSound
<1>3. ASSUME NEW p \in Processes, Raises(p) PROVE StartInv'
  BY <1>3, RaisesSound
<1>4. ASSUME NEW p \in Processes, Kill(p) PROVE StartInv'
  <2>1. /\ pc[p] # "off" /\ UNCHANGED <<key, made, version, loaded, deps>>
        /\ pc' = [pc EXCEPT ![p] = "import"] /\ todo' = [todo EXCEPT ![p] = <<>>]
    BY <1>4 DEF Kill
  <2>2. DOMAIN todo' = Processes /\ \A q \in Processes : q # p => todo'[q] = todo[q]
    BY <2>1 DEF StartInv
  <2> QED
    BY <2>1, <2>2, OneMoves
<1>5. ASSUME NEW c \in Celery, WaitForLayman(c) PROVE StartInv'
  <2>1. pc[c] # "off" /\ UNCHANGED <<key, todo, made, version, loaded, deps>> /\ c \in Processes
    BY <1>5 DEF WaitForLayman, Processes
  <2>2. pc' = [pc EXCEPT ![c] = "import"] \/ pc' = [pc EXCEPT ![c] = "failed"]
    BY <1>5 DEF WaitForLayman
  <2>3. DOMAIN todo' = Processes
    BY <2>1 DEF StartInv
  <2> QED
    BY <2>1, <2>2, <2>3, OneMoves
<1>6. CASE UNCHANGED startVars
  BY <1>6 DEF startVars, StartInv, OneMode, KeyDone, Callers
<1> QED
  BY <1>1, <1>2, <1>3, <1>4, <1>5, <1>6 DEF NextStart

(* Redis and what is installed agree at every step of every launch: a      *)
(* process that calls has done the calls before the one at the head of its *)
(* list and no other, and a launch that is interrupted leaves nothing of   *)
(* the prime schema, an installation that the next launch refuses, or a    *)
(* complete one.                                                           *)
THEOREM StartSound == SpecStart => [](Inv /\ StartInv)
<1>1. InitStart => Inv /\ StartInv
  BY InitInv, InitStartInv
<1>2. Inv /\ StartInv /\ [NextStart]_startVars => (Inv /\ StartInv)'
  BY StepInv, NextStartInv
<1> QED
  BY <1>1, <1>2, PTL DEF SpecStart

(* Whoever adjusts or upgrades finds at every step what the step alters or *)
(* reads, and never makes what is there already, however often earlier     *)
(* launches were interrupted, and wherever.                                *)
THEOREM StepsFound == SpecStart => []StepsFind
<1>1. Inv /\ StartInv => StepsFind
  <2> SUFFICES ASSUME StartInv, NEW p \in Processes, Calls(p),
                      Head(todo[p]).kind # "check_version_upgradeability"
               PROVE  Ready(Head(todo[p]))
    BY DEF StepsFind
  <2>1. pc[p] \in {"adjust", "upgrade"} /\ todo[p] # <<>>
    BY DEF Calls
  <2>2. Doing(p, pc[p], todo[p], made, version, loaded) /\ DOMAIN todo = Processes /\ Installed(made, version)
    BY <2>1 DEF StartInv, Callers
  <2> QED
    BY <2>1, <2>2, DoingFine DEF Fine, Sound
<1> QED
  BY <1>1, StartSound, PTL

(* No process of the server is up before the prime schema is complete, the *)
(* migrations have run and Redis is loaded.                                *)
THEOREM StartsWhole == SpecStart => []StartsComplete
<1>1. Inv /\ StartInv => StartsComplete
  <2> SUFFICES ASSUME StartInv, NEW p \in Flask \cup Celery, pc[p] = "up"
               PROVE  /\ Installed2 \cup {"map_urls", "layer_urls"} \subseteq made
                      /\ \A t \in {"schema", "data"} : version[t] = get_max_data_version(t)
                      /\ {"uuids", "authn", "statuses", "roles"} \subseteq loaded
    BY DEF StartsComplete
  <2>1. key = "done" /\ pc[p] # "off"
    BY DEF StartInv, KeyDone, Processes
  <2>2. Served(made, version, loaded)
    BY <2>1 DEF StartInv, KeyDone
  <2>3. "role_service_schema" \in made
    BY DEF StartInv, Installed
  <2>4. V2 # V31 /\ V3 # V31
    BY DEF V2, V3, V31
  <2>5. Installed2 \subseteq made
    BY <2>2, <2>3 DEF Installed2, setup_geoserver, Served, Server, Complete
  <2>6. {"map_urls", "layer_urls"} \subseteq made
    BY <2>2, <2>4 DEF Served, Complete, Migrated
  <2>7. \A t \in {"schema", "data"} : version[t] = get_max_data_version(t)
    BY <2>2, MigrationsAre DEF Served, Migrated
  <2> QED
    BY <2>2, <2>5, <2>6, <2>7 DEF Served
<1> QED
  BY <1>1, StartSound, PTL

=============================================================================
