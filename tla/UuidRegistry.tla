---------------------------- MODULE UuidRegistry ----------------------------
(***************************************************************************)
(* The registry of publications in Redis (uuid.py): the set of uuids, the  *)
(* metadata of each uuid, and the names taken in a workspace.  POST        *)
(* registers a uuid by an optimistic transaction, DELETE and a POST that   *)
(* failed unregister it by three commands in a row; the publication itself *)
(* is a row of the prime DB schema.                                        *)
(*                                                                         *)
(* Names are those of one workspace; some are names of maps, the others of *)
(* layers.  POST of a layer registers the uuid before it takes the lock,   *)
(* POST of a map after that.  Of the lock only what POST and DELETE do     *)
(* with it is modelled here, LayerChain has the rest.                      *)
(*                                                                         *)
(* Definitions marked as faulty are variants of the ones that follow them, *)
(* with a plausible bug; they show that the properties would notice it.    *)
(***************************************************************************)
EXTENDS Naturals, FiniteSets

CONSTANTS
    Names,     \* names of publications
    Maps,      \* those that are names of maps
    Uuids,     \* uuids, sent by the client or generated
    None,      \* no uuid, no name
    Procs,     \* Flask processes
    Deleters,  \* the processes that are sent DELETE
    MayRaise   \* may checks, files or sources raise an exception?

ASSUME UuidRegistryAssumption ==
    /\ Maps \subseteq Names
    /\ None \notin Names \cup Uuids
    /\ Deleters \subseteq Procs
    /\ MayRaise \in BOOLEAN

VARIABLES
    uuidSet,   \* UUID_SET
    metadata,  \* UUID_METADATA: the name registered for a uuid
    names,     \* WORKSPACE_TYPE_NAMES: the uuid registered for a name
    row,       \* prime DB schema: the uuid of the publication of a name
    lock,      \* PUBLICATION_LOCKS
    chain,     \* names of publications of which the chain runs
    proc       \* what each process is doing

registry == <<uuidSet, metadata, names>>
vars == <<uuidSet, metadata, names, row, lock, chain, proc>>

NoLock == "none"

(* POST: "lock", about to take the lock; "watch", about to read the        *)
(* watched keys; "multi", about to execute the transaction; "checks" of a  *)
(* layer; "body", until the row is inserted and the chain started.         *)
(* DELETE: "abort", waiting for the chain; "row", deleting the sources.    *)
(* Both: "srem", "del", "hdel", unregistering; "unlock".                   *)
Pcs == {"idle", "lock", "watch", "multi", "checks", "body",
        "abort", "row", "srem", "del", "hdel", "unlock"}

ProcRecord == [pc : Pcs, name : Names \cup {None}, uuid : Uuids \cup {None},
               dirty : BOOLEAN, locked : BOOLEAN]

(* dirty: a watched key has been changed; locked: the request took the lock. *)
Idle == [pc |-> "idle", name |-> None, uuid |-> None, dirty |-> FALSE, locked |-> FALSE]

(* The three keys hold uuids and names that are known, and a process that  *)
(* handles a request knows what it is about.                               *)
(* Code: uuid.py, that alone writes the three keys.                        *)
TypeOK ==
    /\ uuidSet \in SUBSET Uuids
    /\ metadata \in [Uuids -> Names \cup {None}]
    /\ names \in [Names -> Uuids \cup {None}]
    /\ row \in [Names -> Uuids \cup {None}]
    /\ lock \in [Names -> {NoLock, "post", "delete"}]
    /\ chain \in SUBSET Names
    /\ proc \in [Procs -> ProcRecord]

RowUuids == {row[n] : n \in Names} \ {None}

SameType(n) == IF n \in Maps THEN Maps ELSE Names \ Maps

-----------------------------------------------------------------------------
Become(p, pc) == proc' = [proc EXCEPT ![p].pc = pc]

(* WATCH of q notices that one of its keys is changed. *)
Touched(q) ==
    \/ uuidSet' # uuidSet
    \/ metadata'[proc[q].uuid] # metadata[proc[q].uuid]
    \/ \E n \in SameType(proc[q].name) : names'[n] # names[n]

(* Process p changes the registry and becomes r. *)
ChangeRegistry(p, r) ==
    proc' = [q \in Procs |->
                IF q = p THEN r
                ELSE IF proc[q].pc = "multi" /\ Touched(q) THEN [proc[q] EXCEPT !.dirty = TRUE]
                ELSE proc[q]]

(* The request ends with an error; the lock is released if it was taken. *)
EndWithError(p) ==
    /\ lock' = IF proc[p].locked THEN [lock EXCEPT ![proc[p].name] = NoLock] ELSE lock
    /\ proc' = [proc EXCEPT ![p] = Idle]

-----------------------------------------------------------------------------
(* POST.                                                                   *)

(* The name and the uuid were not found in the prime DB schema. *)
BeginPost(p, n, u) ==
    /\ proc[p].pc = "idle"
    /\ row[n] = None
    /\ u \notin RowUuids
    /\ proc' = [proc EXCEPT ![p] = [Idle EXCEPT !.pc = IF n \in Maps THEN "lock" ELSE "watch",
                                                 !.name = n, !.uuid = u]]
    /\ UNCHANGED <<registry, row, lock, chain>>

(* create_lock.  POST of a locked name raises; a layer is registered by    *)
(* then, and stays so.                                                     *)
Lock(p) ==
    LET n == proc[p].name IN
    /\ proc[p].pc = "lock"
    /\ \/ /\ lock[n] = NoLock
          /\ lock' = [lock EXCEPT ![n] = "post"]
          /\ proc' = [proc EXCEPT ![p].pc = IF n \in Maps THEN "watch" ELSE "body",
                                  ![p].locked = TRUE]
       \/ /\ lock[n] # NoLock
          /\ EndWithError(p)
    /\ UNCHANGED <<registry, row, chain>>

(* Error 23 if the uuid or the name is registered. *)
Watch(p) ==
    LET n == proc[p].name
        u == proc[p].uuid
        free == u \notin uuidSet /\ metadata[u] = None /\ names[n] = None
    IN  /\ proc[p].pc = "watch"
        /\ \/ /\ free
              /\ proc' = [proc EXCEPT ![p].pc = "multi", ![p].dirty = FALSE]
              /\ UNCHANGED lock
           \/ /\ ~free
              /\ EndWithError(p)
        /\ UNCHANGED <<registry, row, chain>>

(* What is registered before the lock is taken, and what after. *)
Register(p) ==
    LET n == proc[p].name
        u == proc[p].uuid
    IN  /\ uuidSet' = uuidSet \cup {u}
        /\ metadata' = [metadata EXCEPT ![u] = n]
        /\ names' = [names EXCEPT ![n] = u]
        /\ ChangeRegistry(p, [proc[p] EXCEPT !.pc = IF n \in Maps THEN "body" ELSE "checks"])

(* Faulty: the keys are not watched. *)
ExecuteAnyway(p) ==
    /\ proc[p].pc = "multi"
    /\ Register(p)
    /\ UNCHANGED <<row, lock, chain>>

(* Faulty: a transaction that failed is not tried again. *)
ExecuteOnce(p) ==
    /\ proc[p].pc = "multi"
    /\ ~proc[p].dirty
    /\ Register(p)
    /\ UNCHANGED <<row, lock, chain>>

(* The transaction is executed unless a watched key has been changed;      *)
(* otherwise all is tried again.                                           *)
Execute(p) ==
    /\ proc[p].pc = "multi"
    /\ \/ ~proc[p].dirty /\ Register(p)
       \/ proc[p].dirty /\ Become(p, "watch") /\ UNCHANGED registry
    /\ UNCHANGED <<row, lock, chain>>

(* The checks of a layer; one that raises has the uuid unregistered. *)
Check(p) ==
    /\ proc[p].pc = "checks"
    /\ \/ Become(p, "lock")
       \/ MayRaise /\ Become(p, "srem")
    /\ UNCHANGED <<registry, row, lock, chain>>

(* The row is inserted and the chain started; the request is answered.     *)
PostBody(p) ==
    LET n == proc[p].name IN
    /\ proc[p].pc = "body"
    /\ row[n] = None /\ proc[p].uuid \notin RowUuids
    /\ row' = [row EXCEPT ![n] = proc[p].uuid]
    /\ chain' = chain \cup {n}
    /\ proc' = [proc EXCEPT ![p] = Idle]
    /\ UNCHANGED <<registry, lock>>

(* A check of a map, a source before the row is inserted, or the row's     *)
(* constraints raise: the lock is released, the uuid stays registered.     *)
PostRaises(p) ==
    /\ proc[p].locked /\ proc[p].pc \in {"watch", "body"}
    /\ (row[proc[p].name] = None /\ proc[p].uuid \notin RowUuids) => MayRaise
    /\ EndWithError(p)
    /\ UNCHANGED <<registry, row, chain>>

(* A source raises after the row was inserted. *)
PostRaisesLate(p) ==
    LET n == proc[p].name IN
    /\ MayRaise
    /\ proc[p].pc = "body"
    /\ row[n] = None /\ proc[p].uuid \notin RowUuids
    /\ row' = [row EXCEPT ![n] = proc[p].uuid]
    /\ EndWithError(p)
    /\ UNCHANGED <<registry, chain>>

(* The files of a layer cannot be saved: the uuid is unregistered. *)
FilesRaise(p) ==
    /\ MayRaise
    /\ proc[p].pc = "body" /\ proc[p].name \notin Maps
    /\ Become(p, "srem")
    /\ UNCHANGED <<registry, row, lock, chain>>

(* The chain finishes and releases the lock of POST. *)
ChainEnds(n) ==
    /\ n \in chain
    /\ chain' = chain \ {n}
    /\ lock' = IF lock[n] = "post" THEN [lock EXCEPT ![n] = NoLock] ELSE lock
    /\ UNCHANGED <<registry, row, proc>>

-----------------------------------------------------------------------------
(* DELETE.                                                                 *)

BeginDelete(p, n) ==
    /\ p \in Deleters
    /\ proc[p].pc = "idle"
    /\ row[n] # None
    /\ lock' = [lock EXCEPT ![n] = "delete"]
    /\ proc' = [proc EXCEPT ![p] = [Idle EXCEPT !.pc = "abort", !.name = n, !.uuid = row[n],
                                                 !.locked = TRUE]]
    /\ UNCHANGED <<registry, row, chain>>

(* Faulty: the chain goes on. *)
AbortNot(p) ==
    LET n == proc[p].name IN
    /\ proc[p].pc = "abort"
    /\ row[n] = proc[p].uuid
    /\ Become(p, "row")
    /\ UNCHANGED <<registry, row, lock, chain>>

(* The chain is aborted.  The publication is then looked up by uuid again; *)
(* if it is gone, an exception is raised.                                  *)
Abort(p) ==
    LET n == proc[p].name IN
    /\ proc[p].pc = "abort"
    /\ \/ /\ row[n] = proc[p].uuid
          /\ chain' = chain \ {n}
          /\ Become(p, "row")
          /\ UNCHANGED lock
       \/ /\ row[n] # proc[p].uuid
          /\ EndWithError(p)
          /\ UNCHANGED chain
    /\ UNCHANGED <<registry, row>>

DeleteRaises(p) ==
    /\ MayRaise
    /\ proc[p].pc \in {"abort", "row"}
    /\ EndWithError(p)
    /\ UNCHANGED <<registry, row, chain>>

(* Faulty: the publication is unregistered before its row is deleted. *)
DeleteRowLast(p) ==
    /\ proc[p].pc = "row"
    /\ Become(p, "srem")
    /\ UNCHANGED <<registry, row, lock, chain>>

(* The row is deleted by the name of the publication. *)
DeleteRow(p) ==
    /\ proc[p].pc = "row"
    /\ row' = [row EXCEPT ![proc[p].name] = None]
    /\ Become(p, "srem")
    /\ UNCHANGED <<registry, lock, chain>>

(* delete_publication_uuid_from_redis, of DELETE and of a failed POST. *)
Srem(p) ==
    /\ proc[p].pc = "srem"
    /\ uuidSet' = uuidSet \ {proc[p].uuid}
    /\ UNCHANGED <<metadata, names, row, lock, chain>>
    /\ ChangeRegistry(p, [proc[p] EXCEPT !.pc = "del"])

(* Faulty: the metadata stay. *)
DelNot(p) ==
    /\ proc[p].pc = "del"
    /\ Become(p, "hdel")
    /\ UNCHANGED <<registry, row, lock, chain>>

Del(p) ==
    /\ proc[p].pc = "del"
    /\ metadata' = [metadata EXCEPT ![proc[p].uuid] = None]
    /\ UNCHANGED <<uuidSet, names, row, lock, chain>>
    /\ ChangeRegistry(p, [proc[p] EXCEPT !.pc = "hdel"])

(* Faulty: the name is kept, with no uuid. *)
HdelEmpty(p) ==
    /\ proc[p].pc = "hdel"
    /\ names' = [names EXCEPT ![proc[p].name] = ""]
    /\ UNCHANGED <<uuidSet, metadata, row, lock, chain>>
    /\ ChangeRegistry(p, IF proc[p].locked THEN [proc[p] EXCEPT !.pc = "unlock"] ELSE Idle)

Hdel(p) ==
    /\ proc[p].pc = "hdel"
    /\ names' = [names EXCEPT ![proc[p].name] = None]
    /\ UNCHANGED <<uuidSet, metadata, row, lock, chain>>
    /\ ChangeRegistry(p, IF proc[p].locked THEN [proc[p] EXCEPT !.pc = "unlock"] ELSE Idle)

Unlock(p) ==
    /\ proc[p].pc = "unlock"
    /\ lock' = [lock EXCEPT ![proc[p].name] = NoLock]
    /\ proc' = [proc EXCEPT ![p] = Idle]
    /\ UNCHANGED <<registry, row, chain>>

-----------------------------------------------------------------------------
(* import_uuids_to_redis, Redis having been flushed. *)
Imported ==
    /\ uuidSet' = RowUuids
    /\ metadata' = [u \in Uuids |-> IF u \in RowUuids THEN CHOOSE n \in Names : row[n] = u ELSE None]
    /\ names' = row

Restart ==
    /\ Imported
    /\ lock' = [n \in Names |-> NoLock]
    /\ chain' = {}
    /\ proc' = [p \in Procs |-> Idle]
    /\ UNCHANGED row

Init ==
    /\ uuidSet = {}
    /\ metadata = [u \in Uuids |-> None]
    /\ names = [n \in Names |-> None]
    /\ row = [n \in Names |-> None]
    /\ lock = [n \in Names |-> NoLock]
    /\ chain = {}
    /\ proc = [p \in Procs |-> Idle]

Begin(p) ==
    \/ \E n \in Names, u \in Uuids : BeginPost(p, n, u)
    \/ \E n \in Names : BeginDelete(p, n)

Handle(p) ==
    \/ Lock(p) \/ Watch(p) \/ Execute(p) \/ Check(p)
    \/ PostBody(p) \/ PostRaises(p) \/ PostRaisesLate(p) \/ FilesRaise(p)
    \/ Abort(p) \/ DeleteRaises(p) \/ DeleteRow(p)
    \/ Srem(p) \/ Del(p) \/ Hdel(p) \/ Unlock(p)

Next ==
    \/ \E p \in Procs : Begin(p) \/ Handle(p)
    \/ \E n \in Names : ChainEnds(n)
    \/ Restart

Spec == Init /\ [][Next]_vars

(* Processes go on with the requests they have. *)
FairSpec == Spec /\ \A p \in Procs : WF_vars(Handle(p))

-----------------------------------------------------------------------------
(* Every publication of the prime DB schema is registered, under its name  *)
(* and its uuid: otherwise another POST could take one of them.            *)
(* Code: register before the row is inserted, unregister after it is       *)
(* deleted.                                                                *)
RowsRegistered ==
    \A n \in Names : row[n] # None =>
        row[n] \in uuidSet /\ metadata[row[n]] = n /\ names[n] = row[n]

(* Between the transaction and the last command of unregistering, a        *)
(* process has its name for itself, and the uuid too until its metadata    *)
(* are deleted.                                                            *)
(* Code: register_publication_uuid_to_redis.                               *)
Registered == {p \in Procs : proc[p].pc \in {"checks", "body", "row", "srem", "del", "hdel"}
                             \/ (proc[p].pc = "lock" /\ proc[p].name \notin Maps)}

RegisteredOnce ==
    \A p, q \in Registered : p # q =>
        /\ proc[p].name # proc[q].name
        /\ proc[p].uuid = proc[q].uuid => proc[p].pc = "hdel" \/ proc[q].pc = "hdel"

(* The assertions of check_redis_consistency on the three keys: uuids with *)
(* metadata have their names registered, and, while nobody unregisters,    *)
(* the three keys say the same.                                            *)
(* Code: delete_publication_uuid_from_redis against the transaction.       *)
NamesOfUuids == \A u \in Uuids : metadata[u] # None => names[metadata[u]] = u

KeysAgree ==
    /\ NamesOfUuids
    /\ (\A p \in Procs : proc[p].pc \notin {"srem", "del", "hdel"}) =>
          /\ uuidSet = {u \in Uuids : metadata[u] # None}
          /\ \A n \in Names : names[n] # None => metadata[names[n]] = n

(* A layer is created under its lock: neither a chain nor a DELETE of a    *)
(* former layer of the name releases the lock of POST.  A map is not: POST *)
(* takes the lock before it registers the uuid, maybe from a map that was  *)
(* created in between, of which DELETE then takes and releases it.         *)
(* Code: create_lock in POST, abort_publication_chain in DELETE.           *)
LayerLocked ==
    \A p \in Procs : proc[p].pc = "body" /\ proc[p].name \notin Maps =>
        lock[proc[p].name] = "post"

(* What the first assertion of check_redis_consistency says of the time    *)
(* when no request is handled: the registered uuids are those of the       *)
(* publications.  Not so: POST of a layer that fails on the lock of a      *)
(* DELETE in its last moment, or POST of a map that raises, leaves its     *)
(* uuid registered.                                                        *)
(* Code: what POST does when it fails.                                     *)
AllIdle == \A p \in Procs : proc[p].pc = "idle"

NothingLeft == AllIdle => {u \in Uuids : metadata[u] # None} = RowUuids

(* A request ends when no more requests come, though a transaction may     *)
(* have to be tried many times.                                            *)
(* Code: the loop of register_publication_uuid_to_redis.                   *)
RequestsEnd == <>[][\A p \in Procs : ~Begin(p)]_vars => <>[]AllIdle
=============================================================================
