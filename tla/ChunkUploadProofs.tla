-------------------------- MODULE ChunkUploadProofs --------------------------
(***************************************************************************)
(* Theorems about ChunkUpload, for every value of its constants: any files *)
(* and numbers of chunks, any number of processes, with tasks that outlive *)
(* DELETE or not.                                                          *)
(***************************************************************************)
EXTENDS ChunkUpload, FiniteSetTheorems, SequenceTheorems, TLAPS

Pieces == [number : Nat, upload : Nat]

RequestRecord == [pc : {"idle", "save", "write", "move"}, chunk : Chunks \cup {None}, upload : 0 .. MaxUploads]

Marks == {"part", "chunk"} \X Chunks \X (Procs \cup {None})

TaskRecord ==
    [pc : Pcs, files : SUBSET Files, left : SUBSET Files, file : Files \cup {None}, at : Nat,
     first : BOOLEAN, seen : Nat \X Nat, idle : Nat, abort : BOOLEAN]

(* A task that merges is at a chunk of its file; one that looks again has  *)
(* not waited too long.                                                    *)
TaskOK(t) ==
    /\ t.left \subseteq t.files
    /\ t.pc \in {"merge", "hdel"} => t.file \in t.files
    /\ t.pc = "merge" => t.at \in 1 .. Total[t.file]
    /\ t.idle <= MaxIdle
    /\ t.pc \in {"queued", "look", "merge", "hdel"} => t.idle < MaxIdle
    /\ t.first => t.seen = <<0, 0>> /\ t.idle = 0

TypeInv ==
    /\ layer \in Stages
    /\ upload \in 0 .. MaxUploads
    /\ info \in {None} \cup SUBSET Files
    /\ total \in SUBSET Files
    /\ parts \in [Chunks -> 0 .. MaxUploads]
    /\ chunks \in [Chunks -> 0 .. MaxUploads]
    /\ cut \in SUBSET Marks
    /\ input \in [Files -> {None} \cup Seq(Pieces)]
    /\ request \in [Procs -> RequestRecord]
    /\ \A p \in Procs : request[p].pc # "idle" => request[p].chunk \in Chunks
    /\ task \in TaskRecord /\ TaskOK(task)
    /\ sent \in SUBSET Chunks
    /\ resent \in BOOLEAN /\ outlived \in BOOLEAN /\ news \in BOOLEAN
    /\ twice \in SUBSET Chunks
    /\ quiet \in Nat

-----------------------------------------------------------------------------
(* Chunks are pairs of a file and a number, and finitely many.              *)
LEMMA ChunkPairs ==
    /\ \A f \in Files : \A n \in 1 .. Total[f] : <<f, n>> \in Chunks
    /\ \A c \in Chunks : c[1] \in Files /\ c[2] \in 1 .. Total[c[1]] /\ c = <<c[1], c[2]>>
BY DEF Chunks, ChunksOf

LEMMA FinitelyMany ==
    /\ \A S \in SUBSET Chunks : IsFiniteSet(S) /\ Cardinality(S) \in Nat
    /\ \A S \in SUBSET Files : IsFiniteSet(S) /\ Cardinality(S) \in Nat
<1>1. IsFiniteSet({ChunksOf(f) : f \in Files})
  <2> DEFINE g == [f \in Files |-> ChunksOf(f)]
             T == {ChunksOf(f) : f \in Files}
  <2>1. g \in Surjection(Files, T)
    BY DEF Surjection
  <2>2. IsFiniteSet(Files)
    BY ChunkUploadAssumption
  <2> HIDE DEF g, T
  <2>3. IsFiniteSet(T)
    BY <2>1, <2>2, FS_Surjection
  <2>. QED  BY <2>3 DEF T
<1>2. \A S \in {ChunksOf(f) : f \in Files} : IsFiniteSet(S)
  <2> SUFFICES ASSUME NEW f \in Files PROVE IsFiniteSet({f} \X (1 .. Total[f]))
    BY DEF ChunksOf
  <2>1. IsFiniteSet({f}) /\ IsFiniteSet(1 .. Total[f])
    <3>1. 1 \in Int /\ Total[f] \in Int
      BY ChunkUploadAssumption
    <3>2. IsFiniteSet(1 .. Total[f])
      BY <3>1, FS_Interval
    <3>. QED  BY <3>2, FS_Singleton
  <2>. QED  BY <2>1, FS_Product
<1>3. IsFiniteSet(Chunks)
  BY <1>1, <1>2, FS_UNION DEF Chunks
<1>. QED  BY <1>3, FS_Subset, FS_CardinalityType, ChunkUploadAssumption

-----------------------------------------------------------------------------
(* Types.                                                                  *)

LEMMA NoTaskGood == NoTask \in TaskRecord /\ TaskOK(NoTask)
<1>1. NoTask \in TaskRecord
  BY DEF NoTask, TaskRecord, Pcs
<1>2. TaskOK(NoTask)
  BY ChunkUploadAssumption DEF NoTask, TaskOK
<1>. QED  BY <1>1, <1>2

(* The record of a task that is announced, or has ended.                   *)
LEMMA EndGood ==
    \A pc \in {"queued", "checks", "done", "failed", "aborted"} : \A files \in SUBSET Files :
        LET t == [NoTask EXCEPT !.pc = pc, !.files = files]
        IN  t \in TaskRecord /\ TaskOK(t) /\ t.pc = pc /\ t.files = files
<1> SUFFICES ASSUME NEW pc \in {"queued", "checks", "done", "failed", "aborted"}, NEW files \in SUBSET Files
             PROVE  LET t == [NoTask EXCEPT !.pc = pc, !.files = files]
                    IN  t \in TaskRecord /\ TaskOK(t) /\ t.pc = pc /\ t.files = files
  OBVIOUS
<1> DEFINE t == [NoTask EXCEPT !.pc = pc, !.files = files]
<1>1. /\ t.pc = pc /\ t.files = files /\ t.left = {} /\ t.file = None /\ t.at = 0
      /\ t.first /\ t.seen = <<0, 0>> /\ t.idle = 0
  BY DEF NoTask
<1>2. t \in TaskRecord
  BY NoTaskGood DEF TaskRecord, Pcs
<1> HIDE DEF t
<1>3. TaskOK(t)
  BY <1>1, ChunkUploadAssumption DEF TaskOK
<1>. QED  BY <1>1, <1>2, <1>3 DEF t

LEMMA AbsentGood == Absent \in [Chunks -> 0 .. MaxUploads] /\ NoInput \in [Files -> {None} \cup Seq(Pieces)]
BY ChunkUploadAssumption DEF Absent, NoInput

LEMMA PieceGood ==
    /\ \A n, u \in Nat : Piece(n, u) \in Pieces /\ Piece(n, u).number = n /\ Piece(n, u).upload = u
    /\ SentWhole \in Seq(Pieces)
<1>1. \A n, u \in Nat : Piece(n, u) \in Pieces /\ Piece(n, u).number = n /\ Piece(n, u).upload = u
  BY DEF Piece, Pieces
<1>2. Piece(0, 0) \in Pieces
  BY <1>1
<1>. QED  BY <1>1, <1>2 DEF SentWhole

LEMMA MarkParts ==
    /\ \A x \in Marks : x[1] \in {"part", "chunk"} /\ x[2] \in Chunks /\ x[3] \in Procs \cup {None}
    /\ \A k \in {"part", "chunk"} : \A c \in Chunks : \A o \in Procs \cup {None} : <<k, c, o>> \in Marks
BY DEF Marks

(* What is read of a chunk is the chunk or nothing.                        *)
LEMMA ContentGood ==
    /\ \A c : Content(c) = chunks[c] \/ (Content(c) = 0 /\ \E x \in cut : x[1] = "chunk" /\ x[2] = c)
    /\ \A c \in Chunks : TypeInv => Content(c) \in Nat
<1>1. \A c : Content(c) = chunks[c] \/ (Content(c) = 0 /\ \E x \in cut : x[1] = "chunk" /\ x[2] = c)
  BY DEF Content
<1>. QED  BY <1>1, ChunkUploadAssumption DEF TypeInv

(* Requests with chunks keep the types.                                    *)
LEMMA PostChunkTypes == ASSUME TypeInv, NEW p \in Procs, PostChunk(p) PROVE TypeInv'
<1>1. ASSUME NEW c \in Chunks, SendChunk(p, c) PROVE TypeInv'
  <2>1. /\ total' \in SUBSET Files /\ sent' \in SUBSET Chunks /\ resent' \in BOOLEAN
        /\ twice' \in SUBSET Chunks
    BY <1>1, ChunkPairs DEF SendChunk, TypeInv
  <2>2. /\ request' \in [Procs -> RequestRecord]
        /\ \A q \in Procs : request'[q].pc # "idle" => request'[q].chunk \in Chunks
    BY <1>1, ChunkUploadAssumption DEF SendChunk, TypeInv, RequestRecord
  <2>. QED  BY <1>1, <2>1, <2>2 DEF SendChunk, TypeInv
<1>2. Idle \in RequestRecord
  BY ChunkUploadAssumption DEF Idle, RequestRecord
<1>3. CASE OpenPart(p)
  <2>1. request[p] \in RequestRecord /\ request[p].chunk \in Chunks
    BY <1>3 DEF OpenPart, TypeInv
  <2>2. /\ request' \in [Procs -> RequestRecord]
        /\ \A q \in Procs : request'[q].pc # "idle" => request'[q].chunk \in Chunks
    <3>1. CASE request' = [request EXCEPT ![p].pc = "write"]
      BY <2>1, <3>1 DEF TypeInv, RequestRecord
    <3>2. CASE request' = [request EXCEPT ![p] = Idle]
      BY <1>2, <3>2 DEF TypeInv, Idle
    <3>. QED  BY <1>3, <3>1, <3>2 DEF OpenPart
  <2>3. parts' \in [Chunks -> 0 .. MaxUploads] /\ news' \in BOOLEAN
    BY <1>3, <2>1 DEF OpenPart, TypeInv, RequestRecord
  <2>4. cut' \in SUBSET Marks
    <3>1. <<"part", request[p].chunk, p>> \in Marks
      BY <2>1, MarkParts
    <3>. QED  BY <1>3, <3>1 DEF OpenPart, TypeInv
  <2>. QED  BY <1>3, <2>2, <2>3, <2>4 DEF OpenPart, TypeInv
<1>4. CASE MovePart(p)
  <2>1. /\ request' \in [Procs -> RequestRecord]
        /\ \A q \in Procs : request'[q].pc # "idle" => request'[q].chunk \in Chunks
    BY <1>2, <1>4 DEF MovePart, TypeInv, Idle
  <2>2. parts' \in [Chunks -> 0 .. MaxUploads] /\ chunks' \in [Chunks -> 0 .. MaxUploads]
    BY <1>4, ChunkUploadAssumption DEF MovePart, TypeInv
  <2>3. cut' \in SUBSET Marks
    <3>1. request[p].chunk \in Chunks
      BY <1>4 DEF MovePart, TypeInv
    <3>2. {<<"chunk", request[p].chunk, x[3]>> : x \in cut} \in SUBSET Marks
      BY <3>1, MarkParts DEF TypeInv
    <3>. QED  BY <1>4, <3>2 DEF MovePart, TypeInv
  <2>. QED  BY <1>4, <2>1, <2>2, <2>3 DEF MovePart, TypeInv, history
<1>5. CASE WritePart(p)
  <2>1. /\ request' \in [Procs -> RequestRecord]
        /\ \A q \in Procs : request'[q].pc # "idle" => request'[q].chunk \in Chunks
    BY <1>5 DEF WritePart, TypeInv, RequestRecord
  <2>2. cut' \in SUBSET Marks
    BY <1>5 DEF WritePart, TypeInv
  <2>. QED  BY <1>5, <2>1, <2>2 DEF WritePart, TypeInv, history
<1>. QED  BY <1>1, <1>3, <1>4, <1>5 DEF PostChunk

(* The task keeps the types, what it does to its own record apart.         *)
LEMMA RunTaskTypes == ASSUME TypeInv, RunTask PROVE TypeInv'
<1>1. task \in TaskRecord /\ TaskOK(task) /\ task.files \in SUBSET Files /\ task.left \subseteq task.files
  BY DEF TypeInv, TaskOK, TaskRecord
<1>2. \A pc \in {"checks", "done", "failed", "aborted"} :
        Ends(pc) => task' \in TaskRecord /\ TaskOK(task)'
  <2> SUFFICES ASSUME NEW pc \in {"checks", "done", "failed", "aborted"}, Ends(pc)
               PROVE  task' \in TaskRecord /\ TaskOK(task)'
    OBVIOUS
  <2> DEFINE t == [NoTask EXCEPT !.pc = pc, !.files = task.files]
  <2>1. t \in TaskRecord /\ TaskOK(t)
    BY <1>1, EndGood
  <2>2. task' = t
    BY DEF Ends
  <2> HIDE DEF t
  <2>. QED  BY <2>1, <2>2 DEF TaskOK
<1>3. task' \in TaskRecord /\ TaskOK(task)'
  <2>1. CASE Look /\ (task.pc = "queued" \/ task.idle < MaxIdle)
    <3>1. CASE info # None /\ task' = [task EXCEPT !.pc = "look", !.files = info, !.left = info]
      <4>1. info \in SUBSET Files
        BY <3>1 DEF TypeInv
      <4>. QED  BY <1>1, <2>1, <3>1, <4>1 DEF TaskRecord, TaskOK, Pcs
    <3>. QED  BY <1>2, <2>1, <3>1 DEF Look
  <2>2. ASSUME NEW f \in Files, LookAt(f) PROVE task' \in TaskRecord /\ TaskOK(task)'
    <3>1. CASE task' = [task EXCEPT !.pc = "merge", !.file = f, !.at = 1, !.left = @ \ {f}]
      <4>1. f \in task.files /\ 1 \in 1 .. Total[f] /\ task.pc = "look"
        BY <1>1, <2>2, ChunkUploadAssumption DEF LookAt
      <4>. QED  BY <1>1, <3>1, <4>1 DEF TaskRecord, TaskOK, Pcs
    <3>2. CASE task' = [task EXCEPT !.left = @ \ {f}]
      BY <1>1, <2>2, <3>2 DEF LookAt, TaskRecord, TaskOK
    <3>. QED  BY <2>2, <3>1, <3>2 DEF LookAt
  <2>3. CASE MergeChunk
    <3>1. Total[task.file] \in Nat /\ task.at \in 1 .. Total[task.file] /\ task.file \in task.files
      BY <1>1, <2>3, ChunkUploadAssumption DEF MergeChunk, TaskOK
    <3>2. CASE task.at = Total[task.file] /\ task' = [task EXCEPT !.pc = "hdel"]
      BY <1>1, <2>3, <3>1, <3>2 DEF MergeChunk, TaskRecord, TaskOK, Pcs
    <3>3. CASE task.at # Total[task.file] /\ task' = [task EXCEPT !.at = @ + 1]
      <4>1. task.at + 1 \in 1 .. Total[task.file] /\ task.at + 1 \in Nat
        BY <3>1, <3>3
      <4>2. /\ task'.at = task.at + 1 /\ task'.pc = task.pc /\ task'.left = task.left /\ task'.files = task.files
            /\ task'.file = task.file /\ task'.idle = task.idle /\ task'.first = task.first /\ task'.seen = task.seen
            /\ task' \in TaskRecord
        BY <1>1, <3>3, <4>1 DEF TaskRecord
      <4>. QED  BY <1>1, <4>1, <4>2 DEF TaskOK
    <3>. QED  BY <1>2, <2>3, <3>2, <3>3 DEF MergeChunk
  <2>4. CASE ForgetTotal
    BY <1>1, <2>4 DEF ForgetTotal, TaskRecord, TaskOK, Pcs
  <2>5. CASE Count
    <3>1. Counted \in Nat \X Nat
      BY FinitelyMany, <1>1 DEF Counted, Stored, Saved
    <3>2. CASE task' = [task EXCEPT
                !.pc = "wait", !.first = FALSE,
                !.seen = IF task.first THEN @ ELSE Counted,
                !.idle = IF task.first \/ Counted # task.seen THEN 0 ELSE @ + 1]
      <4> DEFINE sn == IF task.first THEN task.seen ELSE Counted
                 il == IF task.first \/ Counted # task.seen THEN 0 ELSE task.idle + 1
      <4>1. sn \in Nat \X Nat /\ task.idle \in Nat /\ task.idle < MaxIdle /\ task.pc = "look"
        BY <1>1, <2>5, <3>1 DEF TaskRecord, TaskOK, Count
      <4>2. il \in Nat /\ il <= MaxIdle
        BY <4>1, ChunkUploadAssumption
      <4>3. task' = [task EXCEPT !.pc = "wait", !.first = FALSE, !.seen = sn, !.idle = il]
        BY <3>2
      <4> HIDE DEF sn, il
      <4>. QED  BY <1>1, <4>1, <4>2, <4>3 DEF TaskRecord, TaskOK, Pcs
    <3>. QED  BY <1>2, <2>5, <3>2 DEF Count
  <2>. QED  BY <1>2, <2>1, <2>2, <2>3, <2>4, <2>5
            DEF RunTask, StartTask, LookAgain, AllSaved, CheckFiles, TimeOut, NoticeAbort
<1>4. input' \in [Files -> {None} \cup Seq(Pieces)]
  <2>1. ASSUME NEW f \in Files, LookAt(f) PROVE input' \in [Files -> {None} \cup Seq(Pieces)]
    <3>1. <<>> \in Seq(Pieces)
      OBVIOUS
    <3>. QED  BY <2>1, <3>1 DEF LookAt, TypeInv
  <2>2. CASE MergeChunk
    <3> DEFINE f == task.file
               s == Append(input[f], Piece(task.at, Content(<<f, task.at>>)))
    <3>1. f \in Files /\ task.at \in 1 .. Total[f] /\ task.at \in Nat
      BY <1>1, <2>2 DEF MergeChunk, TaskOK, TaskRecord
    <3>2. Content(<<f, task.at>>) \in Nat
      BY <3>1, ChunkPairs, ContentGood
    <3>3. input[f] # None => s \in Seq(Pieces)
      BY <3>1, <3>2, PieceGood DEF TypeInv
    <3>4. input' = input \/ (input[f] # None /\ input' = [input EXCEPT ![f] = s])
      BY <2>2 DEF MergeChunk
    <3> HIDE DEF s, f
    <3>. QED  BY <3>1, <3>3, <3>4 DEF TypeInv
  <2>. QED  BY <2>1, <2>2, AbsentGood
            DEF RunTask, StartTask, LookAgain, Look, ForgetTotal, AllSaved, Count, CheckFiles, TimeOut,
                NoticeAbort, TypeInv
<1>5. /\ info' \in {None} \cup SUBSET Files /\ total' \in SUBSET Files
      /\ parts' \in [Chunks -> 0 .. MaxUploads] /\ chunks' \in [Chunks -> 0 .. MaxUploads]
      /\ cut' \in SUBSET Marks
  <2>1. \/ UNCHANGED <<info, total, parts, chunks, cut>>
        \/ MergeChunk \/ ForgetTotal \/ DeleteDir
    BY DEF RunTask, StartTask, LookAgain, Look, LookAt, AllSaved, Count, CheckFiles, TimeOut, NoticeAbort, dir
  <2>2. CASE MergeChunk
    <3>1. chunks \in [Chunks -> 0 .. MaxUploads] /\ 0 \in 0 .. MaxUploads
      BY ChunkUploadAssumption DEF TypeInv
    <3>2. chunks' \in [Chunks -> 0 .. MaxUploads]
      BY <2>2, <3>1 DEF MergeChunk
    <3>3. cut' \in SUBSET Marks
      BY <2>2 DEF MergeChunk, TypeInv
    <3>. QED  BY <2>2, <3>2, <3>3 DEF MergeChunk, TypeInv
  <2>3. CASE ForgetTotal
    BY <2>3 DEF ForgetTotal, TypeInv
  <2>4. CASE DeleteDir
    BY <2>4, AbsentGood DEF DeleteDir
  <2>. QED  BY <2>1, <2>2, <2>3, <2>4 DEF TypeInv
<1>6. news' \in BOOLEAN /\ quiet' \in Nat
  <2>1. \/ UNCHANGED <<news, quiet>>
        \/ Count
    BY DEF RunTask, StartTask, LookAgain, Look, LookAt, MergeChunk, ForgetTotal, AllSaved, CheckFiles, TimeOut,
           NoticeAbort
  <2>2. news \in BOOLEAN /\ quiet \in Nat
    BY DEF TypeInv
  <2>3. CASE Count
    <3>1. quiet' \in {quiet, 0, quiet + 1}
      BY <2>3 DEF Count
    <3>2. news' \in BOOLEAN
      BY <2>2, <2>3, Zenon DEF Count
    <3>. QED  BY <2>2, <3>1, <3>2
  <2>. QED  BY <2>1, <2>2, <2>3
<1>7. UNCHANGED <<layer, upload, request, sent, resent, twice, outlived>>
  BY DEF RunTask, StartTask, LookAgain, Look, LookAt, MergeChunk, ForgetTotal, AllSaved, Count, CheckFiles, TimeOut,
      NoticeAbort, TaskOnly
<1>. QED  BY <1>3, <1>4, <1>5, <1>6, <1>7 DEF TypeInv

(* Edits keep the types.                                                   *)
LEMMA AnnounceTypes ==
    ASSUME TypeInv, NEW files \in SUBSET Files, Announce(files), layer' \in Stages,
           input' \in [Files -> {None} \cup Seq(Pieces)]
    PROVE  TypeInv'
<1>1. upload' \in 0 .. MaxUploads
  BY ChunkUploadAssumption DEF Announce, TypeInv
<1>2. task' \in TaskRecord /\ TaskOK(task)'
  <2> DEFINE t == [NoTask EXCEPT !.pc = "queued"]
  <2>1. t \in TaskRecord
    BY NoTaskGood DEF TaskRecord, Pcs
  <2>2. /\ t.pc = "queued" /\ t.files = {} /\ t.left = {} /\ t.first
        /\ t.seen = <<0, 0>> /\ t.idle = 0
    BY DEF NoTask
  <2>3. task' = t
    BY DEF Announce
  <2> HIDE DEF t
  <2>. QED  BY <2>1, <2>2, <2>3, ChunkUploadAssumption DEF TaskOK
<1>3. parts' = Absent /\ chunks' = Absent /\ cut' = {} /\ info' = files /\ sent' = {} /\ ~news' /\ quiet' = 0
  BY DEF Announce
<1>4. news' \in BOOLEAN
  BY DEF Announce
<1>. QED  BY <1>1, <1>2, <1>3, <1>4, AbsentGood DEF Announce, TypeInv

LEMMA EditTypes == ASSUME TypeInv, Edit PROVE TypeInv'
<1>1. layer' \in Stages
  BY DEF Edit, PostNames, PostFiles, PatchNames, PatchFiles, PatchNamesRaises, Delete, Aborted, DeleteInputFile,
         DeleteInputChunk, DeleteRow, TypeInv, Stages
<1>2. ASSUME NEW files \in SUBSET Files, PostNames(files) \/ PatchNames(files) PROVE TypeInv'
  BY <1>1, <1>2, AnnounceTypes, AbsentGood DEF PostNames, PatchNames, TypeInv
<1>3. ASSUME NEW t, task' = t, t \in TaskRecord, TaskOK(t) PROVE task' \in TaskRecord /\ TaskOK(task)'
  BY <1>3 DEF TaskOK
<1>4. ASSUME NEW files \in SUBSET Files, PostFiles(files) \/ PatchFiles(files) PROVE TypeInv'
  <2>1. input' \in [Files -> {None} \cup Seq(Pieces)]
    BY <1>4, PieceGood DEF PostFiles, PatchFiles
  <2>2. task' \in TaskRecord /\ TaskOK(task)'
    BY <1>3, <1>4, NoTaskGood DEF PostFiles, PatchFiles, TypeInv
  <2>. QED  BY <1>1, <1>4, <2>1, <2>2 DEF PostFiles, PatchFiles, TypeInv, dir, history
<1>5. CASE PatchNamesRaises
  <2>1. task' \in TaskRecord /\ TaskOK(task)'
    BY <1>3, <1>5, NoTaskGood DEF PatchNamesRaises
  <2>. QED  BY <1>1, <1>5, <2>1, AbsentGood DEF PatchNamesRaises, TypeInv, dir, history
<1>6. CASE Delete
  <2>1. (Active /\ task.pc # "queued") \in BOOLEAN
    BY DEF Active
  <2>2. task' \in TaskRecord /\ TaskOK(task)'
    BY <1>6, <2>1 DEF Delete, TypeInv, TaskRecord, TaskOK
  <2>. QED  BY <1>1, <1>6, <2>2 DEF Delete, TypeInv, dir, history
<1>7. CASE Aborted
  <2>1. outlived' \in BOOLEAN
    BY <1>7, Zenon DEF Aborted, TypeInv, Active
  <2>. QED  BY <1>1, <1>7, <2>1 DEF Aborted, TypeInv, dir
<1>8. CASE DeleteInputFile \/ DeleteRow
  BY <1>1, <1>8, AbsentGood DEF DeleteInputFile, DeleteRow, TypeInv, dir, history
<1>9. CASE DeleteInputChunk
  BY <1>1, <1>9, AbsentGood DEF DeleteInputChunk, DeleteDir, TypeInv, history
<1>. QED  BY <1>2, <1>4, <1>5, <1>6, <1>7, <1>8, <1>9 DEF Edit

(* So does a restart, and a behaviour starts with them.                    *)
LEMMA RestartTypes == ASSUME TypeInv, Restart PROVE TypeInv'
<1>1. Idle \in RequestRecord
  BY ChunkUploadAssumption DEF Idle, RequestRecord
<1>2. /\ request' \in [Procs -> RequestRecord]
      /\ \A q \in Procs : request'[q].pc # "idle" => request'[q].chunk \in Chunks
  BY <1>1 DEF Restart, Idle
<1>3. layer' \in Stages /\ total' \in SUBSET Files
  BY DEF Restart, TypeInv, Stages
<1>4. task' \in TaskRecord /\ TaskOK(task)'
  BY NoTaskGood DEF Restart, TaskOK
<1>5. cut' \in SUBSET Marks
  BY MarkParts DEF Restart, TypeInv
<1>. QED  BY <1>2, <1>3, <1>4, <1>5 DEF Restart, TypeInv, history

LEMMA InitTypes == Init => TypeInv
<1> SUFFICES ASSUME Init PROVE TypeInv
  OBVIOUS
<1>1. Idle \in RequestRecord
  BY ChunkUploadAssumption DEF Idle, RequestRecord
<1>2. /\ request \in [Procs -> RequestRecord]
      /\ \A q \in Procs : request[q].pc # "idle" => request[q].chunk \in Chunks
  BY <1>1 DEF Init, Idle
<1>3. resent \in BOOLEAN /\ outlived \in BOOLEAN /\ news \in BOOLEAN
  BY DEF Init
<1>. QED  BY <1>2, <1>3, AbsentGood, NoTaskGood, ChunkUploadAssumption DEF Init, TypeInv, Stages

LEMMA StepTypes == ASSUME TypeInv, [Next]_vars PROVE TypeInv'
<1>1. CASE UNCHANGED vars
  BY <1>1 DEF vars, dir, history, TypeInv
<1>. QED  BY <1>1, PostChunkTypes, RunTaskTypes, EditTypes, RestartTypes DEF Next

-----------------------------------------------------------------------------
(* DELETE.                                                                 *)

(* Before the layer is posted there is nothing of it.                      *)
Unborn ==
    layer = "none" => /\ task = NoTask /\ info = None /\ input = NoInput
                      /\ \A p \in Procs : request[p].pc = "idle"

Ending == layer \in {"input_file", "input_chunk", "row", "deleted"}

(* How far DELETE is, what it has deleted does not come back: the task has *)
(* ended, and without the directory no chunk is saved.                     *)
DeletedSoFar ==
    Ending /\ ~outlived =>
        /\ ~Active
        /\ layer # "input_file" => input = NoInput
        /\ layer \in {"row", "deleted"} => info = None /\ parts = Absent /\ chunks = Absent

DInv == TypeInv /\ Unborn /\ DeletedSoFar

(* The task does nothing unless it is active.                              *)
LEMMA RunTaskFacts == ASSUME RunTask PROVE Active /\ TaskOnly
BY DEF RunTask, StartTask, LookAgain, Look, LookAt, MergeChunk, ForgetTotal, AllSaved, Count, CheckFiles, TimeOut,
       NoticeAbort, TaskOnly, Active

LEMMA RunTaskDeleted == ASSUME DInv, RunTask PROVE Unborn' /\ DeletedSoFar'
<1>1. Active /\ UNCHANGED <<layer, outlived, request>>
  BY RunTaskFacts DEF TaskOnly
<1>2. layer # "none"
  BY <1>1 DEF DInv, Unborn, NoTask, Active
<1>. QED  BY <1>1, <1>2 DEF DInv, Unborn, DeletedSoFar, Ending

LEMMA PostChunkDeleted ==
    ASSUME DInv, NEW p \in Procs, PostChunk(p)
    PROVE  Unborn' /\ DeletedSoFar'
<1>1. UNCHANGED <<layer, info, input, outlived, task>>
  BY DEF PostChunk, SendChunk, OpenPart, WritePart, MovePart, history
<1>2. Active' <=> Active
  BY <1>1 DEF Active
<1>3. ASSUME layer = "none" PROVE FALSE
  BY <1>3 DEF PostChunk, SendChunk, OpenPart, WritePart, MovePart, DInv, Unborn
<1>4. ASSUME layer \in {"row", "deleted"}, ~outlived PROVE parts' = Absent /\ chunks' = Absent
  <2>1. info = None /\ parts = Absent /\ chunks = Absent
    BY <1>4 DEF DInv, DeletedSoFar, Ending
  <2>2. CASE MovePart(p)
    <3>1. request[p].chunk \in Chunks
      BY <2>2 DEF MovePart, DInv, TypeInv
    <3>. QED  BY <2>1, <2>2, <3>1 DEF MovePart, Absent
  <2>. QED  BY <2>1, <2>2 DEF PostChunk, SendChunk, OpenPart, WritePart
<1>. QED  BY <1>1, <1>2, <1>3, <1>4 DEF DInv, Unborn, DeletedSoFar, Ending

LEMMA EditDeleted == ASSUME DInv, Edit PROVE Unborn' /\ DeletedSoFar'
<1>1. layer' # "none"
  BY DEF Edit, PostNames, PostFiles, PatchNames, PatchFiles, PatchNamesRaises, Delete, Aborted, DeleteInputFile,
         DeleteInputChunk, DeleteRow
<1>2. Unborn'
  BY <1>1 DEF Unborn
<1>3. DeletedSoFar'
  <2>1. \/ ~Ending' \/ Aborted \/ DeleteInputFile \/ DeleteInputChunk \/ DeleteRow
    BY DEF Edit, PostNames, PostFiles, PatchNames, PatchFiles, PatchNamesRaises, Delete, Ending
  <2>2. CASE Aborted
    BY <2>2 DEF Aborted, DeletedSoFar, Active
  <2>3. CASE DeleteInputFile
    BY <2>3 DEF DeleteInputFile, DInv, DeletedSoFar, Ending, Active, history
  <2>4. CASE DeleteInputChunk
    BY <2>4 DEF DeleteInputChunk, DeleteDir, DInv, DeletedSoFar, Ending, Active, history
  <2>5. CASE DeleteRow
    BY <2>5 DEF DeleteRow, dir, DInv, DeletedSoFar, Ending, Active, history
  <2>. QED  BY <2>1, <2>2, <2>3, <2>4, <2>5 DEF DeletedSoFar
<1>. QED  BY <1>2, <1>3

LEMMA RestartDeleted == ASSUME DInv, Restart PROVE Unborn' /\ DeletedSoFar'
<1>1. ~Active'
  BY DEF Restart, NoTask, Active
<1>2. \A p \in Procs : request'[p].pc = "idle"
  BY DEF Restart, Idle
<1>. QED  BY <1>1, <1>2 DEF Restart, DInv, Unborn, DeletedSoFar, Ending, history

LEMMA InitDInv == Init => DInv
<1> SUFFICES ASSUME Init PROVE Unborn /\ DeletedSoFar
  BY InitTypes DEF DInv
<1>. QED  BY DEF Init, Unborn, DeletedSoFar, Ending, NoTask, Active, Idle

LEMMA StepDInv == DInv /\ [Next]_vars => DInv'
<1> SUFFICES ASSUME DInv, [Next]_vars PROVE DInv'
  OBVIOUS
<1>1. TypeInv'
  BY StepTypes DEF DInv
<1>2. CASE UNCHANGED vars
  BY <1>1, <1>2 DEF vars, dir, history, DInv, Unborn, DeletedSoFar, Ending, Active
<1>. QED  BY <1>1, <1>2, RunTaskDeleted, PostChunkDeleted, EditDeleted, RestartDeleted DEF Next, DInv

LEMMA DInvHolds == Spec => []DInv
BY InitDInv, StepDInv, PTL DEF Spec

(* Whatever requests are still handled, and if Layman is restarted between *)
(* the steps of DELETE: neither files nor chunks are left of the layer,    *)
(* unless its task has gone on beside DELETE.                              *)
(* Code: delete_layer of input_file and of input_chunk.                    *)
THEOREM WholeDeleted == Spec => []DeletedWhole
<1>1. DInv => DeletedWhole
  BY DEF DInv, DeletedSoFar, Ending, DeletedWhole
<1>. QED  BY <1>1, DInvHolds, PTL

-----------------------------------------------------------------------------
(* Chunks of a file, in their order.                                       *)

Collecting == task.pc \in {"wait", "look", "merge", "hdel"}

Accepted == task.pc \in {"checks", "done"}

(* The files of the task are those announced, as long as it collects them. *)
FilesAnnounced == layer = "there" /\ Collecting => info = task.files /\ info # None

AllAccepted == layer = "there" /\ Accepted => \A f \in task.files : input[f] # None

Merging(f) == task.pc = "merge" /\ task.file = f

Written(f, n) == \E i \in DOMAIN input[f] : input[f][i].number = n

(* A file that is there has all its chunks, but for those that are still   *)
(* to be written, which are stored.                                        *)
FileInOrder(f) ==
    /\ InTurn(f, input[f])
    /\ \A n \in 1 .. Total[f] : Written(f, n) \/ (Merging(f) /\ n >= task.at)
    /\ Merging(f) =>
          /\ Len(input[f]) = 0 => task.at = 1
          /\ Len(input[f]) > 0 =>
                input[f][Len(input[f])].number = IF task.at = 1 THEN Total[f] ELSE task.at - 1
          /\ \A n \in task.at .. Total[f] : chunks[<<f, n>>] # 0
    /\ ~Merging(f) => Len(input[f]) > 0 /\ input[f][Len(input[f])].number = Total[f]

FilesInOrder ==
    layer = "there" /\ (Active \/ Accepted) => \A f \in Files : input[f] # None => FileInOrder(f)

CInv == DInv /\ FilesAnnounced /\ AllAccepted /\ FilesInOrder

(* A chunk that follows the last one is appended.                          *)
LEMMA AppendInTurn ==
    ASSUME NEW f \in Files, NEW s \in Seq(Pieces), NEW x \in Pieces, InTurn(f, s),
           Len(s) = 0 => x.number = 1,
           Len(s) > 0 => x.number = IF s[Len(s)].number = Total[f] THEN 1 ELSE s[Len(s)].number + 1
    PROVE  /\ InTurn(f, Append(s, x))
           /\ Len(Append(s, x)) = Len(s) + 1 /\ Append(s, x)[Len(s) + 1] = x
           /\ \A i \in DOMAIN s : i \in DOMAIN Append(s, x) /\ Append(s, x)[i] = s[i]
           /\ Len(s) + 1 \in DOMAIN Append(s, x)
<1> DEFINE t == Append(s, x)
<1>1. /\ t \in Seq(Pieces) /\ Len(t) = Len(s) + 1 /\ Len(s) \in Nat
      /\ DOMAIN s = 1 .. Len(s) /\ DOMAIN t = 1 .. Len(s) + 1
      /\ t[Len(s) + 1] = x /\ \A i \in 1 .. Len(s) : t[i] = s[i]
  BY AppendProperties, LenProperties
<1> HIDE DEF t
<1>2. t[1].number = 1
  BY <1>1 DEF InTurn
<1>3. \A i \in 1 .. Len(t) - 1 :
         t[i + 1].number = IF t[i].number = Total[f] THEN 1 ELSE t[i].number + 1
  <2> SUFFICES ASSUME NEW i \in 1 .. Len(s)
               PROVE  t[i + 1].number = IF t[i].number = Total[f] THEN 1 ELSE t[i].number + 1
    BY <1>1
  <2>1. CASE i = Len(s)
    BY <1>1, <2>1
  <2>2. CASE i # Len(s)
    <3>0. Len(s) \in Nat
      BY <1>1
    <3>1. i \in 1 .. Len(s) - 1 /\ i + 1 \in 1 .. Len(s)
      BY <2>2, <3>0
    <3>. QED  BY <1>1, <3>1 DEF InTurn
  <2>. QED  BY <2>1, <2>2
<1>4. InTurn(f, t)
  BY <1>2, <1>3 DEF InTurn
<1>5. Len(s) + 1 \in DOMAIN t
  BY <1>1
<1>. QED  BY <1>1, <1>4, <1>5 DEF t

(* A file is as it was unless it is written to, or begins to be merged.    *)
LEMMA FileSame ==
    ASSUME NEW f, input'[f] = input[f], FileInOrder(f), Merging(f)' <=> Merging(f),
           Merging(f) => task'.at = task.at /\ \A n \in task.at .. Total[f] : chunks[<<f, n>>] # 0 => chunks'[<<f, n>>] # 0
    PROVE  FileInOrder(f)'
<1>1. \A n : Written(f, n)' <=> Written(f, n)
  BY DEF Written
<1>. QED  BY <1>1 DEF FileInOrder

(* What has no effect on files and the task.                               *)
LEMMA PostChunkFiles ==
    ASSUME CInv, NEW p \in Procs, PostChunk(p)
    PROVE  FilesAnnounced' /\ AllAccepted' /\ FilesInOrder'
<1>1. UNCHANGED <<layer, info, input, task>>
  BY DEF PostChunk, SendChunk, OpenPart, WritePart, MovePart, history
<1>2. \A c \in Chunks : chunks[c] # 0 => chunks'[c] # 0
  BY DEF PostChunk, SendChunk, OpenPart, WritePart, MovePart, CInv, DInv, TypeInv
<1>3. FilesInOrder'
  <2> SUFFICES ASSUME NEW f \in Files, FileInOrder(f) PROVE FileInOrder(f)'
    BY <1>1 DEF CInv, FilesInOrder, Active, Accepted
  <2>1. Merging(f)' <=> Merging(f)
    BY <1>1 DEF Merging
  <2>2. Merging(f) => \A n \in task.at .. Total[f] : <<f, n>> \in Chunks
    <3>1. Merging(f) => task.at \in 1 .. Total[f] /\ Total[f] \in Nat
      BY ChunkUploadAssumption DEF Merging, CInv, DInv, TypeInv, TaskOK
    <3>. QED  BY <3>1, ChunkPairs
  <2>. QED  BY <1>1, <1>2, <2>1, <2>2, FileSame
<1>. QED  BY <1>1, <1>3 DEF CInv, FilesAnnounced, AllAccepted, Collecting, Accepted

(* Steps of the task that neither write nor begin to.                      *)
LEMMA OtherFiles ==
    ASSUME CInv, layer = "there", Active \/ Accepted, UNCHANGED input,
           task.pc # "merge", task'.pc # "merge"
    PROVE  FilesInOrder'
<1> SUFFICES ASSUME NEW f \in Files, input[f] # None PROVE FileInOrder(f)'
  BY DEF FilesInOrder
<1>1. FileInOrder(f)
  BY DEF CInv, FilesInOrder
<1>2. ~Merging(f) /\ ~Merging(f)'
  BY DEF Merging
<1>. QED  BY <1>1, <1>2, FileSame

(* A complete file is opened.                                              *)
LEMMA LookAtFiles ==
    ASSUME CInv, layer = "there", NEW f \in Files, LookAt(f)
    PROVE  FilesInOrder'
<1>0. task.pc = "look" /\ Active
  BY DEF LookAt, Active
<1>1. CASE /\ Complete(f)
           /\ task' = [task EXCEPT !.pc = "merge", !.file = f, !.at = 1, !.left = @ \ {f}]
           /\ input' = [input EXCEPT ![f] = IF @ = None THEN <<>> ELSE @]
  <2>1. task'.pc = "merge" /\ task'.file = f /\ task'.at = 1
    BY <1>1 DEF CInv, DInv, TypeInv, TaskRecord
  <2>2. input'[f] = (IF input[f] = None THEN <<>> ELSE input[f]) /\ \A g \in Files : g # f => input'[g] = input[g]
    BY <1>1 DEF CInv, DInv, TypeInv
  <2>3. ASSUME NEW g \in Files, g # f, input[g] # None PROVE FileInOrder(g)'
    <3>1. FileInOrder(g) /\ ~Merging(g) /\ ~Merging(g)'
      BY <1>0, <2>1, <2>3 DEF CInv, FilesInOrder, Merging
    <3>. QED  BY <2>2, <2>3, <3>1, FileSame
  <2>4. FileInOrder(f)'
    <3>1. Total[f] \in Nat /\ Merging(f)' /\ ~Merging(f)
      BY <1>0, <2>1, ChunkUploadAssumption DEF Merging
    <3>2. \A n \in 1 .. Total[f] : chunks'[<<f, n>>] # 0
      BY <1>1 DEF LookAt, Complete, ChunksOf, dir
    <3>3. InTurn(f, input[f])'
      <4>1. CASE input[f] = None
        BY <2>2, <4>1 DEF InTurn
      <4>2. CASE input[f] # None
        BY <1>0, <2>2, <4>2 DEF CInv, FilesInOrder, FileInOrder
      <4>. QED  BY <4>1, <4>2
    <3>4. Len(input'[f]) = 0 \/ (Len(input'[f]) > 0 /\ input'[f][Len(input'[f])].number = Total[f])
      <4>1. CASE input[f] = None
        BY <2>2, <4>1
      <4>2. CASE input[f] # None
        BY <1>0, <2>2, <3>1, <4>2 DEF CInv, FilesInOrder, FileInOrder
      <4>. QED  BY <4>1, <4>2
    <3>. QED  BY <2>1, <3>1, <3>2, <3>3, <3>4 DEF FileInOrder
  <2>. QED  BY <2>2, <2>3, <2>4 DEF FilesInOrder
<1>2. CASE task' = [task EXCEPT !.left = @ \ {f}] /\ UNCHANGED input
  <2>1. task'.pc = "look"
    BY <1>0, <1>2 DEF CInv, DInv, TypeInv, TaskRecord
  <2>. QED  BY <1>0, <1>2, <2>1, OtherFiles
<1>. QED  BY <1>1, <1>2 DEF LookAt

(* A chunk is written.                                                     *)
LEMMA MergeChunkFiles == ASSUME CInv, layer = "there", MergeChunk PROVE FilesInOrder'
<1>0. PICK f, at : f = task.file /\ at = task.at
  OBVIOUS
<1> DEFINE c == <<f, at>>
           x == Piece(at, Content(c))
<1>1. /\ task.pc = "merge" /\ f \in Files /\ at \in Nat /\ at >= 1 /\ at <= Total[f] /\ Total[f] \in Nat
      /\ task \in TaskRecord /\ c \in Chunks /\ Active /\ Merging(f)
  <2>1. task.pc = "merge" /\ f \in Files /\ at \in 1 .. Total[f] /\ Total[f] \in Nat /\ task \in TaskRecord
    BY <1>0, ChunkUploadAssumption DEF MergeChunk, CInv, DInv, TypeInv, TaskOK, TaskRecord
  <2>2. c \in Chunks
    BY <2>1, ChunkPairs
  <2>. QED  BY <1>0, <2>1, <2>2 DEF Active, Merging
<1>2. x \in Pieces /\ x.number = at
  <2>1. Content(c) \in Nat
    BY <1>1, ContentGood DEF CInv, DInv
  <2>. QED  BY <1>1, <2>1, PieceGood
<1>3. \/ /\ chunks[c] # 0
         /\ input' = IF input[f] = None THEN input ELSE [input EXCEPT ![f] = Append(input[f], x)]
         /\ chunks' = [chunks EXCEPT ![c] = 0]
         /\ task' = IF at = Total[f] THEN [task EXCEPT !.pc = "hdel"] ELSE [task EXCEPT !.at = at + 1]
      \/ Ends("failed")
  BY <1>0 DEF MergeChunk
<1>4. layer' = "there"
  BY DEF MergeChunk, TaskOnly
<1>5. \A g \in Files : input[g] # None => FileInOrder(g)
  BY <1>1 DEF CInv, FilesInOrder
<1>6. CASE Ends("failed")
  <2>1. task'.pc = "failed"
    BY <1>6 DEF Ends, NoTask
  <2>. QED  BY <2>1 DEF FilesInOrder, Active, Accepted
<1>7. CASE /\ chunks[c] # 0
           /\ input' = IF input[f] = None THEN input ELSE [input EXCEPT ![f] = Append(input[f], x)]
           /\ chunks' = [chunks EXCEPT ![c] = 0]
           /\ task' = IF at = Total[f] THEN [task EXCEPT !.pc = "hdel"] ELSE [task EXCEPT !.at = at + 1]
  <2>1. /\ task'.file = f
        /\ at = Total[f] => task'.pc = "hdel"
        /\ at # Total[f] => task'.pc = "merge" /\ task'.at = at + 1
    BY <1>0, <1>1, <1>7 DEF TaskRecord
  <2>2. /\ \A g \in Files : g # f => input'[g] = input[g]
        /\ input[f] = None => input'[f] = None
        /\ input[f] # None => input'[f] = Append(input[f], x)
    <3>1. input \in [Files -> {None} \cup Seq(Pieces)]
      BY DEF CInv, DInv, TypeInv
    <3>. QED  BY <1>1, <1>7, <3>1
  <2>3. ASSUME NEW g \in Files, g # f, input[g] # None PROVE FileInOrder(g)'
    <3>1. ~Merging(g) /\ ~Merging(g)'
      BY <1>0, <1>1, <2>1, <2>3 DEF Merging
    <3>. QED  BY <1>5, <2>2, <2>3, <3>1, FileSame
  <2>4. ASSUME input[f] # None PROVE FileInOrder(f)'
    <3> DEFINE s == input[f]
               t == Append(s, x)
    <3>1. s \in Seq(Pieces) /\ FileInOrder(f) /\ input'[f] = t /\ Len(s) \in Nat
      <4>1. s \in Seq(Pieces)
        BY <1>1, <2>4 DEF CInv, DInv, TypeInv
      <4>. QED  BY <1>1, <1>5, <2>2, <2>4, <4>1
    <3>2. /\ InTurn(f, s)
          /\ Len(s) = 0 => at = 1
          /\ Len(s) > 0 => s[Len(s)].number = IF at = 1 THEN Total[f] ELSE at - 1
          /\ \A n \in 1 .. Total[f] : (\E i \in DOMAIN s : s[i].number = n) \/ n >= at
          /\ \A n \in at .. Total[f] : chunks[<<f, n>>] # 0
      BY <1>0, <1>1, <3>1 DEF FileInOrder, Written
    <3> HIDE DEF x, c, s
    <3>3. /\ InTurn(f, t)
          /\ Len(t) = Len(s) + 1 /\ t[Len(s) + 1] = x
          /\ \A i \in DOMAIN s : i \in DOMAIN t /\ t[i] = s[i]
          /\ Len(s) + 1 \in DOMAIN t
      BY <1>1, <1>2, <3>1, <3>2, AppendInTurn
    <3> HIDE DEF t
    <3>4. InTurn(f, input[f])'
      BY <3>1, <3>3
    <3>5. Len(input'[f]) > 0 /\ input'[f][Len(input'[f])].number = at
      BY <1>2, <3>1, <3>3
    <3>6. ASSUME NEW n \in 1 .. Total[f], ~Written(f, n)' PROVE n >= at + 1
      <4>1. Written(f, at)'
        BY <1>2, <3>1, <3>3 DEF Written
      <4>2. ~\E i \in DOMAIN s : s[i].number = n
        BY <3>1, <3>3, <3>6 DEF Written
      <4>3. n >= at /\ n # at
        BY <3>2, <3>6, <4>1, <4>2
      <4>. QED  BY <1>1, <4>3
    <3>7. CASE at = Total[f]
      <4>1. ~Merging(f)'
        BY <2>1, <3>7 DEF Merging
      <4>2. \A n \in 1 .. Total[f] : Written(f, n)'
        BY <1>1, <3>6, <3>7
      <4>. QED  BY <3>4, <3>5, <3>7, <4>1, <4>2 DEF FileInOrder
    <3>8. CASE at # Total[f]
      <4>1. Merging(f)' /\ task'.at = at + 1
        BY <2>1, <3>8 DEF Merging
      <4>2. \A n \in at + 1 .. Total[f] : chunks'[<<f, n>>] # 0
        <5> SUFFICES ASSUME NEW n \in at + 1 .. Total[f] PROVE chunks'[<<f, n>>] # 0
          OBVIOUS
        <5>1. n \in at .. Total[f] /\ n # at
          BY <1>1
        <5>2. <<f, n>> # c
          BY <5>1 DEF c
        <5>. QED  BY <1>7, <3>2, <5>1, <5>2 DEF CInv, DInv, TypeInv
      <4>3. at + 1 # 1 /\ at + 1 - 1 = at
        BY <1>1
      <4>4. input'[f][Len(input'[f])].number = IF task'.at = 1 THEN Total[f] ELSE task'.at - 1
        <5>1. input'[f][Len(input'[f])].number = IF at + 1 = 1 THEN Total[f] ELSE at + 1 - 1
          BY <3>5, <4>3
        <5>. QED  BY <1>1, <4>1, <5>1
      <4>5. \A n \in 1 .. Total[f] : Written(f, n)' \/ (Merging(f)' /\ n >= task'.at)
        BY <3>6, <4>1
      <4>6. \A n \in task'.at .. Total[f] : chunks'[<<f, n>>] # 0
        BY <4>1, <4>2
      <4>7. Len(input'[f]) # 0
        BY <3>5
      <4>. QED  BY <3>4, <4>1, <4>4, <4>5, <4>6, <4>7 DEF FileInOrder
    <3>. QED  BY <3>7, <3>8
  <2>. QED  BY <2>2, <2>3, <2>4 DEF FilesInOrder
<1>. QED  BY <1>3, <1>6, <1>7

LEMMA RunTaskFiles == ASSUME CInv, RunTask PROVE FilesAnnounced' /\ AllAccepted' /\ FilesInOrder'
<1>1. Active /\ layer' = layer
  BY RunTaskFacts DEF TaskOnly
<1> SUFFICES ASSUME layer = "there" PROVE FilesAnnounced' /\ AllAccepted' /\ FilesInOrder'
  BY <1>1 DEF FilesAnnounced, AllAccepted, FilesInOrder
<1>2. task \in TaskRecord
  BY DEF CInv, DInv, TypeInv
<1>3. \A pc \in Pcs : Ends(pc) => task'.pc = pc /\ task'.files = task.files
  BY DEF Ends, NoTask
<1>4. ASSUME task'.pc \in {"failed", "aborted"} PROVE FilesAnnounced' /\ AllAccepted' /\ FilesInOrder'
  BY <1>4 DEF FilesAnnounced, AllAccepted, FilesInOrder, Collecting, Active, Accepted
<1>5. CASE Look /\ task.pc \in {"queued", "wait"}
  <2>1. CASE info # None /\ task' = [task EXCEPT !.pc = "look", !.files = info, !.left = info]
    <3>1. task'.pc = "look" /\ task'.files = info
      BY <1>2, <2>1 DEF TaskRecord
    <3>2. UNCHANGED <<info, input>>
      BY <1>5 DEF Look, dir
    <3>3. FilesInOrder'
      BY <1>1, <1>5, <3>1, <3>2, OtherFiles
    <3>. QED  BY <2>1, <3>1, <3>2, <3>3 DEF FilesAnnounced, AllAccepted, Accepted
  <2>. QED  BY <1>3, <1>4, <1>5, <2>1 DEF Look, Pcs
<1>6. ASSUME NEW f \in Files, LookAt(f) PROVE FilesAnnounced' /\ AllAccepted' /\ FilesInOrder'
  <2>1. task'.pc \in {"merge", "look"} /\ task'.files = task.files /\ task.pc = "look" /\ info' = info
    BY <1>2, <1>6 DEF LookAt, TaskRecord, dir
  <2>. QED  BY <1>6, <2>1, LookAtFiles DEF CInv, FilesAnnounced, AllAccepted, Collecting, Accepted
<1>7. CASE MergeChunk
  <2>1. task'.pc \in {"merge", "hdel", "failed"} /\ task'.files = task.files /\ task.pc = "merge" /\ info' = info
    BY <1>2, <1>3, <1>7 DEF MergeChunk, TaskRecord, Pcs
  <2>. QED  BY <1>7, <2>1, MergeChunkFiles DEF CInv, FilesAnnounced, AllAccepted, Collecting, Accepted
<1>8. CASE ForgetTotal
  <2>1. task'.pc = "look" /\ task'.files = task.files /\ task.pc = "hdel" /\ UNCHANGED <<info, input>>
    BY <1>2, <1>8 DEF ForgetTotal, TaskRecord
  <2>. QED  BY <1>1, <2>1, OtherFiles DEF CInv, FilesAnnounced, AllAccepted, Collecting, Accepted
<1>9. CASE AllSaved
  <2>1. task'.pc = "checks" /\ task'.files = task.files /\ task.pc = "look" /\ input' = input
    BY <1>3, <1>9 DEF AllSaved, Pcs
  <2>2. \A f \in task.files : input[f] # None
    BY <1>9 DEF AllSaved, Saved
  <2>. QED  BY <1>1, <2>1, <2>2, OtherFiles DEF FilesAnnounced, AllAccepted, Collecting
<1>10. CASE Count /\ ~Ends("failed")
  <2>1. task'.pc = "wait" /\ task'.files = task.files /\ task.pc = "look" /\ UNCHANGED <<info, input>>
    BY <1>2, <1>10 DEF Count, TaskRecord, dir
  <2>. QED  BY <1>1, <2>1, OtherFiles DEF CInv, FilesAnnounced, AllAccepted, Collecting, Accepted
<1>11. CASE CheckFiles /\ Ends("done")
  <2>1. task'.pc = "done" /\ task'.files = task.files /\ task.pc = "checks" /\ input' = input
    BY <1>3, <1>11 DEF CheckFiles, Pcs
  <2>. QED  BY <1>1, <2>1, OtherFiles DEF CInv, FilesAnnounced, AllAccepted, Collecting, Accepted
<1>12. CASE Ends("failed") \/ Ends("aborted")
  BY <1>3, <1>4, <1>12 DEF Pcs
<1>. QED  BY <1>5, <1>6, <1>7, <1>8, <1>9, <1>10, <1>11, <1>12
          DEF RunTask, StartTask, LookAgain, CheckFiles, TimeOut, NoticeAbort

LEMMA EditFiles == ASSUME CInv, Edit PROVE FilesAnnounced' /\ AllAccepted' /\ FilesInOrder'
<1>1. CASE layer' # "there"
  BY <1>1 DEF FilesAnnounced, AllAccepted, FilesInOrder
<1>2. ASSUME NEW files, PostNames(files) \/ PatchNames(files)
      PROVE  FilesAnnounced' /\ AllAccepted' /\ FilesInOrder'
  <2>1. input' = NoInput
    BY <1>2 DEF PostNames, PatchNames, CInv, DInv, Unborn
  <2>2. task'.pc = "queued"
    BY <1>2 DEF PostNames, PatchNames, Announce, NoTask
  <2>. QED  BY <2>1, <2>2 DEF NoInput, FilesAnnounced, AllAccepted, FilesInOrder, Collecting, Accepted
<1>3. CASE task' = NoTask
  BY <1>3 DEF NoTask, FilesAnnounced, AllAccepted, FilesInOrder, Collecting, Accepted, Active
<1>4. \/ \E files : PostNames(files) \/ PatchNames(files)
      \/ task' = NoTask
      \/ layer' # "there"
  BY DEF Edit, PostFiles, PatchFiles, PatchNamesRaises, Delete, Aborted, DeleteInputFile, DeleteInputChunk, DeleteRow,
         CInv, DInv, Unborn
<1>. QED  BY <1>1, <1>2, <1>3, <1>4

LEMMA InitCInv == Init => CInv
<1> SUFFICES ASSUME Init PROVE CInv
  OBVIOUS
<1>. QED  BY InitDInv DEF Init, CInv, FilesAnnounced, AllAccepted, FilesInOrder

LEMMA StepCInv == CInv /\ [Next]_vars => CInv'
<1> SUFFICES ASSUME CInv, [Next]_vars PROVE CInv'
  OBVIOUS
<1>1. DInv'
  BY StepDInv DEF CInv
<1>2. CASE UNCHANGED vars
  <2>1. FilesInOrder'
    BY <1>2 DEF vars, dir, CInv, FilesInOrder, Active, Accepted, FileInOrder, Written, Merging
  <2>. QED  BY <1>1, <1>2, <2>1 DEF vars, dir, CInv, FilesAnnounced, AllAccepted, Collecting, Accepted
<1>3. CASE Restart
  BY <1>1, <1>3 DEF Restart, NoTask, CInv, FilesAnnounced, AllAccepted, FilesInOrder, Collecting, Accepted, Active
<1>. QED  BY <1>1, <1>2, <1>3, PostChunkFiles, RunTaskFiles, EditFiles DEF Next, CInv

LEMMA CInvHolds == Spec => []CInv
BY InitCInv, StepCInv, PTL DEF Spec

(* While an upload is awaited, a chunk that GET says is there is stored or *)
(* written, for any number of files and chunks and in any order.           *)
(* Code: layer_file_chunk_exists.                                          *)
THEOREM ChunkIsStored == Spec => []ExistsIsStored
<1>1. CInv => ExistsIsStored
  <2> SUFFICES ASSUME CInv, layer = "there", Active, NEW c \in Chunks, input[c[1]] # None, chunks[c] = 0
               PROVE  \E i \in DOMAIN input[c[1]] : input[c[1]][i].number = c[2]
    BY DEF ExistsIsStored, ChunkExists
  <2>1. c[1] \in Files /\ c[2] \in 1 .. Total[c[1]] /\ c = <<c[1], c[2]>>
    BY ChunkPairs
  <2>2. FileInOrder(c[1])
    BY <2>1 DEF CInv, FilesInOrder
  <2>3. Merging(c[1]) => ~(c[2] >= task.at)
    <3>1. c[2] >= task.at => c[2] \in task.at .. Total[c[1]]
      BY <2>1, ChunkUploadAssumption DEF CInv, DInv, TypeInv, TaskRecord
    <3>. QED  BY <2>1, <2>2, <3>1 DEF FileInOrder
  <2>. QED  BY <2>1, <2>2, <2>3 DEF FileInOrder, Written
<1>. QED  BY <1>1, CInvHolds, PTL

-----------------------------------------------------------------------------
(* Chunks that are not written to their end.                               *)

Busy(p, c) == request[p].pc # "idle" /\ request[p].chunk = c

BusyTwice == \A p, q \in Procs : \A c \in Chunks : p # q /\ Busy(p, c) /\ Busy(q, c) => c \in twice

(* A part that is not written to its end is still written by the request   *)
(* that has opened it last, and it becomes a chunk only if another request *)
(* moves it.  After a restart nobody has it.                               *)
Owned(x) ==
    /\ x[1] = "chunk" => x[2] \in twice
    /\ x[1] = "part" /\ x[3] \in Procs => request[x[3]].pc = "write" /\ request[x[3]].chunk = x[2]
    /\ x[1] = "part" /\ x[3] = None =>
          \A p \in Procs : request[p].pc \in {"write", "move"} => request[p].chunk # x[2]

CutOwned == \A x \in cut : Owned(x)

PiecesWhole(f) == \A i \in DOMAIN input[f] : input[f][i].upload = 0 => <<f, input[f][i].number>> \in twice

AllWhole ==
    layer = "there" /\ (Active \/ Accepted) => \A f \in Files : input[f] # None => PiecesWhole(f)

WInv == CInv /\ BusyTwice /\ CutOwned /\ AllWhole

LEMMA PostChunkWhole ==
    ASSUME CInv, BusyTwice, CutOwned, AllWhole, NEW p \in Procs, PostChunk(p)
    PROVE  BusyTwice' /\ CutOwned' /\ AllWhole'
<1>0. PICK c : c = request[p].chunk
  OBVIOUS
<1>1. UNCHANGED <<layer, input, task>> /\ twice \subseteq twice'
  BY DEF PostChunk, SendChunk, OpenPart, WritePart, MovePart, history
<1>2. TypeInv
  BY DEF CInv, DInv
<1>3. AllWhole'
  BY <1>1 DEF AllWhole, PiecesWhole, Active, Accepted
<1>4. request \in [Procs -> RequestRecord] /\ cut \in SUBSET Marks
  BY <1>2 DEF TypeInv
<1>5. ASSUME NEW d \in Chunks, SendChunk(p, d) PROVE BusyTwice' /\ CutOwned'
  <2>1. /\ request[p].pc = "idle" /\ cut' = cut
        /\ request' = [request EXCEPT ![p] = [pc |-> "save", chunk |-> d, upload |-> upload]]
        /\ twice' = twice \cup {b \in {d} : \E q \in Procs : request[q].pc # "idle" /\ request[q].chunk = b}
    BY <1>5 DEF SendChunk
  <2>2. /\ request'[p].pc = "save" /\ request'[p].chunk = d
        /\ \A q \in Procs : q # p => request'[q] = request[q]
    BY <1>4, <2>1
  <2>3. \A q \in Procs : request[q].pc # "idle" /\ request[q].chunk = d => d \in twice'
    BY <2>1
  <2>4. BusyTwice'
    BY <1>1, <2>2, <2>3 DEF BusyTwice, Busy
  <2>5. ASSUME NEW x \in cut PROVE Owned(x)'
    BY <1>1, <2>1, <2>2 DEF CutOwned, Owned
  <2>. QED  BY <2>1, <2>4, <2>5 DEF CutOwned
<1>6. ASSUME NEW pc \in {"write", "move", "idle"}, request[p].pc # "idle",
             \A q \in Procs : q # p => request'[q] = request[q], request'[p].pc = pc, twice' = twice,
             pc # "idle" => request'[p].chunk = c
      PROVE  BusyTwice'
  BY <1>0, <1>6 DEF BusyTwice, Busy
<1>7. CASE OpenPart(p)
  <2>1. request[p].pc = "save" /\ c \in Chunks /\ twice' = twice
    BY <1>0, <1>2, <1>7 DEF OpenPart, TypeInv
  <2>2. \A q \in Procs : q # p => request'[q] = request[q]
    BY <1>4, <1>7 DEF OpenPart
  <2>3. CASE request' = [request EXCEPT ![p].pc = "write"] /\ cut' = {x \in cut : x[1] = "chunk" \/ x[2] # c} \cup {<<"part", c, p>>}
    <3>1. request'[p].pc = "write" /\ request'[p].chunk = c
      BY <1>0, <1>4, <2>3 DEF RequestRecord
    <3>2. ASSUME NEW x \in cut, x[1] = "chunk" \/ x[2] # c PROVE Owned(x)'
      BY <2>1, <2>2, <3>1, <3>2, ChunkUploadAssumption DEF CutOwned, Owned
    <3>3. Owned(<<"part", c, p>>)'
      BY <3>1, ChunkUploadAssumption DEF Owned
    <3>. QED  BY <1>3, <1>6, <2>1, <2>2, <2>3, <3>1, <3>2, <3>3 DEF CutOwned
  <2>4. CASE request' = [request EXCEPT ![p] = Idle] /\ UNCHANGED cut
    <3>1. request'[p].pc = "idle"
      BY <1>4, <2>4 DEF Idle
    <3>2. ASSUME NEW x \in cut PROVE Owned(x)'
      BY <2>1, <2>2, <3>1 DEF CutOwned, Owned
    <3>. QED  BY <1>3, <1>6, <2>1, <2>2, <2>4, <3>1, <3>2 DEF CutOwned
  <2>. QED  BY <1>0, <1>7, <2>3, <2>4 DEF OpenPart
<1>8. CASE WritePart(p)
  <2>1. request[p].pc = "write" /\ request' = [request EXCEPT ![p].pc = "move"] /\ cut' = {x \in cut : x[3] # p}
        /\ twice' = twice
    BY <1>8 DEF WritePart, history
  <2>2. request'[p].pc = "move" /\ request'[p].chunk = c /\ \A q \in Procs : q # p => request'[q] = request[q]
    BY <1>0, <1>4, <2>1 DEF RequestRecord
  <2>3. ASSUME NEW x \in cut, x[3] # p PROVE Owned(x)'
    BY <1>0, <2>1, <2>2, <2>3 DEF CutOwned, Owned
  <2>. QED  BY <1>3, <1>6, <2>1, <2>2, <2>3 DEF CutOwned
<1>9. CASE MovePart(p)
  <2>1. request[p].pc = "move" /\ c \in Chunks /\ twice' = twice
    BY <1>0, <1>2, <1>9 DEF MovePart, TypeInv, history
  <2>2. request'[p].pc = "idle" /\ \A q \in Procs : q # p => request'[q] = request[q]
    BY <1>4, <1>9 DEF MovePart, Idle
  <2>3. ASSUME NEW x \in cut PROVE Owned(x)'
    BY <2>1, <2>2 DEF CutOwned, Owned
  <2>4. ASSUME NEW x \in cut, x[1] = "part", x[2] = c PROVE Owned(<<"chunk", c, x[3]>>)'
    <3>1. x[3] \in Procs \cup {None} /\ Owned(x)
      BY <1>4, MarkParts DEF CutOwned
    <3>2. x[3] # None
      BY <1>0, <2>1, <2>4, <3>1 DEF Owned
    <3>3. request[x[3]].pc = "write" /\ request[x[3]].chunk = c /\ x[3] \in Procs
      BY <2>4, <3>1, <3>2 DEF Owned
    <3>4. c \in twice
      BY <1>0, <2>1, <3>3 DEF BusyTwice, Busy
    <3>. QED  BY <2>1, <3>4 DEF Owned
  <2>5. \A x \in cut' : x \in cut \/ \E y \in cut : y[1] = "part" /\ y[2] = c /\ x = <<"chunk", c, y[3]>>
    BY <1>0, <1>9 DEF MovePart
  <2>6. CutOwned'
    BY <2>3, <2>4, <2>5 DEF CutOwned
  <2>. QED  BY <1>3, <1>6, <2>1, <2>2, <2>6
<1>. QED  BY <1>3, <1>5, <1>7, <1>8, <1>9 DEF PostChunk

LEMMA RunTaskWhole ==
    ASSUME CInv, BusyTwice, CutOwned, AllWhole, RunTask
    PROVE  BusyTwice' /\ CutOwned' /\ AllWhole'
<1>1. UNCHANGED <<layer, request, twice>> /\ Active
  BY RunTaskFacts DEF TaskOnly
<1>2. cut' \subseteq cut
  BY DEF RunTask, StartTask, LookAgain, Look, LookAt, MergeChunk, ForgetTotal, AllSaved, DeleteDir, Count, CheckFiles,
         TimeOut, NoticeAbort, dir
<1>3. BusyTwice' /\ CutOwned'
  BY <1>1, <1>2 DEF BusyTwice, Busy, CutOwned, Owned
<1>4. TypeInv
  BY DEF CInv, DInv
<1> SUFFICES ASSUME layer = "there", NEW f \in Files, input'[f] # None PROVE PiecesWhole(f)'
  BY <1>1, <1>3 DEF AllWhole
<1>5. \A g \in Files : input[g] # None => PiecesWhole(g)
  BY <1>1 DEF AllWhole
<1>6. ASSUME input'[f] = input[f] PROVE PiecesWhole(f)'
  BY <1>1, <1>5, <1>6 DEF PiecesWhole
<1>7. ASSUME NEW g \in Files, LookAt(g) PROVE PiecesWhole(f)'
  <2>1. input'[f] = input[f] \/ input'[f] = <<>>
    BY <1>4, <1>7 DEF LookAt, TypeInv
  <2>. QED  BY <1>6, <2>1 DEF PiecesWhole
<1>8. CASE MergeChunk
  <2>1. PICK g, at : g = task.file /\ at = task.at
    OBVIOUS
  <2>2. g \in Files /\ at \in Nat /\ at \in 1 .. Total[g]
    BY <1>4, <1>8, <2>1, ChunkUploadAssumption DEF MergeChunk, TypeInv, TaskOK, TaskRecord
  <2>3. PICK c \in Chunks : c = <<g, at>>
    BY <2>2, ChunkPairs
  <2> DEFINE x == Piece(at, Content(c))
  <2>4. x \in Pieces /\ x.number = at /\ x.upload = Content(c)
    BY <1>4, <2>2, PieceGood, ContentGood
  <2>5. CASE f = g /\ input[g] # None /\ chunks[c] # 0 /\ input' = [input EXCEPT ![g] = Append(@, x)]
    <3>1. x.upload = 0 => c \in twice
      BY <2>4, <2>5, ContentGood DEF CutOwned, Owned
    <3>2. input[g] \in Seq(Pieces) /\ input'[g] = Append(input[g], x)
      BY <1>4, <2>2, <2>5 DEF TypeInv
    <3> HIDE DEF x
    <3>3. /\ \A i \in 1 .. Len(input[g]) : Append(input[g], x)[i] = input[g][i]
          /\ Append(input[g], x)[Len(input[g]) + 1] = x
          /\ DOMAIN Append(input[g], x) = 1 .. Len(input[g]) + 1
          /\ DOMAIN input[g] = 1 .. Len(input[g]) /\ Len(input[g]) \in Nat
      BY <2>4, <3>2, AppendProperties, LenProperties
    <3>4. PiecesWhole(g)
      BY <1>5, <2>2, <2>5
    <3> SUFFICES ASSUME NEW i \in 1 .. Len(input[g]) + 1, input'[g][i].upload = 0
                 PROVE  <<g, input'[g][i].number>> \in twice'
      BY <2>5, <3>2, <3>3 DEF PiecesWhole
    <3>5. CASE i = Len(input[g]) + 1
      BY <1>1, <2>3, <2>4, <3>1, <3>2, <3>3, <3>5
    <3>6. CASE i # Len(input[g]) + 1
      <4>1. i \in 1 .. Len(input[g]) /\ i \in DOMAIN input[g]
        BY <3>3, <3>6
      <4>. QED  BY <1>1, <3>2, <3>3, <3>4, <4>1 DEF PiecesWhole
    <3>. QED  BY <3>5, <3>6
  <2>6. \/ input'[f] = input[f]
        \/ f = g /\ input[g] # None /\ chunks[c] # 0 /\ input' = [input EXCEPT ![g] = Append(@, x)]
    BY <1>4, <1>8, <2>1, <2>2, <2>3 DEF MergeChunk, TypeInv
  <2>. QED  BY <1>6, <2>5, <2>6
<1>9. CASE TimeOut \/ NoticeAbort
  BY <1>9 DEF TimeOut, NoticeAbort, NoInput
<1>. QED  BY <1>6, <1>7, <1>8, <1>9
          DEF RunTask, StartTask, LookAgain, Look, ForgetTotal, AllSaved, Count, CheckFiles

LEMMA EditWhole ==
    ASSUME CInv, BusyTwice, CutOwned, AllWhole, Edit
    PROVE  BusyTwice' /\ CutOwned' /\ AllWhole'
<1>1. UNCHANGED <<request, twice>> /\ cut' \subseteq cut
  BY DEF Edit, PostNames, PostFiles, PatchNames, PatchFiles, PatchNamesRaises, Announce, Delete, Aborted,
         DeleteInputFile, DeleteInputChunk, DeleteDir, DeleteRow, dir, history
<1>2. BusyTwice' /\ CutOwned'
  BY <1>1 DEF BusyTwice, Busy, CutOwned, Owned
<1>3. ASSUME NEW files, PostNames(files) \/ PatchNames(files) PROVE AllWhole'
  <2>1. input' = NoInput
    BY <1>3 DEF PostNames, PatchNames, CInv, DInv, Unborn
  <2>. QED  BY <2>1 DEF AllWhole, NoInput
<1>4. ASSUME task' = NoTask PROVE AllWhole'
  BY <1>4 DEF NoTask, AllWhole, Active, Accepted
<1>5. ASSUME layer' # "there" PROVE AllWhole'
  BY <1>5 DEF AllWhole
<1>6. \/ \E files : PostNames(files) \/ PatchNames(files)
      \/ task' = NoTask
      \/ layer' # "there"
  BY DEF Edit, PostFiles, PatchFiles, PatchNamesRaises, Delete, Aborted, DeleteInputFile, DeleteInputChunk, DeleteRow,
         CInv, DInv, Unborn
<1>. QED  BY <1>2, <1>3, <1>4, <1>5, <1>6

LEMMA RestartWhole == ASSUME CInv, BusyTwice, CutOwned, Restart PROVE BusyTwice' /\ CutOwned' /\ AllWhole'
<1>1. \A p \in Procs : request'[p].pc = "idle"
  BY DEF Restart, Idle
<1>2. BusyTwice' /\ AllWhole'
  BY <1>1 DEF Restart, NoTask, BusyTwice, Busy, AllWhole, Active, Accepted
<1>3. ASSUME NEW x \in cut PROVE Owned(<<x[1], x[2], None>>)'
  BY <1>1, ChunkUploadAssumption DEF CutOwned, Owned, Restart, history
<1>. QED  BY <1>2, <1>3 DEF CutOwned, Restart

LEMMA InitWInv == Init => WInv
<1> SUFFICES ASSUME Init PROVE WInv
  OBVIOUS
<1>1. \A p \in Procs : request[p].pc = "idle"
  BY DEF Init, Idle
<1>. QED  BY <1>1, InitCInv DEF Init, WInv, BusyTwice, Busy, CutOwned, AllWhole

LEMMA StepWInv == WInv /\ [Next]_vars => WInv'
<1> SUFFICES ASSUME WInv, [Next]_vars PROVE WInv'
  OBVIOUS
<1>1. CInv'
  BY StepCInv DEF WInv
<1>2. CASE UNCHANGED vars
  BY <1>1, <1>2 DEF vars, dir, history, WInv, BusyTwice, Busy, CutOwned, Owned, AllWhole, PiecesWhole, Active, Accepted
<1>. QED  BY <1>1, <1>2, PostChunkWhole, RunTaskWhole, EditWhole, RestartWhole DEF Next, WInv

-----------------------------------------------------------------------------
(* Chunks that are sent once.                                              *)

Free(c) == \A p \in Procs : ~Busy(p, c)

(* No request, directory or hash has the chunk: it was written, or lost.   *)
Gone(c) == Free(c) /\ parts[c] = 0 /\ chunks[c] = 0

(* A chunk is in one place at a time, and it is of the last upload.        *)
ChunkOnce(c) ==
    /\ \A p \in Procs : Busy(p, c) =>
          /\ c \in sent /\ request[p].upload = upload
          /\ chunks[c] = 0
          /\ request[p].pc = "save" => parts[c] = 0
          /\ \A q \in Procs : Busy(q, c) => q = p
    /\ parts[c] # 0 => parts[c] = upload /\ c \in sent /\ chunks[c] = 0
    /\ chunks[c] # 0 => chunks[c] = upload /\ c \in sent

SentOnce == ~resent => \A c \in Chunks : ChunkOnce(c)

(* Requests do not outlive the upload that they belong to.                 *)
NobodyBusy == ~resent /\ layer = "there" /\ info = None => \A c \in Chunks : Free(c)

OfInfo == ~resent /\ layer = "there" /\ info # None => \A c \in Chunks : ~Free(c) => c[1] \in info

(* A file has the chunks of the last upload, which do not come again.      *)
FileExact(f) ==
    /\ Merging(f) =>
          /\ input[f] = [n \in 1 .. task.at - 1 |-> Piece(n, upload)]
          /\ \A n \in 1 .. task.at - 1 : <<f, n>> \in sent /\ Gone(<<f, n>>)
    /\ ~Merging(f) =>
          /\ input[f] = WholeFile(f, upload)
          /\ \A n \in 1 .. Total[f] : <<f, n>> \in sent /\ Gone(<<f, n>>)

FilesExact ==
    ~resent /\ layer = "there" /\ (Active \/ Accepted) => \A f \in Files : input[f] # None => FileExact(f)

Once == SentOnce /\ NobodyBusy /\ OfInfo /\ FilesExact

NoneTwice == ~resent => twice = {}

XInv == WInv /\ Once /\ NoneTwice

(* What has nothing to do with a chunk.                                    *)
LEMMA ChunkKept ==
    ASSUME NEW c, ChunkOnce(c), upload' = upload, c \in sent => c \in sent',
           parts'[c] = parts[c] \/ parts'[c] = 0, chunks'[c] = chunks[c] \/ chunks'[c] = 0,
           \A q \in Procs : Busy(q, c)' => Busy(q, c) /\ request'[q] = request[q]
    PROVE  ChunkOnce(c)' /\ (Gone(c) => Gone(c)')
<1>1. Gone(c) => Gone(c)'
  BY DEF Gone, Free
<1>2. ChunkOnce(c)'
  BY DEF ChunkOnce
<1>. QED  BY <1>1, <1>2

(* A file is as it was.                                                    *)
LEMMA ExactSame ==
    ASSUME TypeInv, NEW f \in Files, FileExact(f), input'[f] = input[f], upload' = upload, sent \subseteq sent',
           Merging(f)' <=> Merging(f), Merging(f) => task'.at = task.at,
           \A c \in Chunks : c \in sent /\ Gone(c) => Gone(c)'
    PROVE  FileExact(f)'
<1>1. Total[f] \in Nat /\ (Merging(f) => task.at \in 1 .. Total[f])
  BY ChunkUploadAssumption DEF TypeInv, TaskOK, Merging
<1>2. \A n \in 1 .. Total[f] : <<f, n>> \in Chunks
  BY ChunkPairs
<1>3. CASE Merging(f)
  <2>1. \A n \in 1 .. task.at - 1 : <<f, n>> \in Chunks
    BY <1>1, <1>2, <1>3
  <2>. QED  BY <1>3, <2>1 DEF FileExact
<1>4. CASE ~Merging(f)
  BY <1>2, <1>4 DEF FileExact, WholeFile
<1>. QED  BY <1>3, <1>4

LEMMA PostChunkOnce == ASSUME XInv, NEW p \in Procs, PostChunk(p) PROVE Once'
<1>0. PICK c : c = request[p].chunk
  OBVIOUS
<1>1. UNCHANGED <<layer, upload, info, input, task>> /\ sent \subseteq sent' /\ (~resent' => ~resent)
  <2>1. UNCHANGED <<layer, upload, info, input, task>> /\ sent \subseteq sent'
    BY DEF PostChunk, SendChunk, OpenPart, WritePart, MovePart, history
  <2>2. ~resent' => ~resent
    BY Zenon DEF PostChunk, SendChunk, OpenPart, WritePart, MovePart, history
  <2>. QED  BY <2>1, <2>2
<1> SUFFICES ASSUME ~resent, ~resent' PROVE Once'
  BY <1>1 DEF Once, SentOnce, NobodyBusy, OfInfo, FilesExact
<1>2. TypeInv /\ SentOnce /\ NobodyBusy /\ OfInfo /\ FilesExact
  BY DEF XInv, WInv, Once, CInv, DInv
<1>3. \A d \in Chunks : ChunkOnce(d)
  BY <1>2 DEF SentOnce
<1>4. ASSUME SentOnce', \A d \in Chunks : d \in sent /\ Gone(d) => Gone(d)'
      PROVE  FilesExact'
  <2> SUFFICES ASSUME NEW f \in Files, FileExact(f) PROVE FileExact(f)'
    BY <1>1, <1>2 DEF FilesExact, Active, Accepted
  <2>1. Merging(f)' <=> Merging(f)
    BY <1>1 DEF Merging
  <2>. QED  BY <1>1, <1>2, <1>4, <2>1, ExactSame
<1>5. ASSUME NEW d \in Chunks, SendChunk(p, d) PROVE Once'
  <2>1. /\ d \notin sent /\ d \in sent' /\ request[p].pc = "idle" /\ info # None /\ d[1] \in info
        /\ UNCHANGED <<parts, chunks>>
        /\ request' = [request EXCEPT ![p] = [pc |-> "save", chunk |-> d, upload |-> upload]]
    BY <1>5 DEF SendChunk
  <2>2. /\ request'[p] = [pc |-> "save", chunk |-> d, upload |-> upload]
        /\ \A q \in Procs : q # p => request'[q] = request[q]
    BY <1>2, <2>1 DEF TypeInv
  <2>3. Gone(d)
    BY <1>3, <2>1 DEF ChunkOnce, Gone, Free
  <2>4. ChunkOnce(d)'
    BY <1>1, <2>1, <2>2, <2>3 DEF ChunkOnce, Gone, Free, Busy
  <2>5. ASSUME NEW b \in Chunks, b # d PROVE ChunkOnce(b)' /\ (Gone(b) => Gone(b)') /\ (Free(b)' <=> Free(b))
    <3>1. \A q \in Procs : (Busy(q, b)' <=> Busy(q, b)) /\ (Busy(q, b)' => request'[q] = request[q])
      BY <2>1, <2>2, <2>5 DEF Busy
    <3>. QED  BY <1>1, <1>3, <2>1, <3>1, ChunkKept DEF Free
  <2>6. SentOnce' /\ \A b \in Chunks : b \in sent /\ Gone(b) => Gone(b)'
    BY <2>1, <2>4, <2>5 DEF SentOnce
  <2>7. NobodyBusy' /\ OfInfo'
    BY <1>1, <1>2, <2>1, <2>5 DEF NobodyBusy, OfInfo
  <2>. QED  BY <1>4, <2>6, <2>7 DEF Once
<1>6. CASE OpenPart(p)
  <2>1. request[p].pc = "save" /\ c \in Chunks /\ Busy(p, c) /\ UNCHANGED <<chunks, sent>>
    BY <1>0, <1>2, <1>6 DEF OpenPart, TypeInv, Busy
  <2>2. request[p] \in RequestRecord /\ request \in [Procs -> RequestRecord] /\ parts \in [Chunks -> 0 .. MaxUploads]
    BY <1>2 DEF TypeInv
  <2>3. \A q \in Procs : q # p => request'[q] = request[q]
    BY <1>6, <2>2 DEF OpenPart
  <2>4. \A q \in Procs : q # p => ~Busy(q, c)
    BY <1>3, <2>1 DEF ChunkOnce
  <2>5. \A b \in Chunks : b # c => parts'[b] = parts[b]
    BY <1>0, <1>6, <2>2 DEF OpenPart
  <2>6. \A b \in Chunks : b # c => ~Busy(p, b) /\ ~Busy(p, b)'
    BY <1>0, <1>6, <2>1, <2>2 DEF OpenPart, Busy, RequestRecord, Idle
  <2>7. ASSUME NEW b \in Chunks, b # c PROVE ChunkOnce(b)' /\ (Gone(b) => Gone(b)') /\ (Free(b)' <=> Free(b))
    <3>1. \A q \in Procs : (Busy(q, b)' <=> Busy(q, b)) /\ (Busy(q, b)' => request'[q] = request[q])
      BY <2>3, <2>6, <2>7 DEF Busy
    <3>. QED  BY <1>1, <1>3, <2>1, <2>5, <2>7, <3>1, ChunkKept DEF Free
  <2>8. ~Gone(c)
    BY <2>1 DEF Gone, Free
  <2>9. ChunkOnce(c)' /\ (info = None => Free(c)')
    <3>1. c \in sent /\ request[p].upload = upload /\ chunks[c] = 0 /\ parts[c] = 0
      BY <1>3, <2>1 DEF ChunkOnce
    <3>2. \A q \in Procs : q # p => ~Busy(q, c)'
      BY <2>3, <2>4 DEF Busy
    <3>3. CASE info # None
      <4>1. request'[p].pc = "write" /\ request'[p].upload = upload
        BY <1>0, <1>6, <2>2, <3>1, <3>3 DEF OpenPart, RequestRecord
      <4>2. parts'[c] = upload
        BY <1>0, <1>6, <2>1, <2>2, <3>1, <3>3 DEF OpenPart
      <4>. QED  BY <1>1, <2>1, <3>1, <3>2, <3>3, <4>1, <4>2 DEF ChunkOnce
    <3>4. CASE info = None
      <4>1. ~Busy(p, c)' /\ parts' = parts
        BY <1>0, <1>6, <2>2, <3>4 DEF OpenPart, Busy, Idle
      <4>. QED  BY <1>1, <2>1, <3>1, <3>2, <4>1 DEF ChunkOnce, Free
    <3>. QED  BY <3>3, <3>4
  <2>10. SentOnce' /\ \A b \in Chunks : b \in sent /\ Gone(b) => Gone(b)'
    BY <2>7, <2>8, <2>9 DEF SentOnce
  <2>11. ~Free(c)
    BY <2>1 DEF Free
  <2>12. NobodyBusy' /\ OfInfo'
    BY <1>1, <1>2, <2>1, <2>7, <2>9, <2>11 DEF NobodyBusy, OfInfo
  <2>. QED  BY <1>4, <2>10, <2>12 DEF Once
<1>7. CASE MovePart(p)
  <2>1. request[p].pc = "move" /\ c \in Chunks /\ Busy(p, c) /\ sent' = sent
    BY <1>0, <1>2, <1>7 DEF MovePart, TypeInv, Busy
  <2>2. /\ request[p] \in RequestRecord /\ request \in [Procs -> RequestRecord]
        /\ parts \in [Chunks -> 0 .. MaxUploads] /\ chunks \in [Chunks -> 0 .. MaxUploads]
    BY <1>2 DEF TypeInv
  <2>3. request'[p] = Idle /\ \A q \in Procs : q # p => request'[q] = request[q]
    BY <1>7, <2>2 DEF MovePart
  <2>4. \A q \in Procs : q # p => ~Busy(q, c)
    BY <1>3, <2>1 DEF ChunkOnce
  <2>5. \A b \in Chunks : b # c => parts'[b] = parts[b] /\ chunks'[b] = chunks[b]
    BY <1>0, <1>7, <2>2 DEF MovePart
  <2>6. \A b \in Chunks : ~Busy(p, b)' /\ (b # c => ~Busy(p, b))
    BY <1>0, <2>1, <2>3 DEF Busy, Idle
  <2>7. ASSUME NEW b \in Chunks, b # c PROVE ChunkOnce(b)' /\ (Gone(b) => Gone(b)') /\ (Free(b)' <=> Free(b))
    <3>1. \A q \in Procs : (Busy(q, b)' <=> Busy(q, b)) /\ (Busy(q, b)' => request'[q] = request[q])
      BY <2>3, <2>6, <2>7 DEF Busy
    <3>. QED  BY <1>1, <1>3, <2>1, <2>5, <2>7, <3>1, ChunkKept DEF Free
  <2>8. ~Gone(c) /\ ~Free(c)
    BY <2>1 DEF Gone, Free
  <2>9. ChunkOnce(c)' /\ Free(c)'
    <3>1. c \in sent /\ chunks[c] = 0 /\ (parts[c] # 0 => parts[c] = upload)
      BY <1>3, <2>1 DEF ChunkOnce
    <3>2. \A q \in Procs : ~Busy(q, c)'
      BY <2>1, <2>3, <2>4, <2>6 DEF Busy
    <3>3. parts'[c] = 0 /\ chunks'[c] = parts[c]
      BY <1>0, <1>7, <2>1, <2>2, <3>1 DEF MovePart
    <3>. QED  BY <1>1, <2>1, <3>1, <3>2, <3>3 DEF ChunkOnce, Free
  <2>10. SentOnce' /\ \A b \in Chunks : b \in sent /\ Gone(b) => Gone(b)'
    BY <2>7, <2>8, <2>9 DEF SentOnce
  <2>11. NobodyBusy' /\ OfInfo'
    BY <1>1, <1>2, <2>1, <2>7, <2>9 DEF NobodyBusy, OfInfo
  <2>. QED  BY <1>4, <2>10, <2>11 DEF Once
<1>8. CASE WritePart(p)
  <2>1. /\ request' = [request EXCEPT ![p].pc = "move"] /\ request[p].pc = "write"
        /\ request \in [Procs -> RequestRecord]
        /\ UNCHANGED <<upload, parts, chunks, sent>>
    BY <1>2, <1>8 DEF WritePart, TypeInv
  <2>2. \A q \in Procs : /\ request'[q].upload = request[q].upload
                         /\ request'[q].pc = "save" => request[q].pc = "save"
                         /\ \A b : Busy(q, b)' <=> Busy(q, b)
    BY <2>1 DEF Busy, RequestRecord
  <2>3. \A b : (Free(b)' <=> Free(b)) /\ (Gone(b)' <=> Gone(b)) /\ (ChunkOnce(b) => ChunkOnce(b)')
    BY <2>1, <2>2 DEF Free, Gone, ChunkOnce
  <2>4. SentOnce' /\ NobodyBusy' /\ OfInfo'
    BY <1>1, <1>2, <1>3, <2>3 DEF SentOnce, NobodyBusy, OfInfo
  <2>. QED  BY <1>4, <2>3, <2>4 DEF Once
<1>. QED  BY <1>5, <1>6, <1>7, <1>8 DEF PostChunk

(* Steps where nothing is written and no directory is deleted.             *)
LEMMA OtherExact ==
    ASSUME XInv, RunTask, UNCHANGED <<info, parts, chunks, input>>, task.pc # "merge", task'.pc # "merge"
    PROVE  Once'
<1>1. UNCHANGED <<layer, upload, request, sent, resent>> /\ Active
  BY RunTaskFacts DEF TaskOnly
<1>2. \A c : (Free(c)' <=> Free(c)) /\ (Gone(c)' <=> Gone(c)) /\ (ChunkOnce(c) => ChunkOnce(c)')
  BY <1>1 DEF Free, Gone, ChunkOnce, Busy
<1>3. SentOnce' /\ NobodyBusy' /\ OfInfo'
  BY <1>1, <1>2 DEF XInv, Once, SentOnce, NobodyBusy, OfInfo
<1>4. FilesExact'
  <2> SUFFICES ASSUME NEW f \in Files, FileExact(f) PROVE FileExact(f)'
    BY <1>1 DEF XInv, Once, FilesExact
  <2>1. ~Merging(f) /\ ~Merging(f)'
    BY DEF Merging
  <2>. QED  BY <1>1, <1>2, <2>1, ExactSame DEF XInv, WInv, CInv, DInv
<1>. QED  BY <1>3, <1>4 DEF Once

LEMMA LookAtExact == ASSUME XInv, NEW f \in Files, LookAt(f), RunTask PROVE Once'
<1>0. UNCHANGED <<layer, upload, request, sent, resent>> /\ Active
  BY RunTaskFacts DEF TaskOnly
<1>1. task \in TaskRecord /\ task.pc = "look" /\ UNCHANGED <<info, parts, chunks>> /\ TypeInv
  BY DEF LookAt, XInv, WInv, CInv, DInv, TypeInv, dir
<1>2. \A c : (Free(c)' <=> Free(c)) /\ (Gone(c)' <=> Gone(c)) /\ (ChunkOnce(c) => ChunkOnce(c)')
  BY <1>0, <1>1 DEF Free, Gone, ChunkOnce, Busy
<1>3. SentOnce' /\ NobodyBusy' /\ OfInfo'
  BY <1>0, <1>1, <1>2 DEF XInv, Once, SentOnce, NobodyBusy, OfInfo
<1>4. CASE task' = [task EXCEPT !.left = @ \ {f}] /\ UNCHANGED input
  <2>1. task'.pc = "look"
    BY <1>1, <1>4 DEF TaskRecord
  <2>. QED  BY <1>1, <1>4, <2>1, OtherExact
<1>5. CASE /\ Complete(f)
           /\ task' = [task EXCEPT !.pc = "merge", !.file = f, !.at = 1, !.left = @ \ {f}]
           /\ input' = [input EXCEPT ![f] = IF @ = None THEN <<>> ELSE @]
  <2>1. task'.pc = "merge" /\ task'.file = f /\ task'.at = 1
    BY <1>1, <1>5 DEF TaskRecord
  <2>2. input'[f] = (IF input[f] = None THEN <<>> ELSE input[f]) /\ \A g \in Files : g # f => input'[g] = input[g]
    BY <1>1, <1>5 DEF TypeInv
  <2> SUFFICES ASSUME ~resent, layer = "there", NEW g \in Files, input'[g] # None PROVE FileExact(g)'
    BY <1>0, <1>3 DEF Once, FilesExact
  <2>3. \A h \in Files : input[h] # None => FileExact(h)
    BY <1>0 DEF XInv, Once, FilesExact
  <2>4. CASE g # f
    <3>1. ~Merging(g) /\ ~Merging(g)'
      BY <1>1, <2>1, <2>4 DEF Merging
    <3>. QED  BY <1>0, <1>1, <1>2, <2>2, <2>3, <2>4, <3>1, ExactSame
  <2>5. CASE g = f
    <3>1. input[f] = None
      <4> SUFFICES ASSUME FileExact(f) PROVE FALSE
        BY <2>3
      <4>1. 1 \in 1 .. Total[f]
        BY ChunkUploadAssumption
      <4>2. Gone(<<f, 1>>)
        BY <1>1, <4>1 DEF FileExact, Merging
      <4>3. chunks[<<f, 1>>] # 0
        BY <1>5, <4>1 DEF Complete, ChunksOf
      <4>. QED  BY <4>2, <4>3 DEF Gone
    <3>2. [n \in 1 .. 1 - 1 |-> Piece(n, upload')] = <<>>
      OBVIOUS
    <3>3. Merging(f)' /\ input'[f] = <<>>
      BY <2>1, <2>2, <3>1 DEF Merging
    <3>4. \A n \in 1 .. 1 - 1 : FALSE
      OBVIOUS
    <3>. QED  BY <2>1, <2>5, <3>2, <3>3, <3>4 DEF FileExact
  <2>. QED  BY <2>4, <2>5
<1>. QED  BY <1>4, <1>5 DEF LookAt

LEMMA AppendPiece ==
    ASSUME NEW at \in Nat \ {0}, NEW u \in Nat
    PROVE  Append([n \in 1 .. at - 1 |-> Piece(n, u)], Piece(at, u)) = [n \in 1 .. at |-> Piece(n, u)]
<1> DEFINE s == [n \in 1 .. at - 1 |-> Piece(n, u)]
           x == Piece(at, u)
           t == Append(s, x)
<1>1. x \in Pieces /\ \A n \in 1 .. at - 1 : Piece(n, u) \in Pieces
  BY PieceGood
<1>2. s \in [1 .. at - 1 -> Pieces] /\ at - 1 \in Nat
  BY <1>1
<1>3. s \in Seq(Pieces)
  BY <1>2
<1>4. Len(s) = at - 1
  BY <1>2, <1>3, LenProperties
<1>5. \A i \in 1 .. at - 1 : s[i] = Piece(i, u)
  OBVIOUS
<1> HIDE DEF s, x
<1>6. /\ t \in Seq(Pieces) /\ Len(t) = Len(s) + 1 /\ \A i \in 1 .. Len(s) : t[i] = s[i]
      /\ t[Len(s) + 1] = x
  BY <1>1, <1>3, AppendProperties
<1> HIDE DEF t
<1>7. t \in [1 .. at -> Pieces]
  BY <1>4, <1>6, LenProperties
<1>8. \A i \in 1 .. at : t[i] = Piece(i, u)
  <2> SUFFICES ASSUME NEW i \in 1 .. at PROVE t[i] = Piece(i, u)
    OBVIOUS
  <2>1. CASE i = at
    BY <1>4, <1>6, <2>1 DEF x
  <2>2. CASE i # at
    <3>1. i \in 1 .. at - 1
      BY <2>2
    <3>. QED  BY <1>4, <1>5, <1>6, <3>1
  <2>. QED  BY <2>1, <2>2
<1>9. t = [i \in 1 .. at |-> Piece(i, u)]
  BY <1>7, <1>8
<1>. QED  BY <1>9 DEF t, s, x

(* A chunk is written to its file, and is gone.                            *)
LEMMA MergeChunkExact == ASSUME XInv, MergeChunk PROVE Once'
<1>0. PICK f, at : f = task.file /\ at = task.at
  OBVIOUS
<1>1. UNCHANGED <<layer, upload, request, sent, resent, info, parts>>
  BY DEF MergeChunk, TaskOnly
<1>2. /\ task.pc = "merge" /\ f \in Files /\ at \in Nat \ {0} /\ at <= Total[f] /\ Total[f] \in Nat
      /\ task \in TaskRecord /\ Active /\ Merging(f) /\ TypeInv
  BY <1>0, ChunkUploadAssumption DEF MergeChunk, XInv, WInv, CInv, DInv, TypeInv, TaskOK, TaskRecord, Active, Merging
<1>3. /\ chunks \in [Chunks -> 0 .. MaxUploads] /\ input \in [Files -> {None} \cup Seq(Pieces)] /\ upload \in Nat
      /\ MaxUploads \in Nat
  BY ChunkUploadAssumption DEF XInv, WInv, CInv, DInv, TypeInv
<1>4. PICK c \in Chunks : c = <<f, at>>
  <2>1. at \in 1 .. Total[f]
    BY <1>2
  <2>2. <<f, at>> \in Chunks
    BY <1>2, <2>1, ChunkPairs
  <2>. QED  BY <2>2
<1>5. \A d \in Chunks : chunks'[d] = chunks[d] \/ chunks'[d] = 0
  BY <1>3 DEF MergeChunk
<1>6. \A d \in Chunks : (Free(d)' <=> Free(d)) /\ (Gone(d) => Gone(d)') /\ (ChunkOnce(d) => ChunkOnce(d)')
  <2> SUFFICES ASSUME NEW d \in Chunks
               PROVE  (Free(d)' <=> Free(d)) /\ (Gone(d) => Gone(d)') /\ (ChunkOnce(d) => ChunkOnce(d)')
    OBVIOUS
  <2>1. chunks'[d] = chunks[d] \/ chunks'[d] = 0
    BY <1>5
  <2>2. \A p : Busy(p, d)' <=> Busy(p, d)
    BY <1>1 DEF Busy
  <2>. QED  BY <1>1, <2>1, <2>2 DEF Free, Gone, ChunkOnce
<1>7. SentOnce' /\ NobodyBusy' /\ OfInfo'
  BY <1>1, <1>6 DEF XInv, Once, SentOnce, NobodyBusy, OfInfo
<1>8. CASE Ends("failed")
  <2>1. task'.pc = "failed"
    BY <1>8 DEF Ends, NoTask
  <2>. QED  BY <1>7, <2>1 DEF Once, FilesExact, Active, Accepted
<1>9. CASE /\ chunks[c] # 0
           /\ input' = IF input[f] = None THEN input ELSE [input EXCEPT ![f] = Append(@, Piece(at, Content(c)))]
           /\ chunks' = [chunks EXCEPT ![c] = 0]
           /\ task' = IF at = Total[f] THEN [task EXCEPT !.pc = "hdel"] ELSE [task EXCEPT !.at = at + 1]
  <2> SUFFICES ASSUME ~resent, layer = "there", NEW g \in Files, input'[g] # None PROVE FileExact(g)'
    BY <1>1, <1>7 DEF Once, FilesExact
  <2>1. /\ task'.file = f
        /\ at = Total[f] => task'.pc = "hdel"
        /\ at # Total[f] => task'.pc = "merge" /\ task'.at = at + 1
    BY <1>0, <1>2, <1>9 DEF TaskRecord
  <2>2. /\ \A h \in Files : h # f => input'[h] = input[h]
        /\ input[f] = None => input'[f] = None
        /\ input[f] # None => input'[f] = Append(input[f], Piece(at, Content(c)))
    BY <1>2, <1>3, <1>9
  <2>3. \A h \in Files : input[h] # None => FileExact(h)
    BY <1>2 DEF XInv, Once, FilesExact
  <2>4. CASE g # f
    <3>1. ~Merging(g) /\ ~Merging(g)'
      BY <1>0, <2>1, <2>4 DEF Merging
    <3>. QED  BY <1>1, <1>2, <1>6, <2>2, <2>3, <2>4, <3>1, ExactSame
  <2>5. CASE g = f
    <3>1. Content(c) = upload /\ c \in sent /\ Gone(c)'
      <4>1. ChunkOnce(c)
        BY DEF XInv, Once, SentOnce
      <4>2. chunks'[c] = 0
        BY <1>3, <1>9
      <4>3. Free(c) /\ parts[c] = 0
        BY <1>9, <4>1 DEF ChunkOnce, Free
      <4>4. Content(c) = chunks[c]
        BY ContentGood DEF XInv, WInv, CutOwned, Owned, NoneTwice
      <4>. QED  BY <1>1, <1>6, <1>9, <4>1, <4>2, <4>3, <4>4 DEF ChunkOnce, Gone
    <3>2. /\ input[f] = [n \in 1 .. at - 1 |-> Piece(n, upload)]
          /\ \A n \in 1 .. at - 1 : <<f, n>> \in sent /\ Gone(<<f, n>>)
      BY <1>0, <1>2, <2>2, <2>3, <2>5 DEF FileExact
    <3>3. input'[f] = [n \in 1 .. at |-> Piece(n, upload)]
      <4>1. input'[f] = Append(input[f], Piece(at, upload))
        BY <2>2, <2>5, <3>1
      <4>. QED  BY <1>2, <1>3, <3>2, <4>1, AppendPiece
    <3>4. \A n \in 1 .. at : <<f, n>> \in sent' /\ Gone(<<f, n>>)'
      <4> SUFFICES ASSUME NEW n \in 1 .. at PROVE <<f, n>> \in sent' /\ Gone(<<f, n>>)'
        OBVIOUS
      <4>1. CASE n = at
        BY <1>1, <1>4, <3>1, <4>1
      <4>2. CASE n # at
        <5>1. n \in 1 .. at - 1 /\ n \in 1 .. Total[f]
          BY <1>2, <4>2
        <5>2. <<f, n>> \in Chunks
          BY <1>2, <5>1, ChunkPairs
        <5>. QED  BY <1>1, <1>6, <3>2, <5>1, <5>2
      <4>. QED  BY <4>1, <4>2
    <3>5. CASE at = Total[f]
      <4>1. ~Merging(f)'
        BY <2>1, <3>5 DEF Merging
      <4>. QED  BY <1>1, <2>5, <3>3, <3>4, <3>5, <4>1 DEF FileExact, WholeFile
    <3>6. CASE at # Total[f]
      <4>1. Merging(f)' /\ task'.at - 1 = at
        BY <1>2, <2>1, <3>6 DEF Merging
      <4>. QED  BY <1>1, <2>5, <3>3, <3>4, <4>1 DEF FileExact
    <3>. QED  BY <3>5, <3>6
  <2>. QED  BY <2>4, <2>5
<1>10. \/ Ends("failed")
       \/ /\ chunks[c] # 0
          /\ input' = IF input[f] = None THEN input ELSE [input EXCEPT ![f] = Append(@, Piece(at, Content(c)))]
          /\ chunks' = [chunks EXCEPT ![c] = 0]
          /\ task' = IF at = Total[f] THEN [task EXCEPT !.pc = "hdel"] ELSE [task EXCEPT !.at = at + 1]
  BY <1>0, <1>4 DEF MergeChunk
<1>. QED  BY <1>8, <1>9, <1>10

(* All files are saved, and their directory is deleted.                    *)
LEMMA AllSavedExact == ASSUME XInv, AllSaved, RunTask PROVE Once'
<1>1. UNCHANGED <<layer, upload, request, sent, resent, input>> /\ Active
  BY RunTaskFacts DEF TaskOnly, AllSaved
<1>2. /\ task.pc = "look" /\ Saved = task.files /\ info' = None /\ parts' = Absent /\ chunks' = Absent
      /\ task'.pc = "checks" /\ TypeInv
  BY DEF AllSaved, DeleteDir, Ends, NoTask, XInv, WInv, CInv, DInv
<1>3. \A c \in Chunks : parts'[c] = 0 /\ chunks'[c] = 0
  BY <1>2 DEF Absent
<1>4. \A c : Free(c)' <=> Free(c)
  BY <1>1 DEF Free, Busy
<1>5. \A c \in Chunks : (Gone(c) => Gone(c)') /\ (ChunkOnce(c) => ChunkOnce(c)')
  <2> SUFFICES ASSUME NEW c \in Chunks PROVE (Gone(c) => Gone(c)') /\ (ChunkOnce(c) => ChunkOnce(c)')
    OBVIOUS
  <2>1. parts'[c] = 0 /\ chunks'[c] = 0
    BY <1>3
  <2>2. \A p : Busy(p, c)' <=> Busy(p, c)
    BY <1>1 DEF Busy
  <2>. QED  BY <1>1, <1>4, <2>1, <2>2 DEF Gone, ChunkOnce
<1>6. SentOnce' /\ OfInfo'
  BY <1>1, <1>2, <1>5 DEF XInv, Once, SentOnce, OfInfo
<1>7. ~resent /\ layer = "there" => \A f \in Files : input[f] # None => FileExact(f)
  BY <1>1 DEF XInv, Once, FilesExact
<1>8. NobodyBusy'
  <2> SUFFICES ASSUME ~resent, layer = "there", NEW c \in Chunks, ~Free(c) PROVE FALSE
    BY <1>1, <1>4 DEF NobodyBusy
  <2>1. info = task.files /\ info # None
    BY <1>2 DEF XInv, WInv, CInv, FilesAnnounced, Collecting
  <2>2. c[1] \in task.files
    BY <2>1 DEF XInv, Once, OfInfo
  <2>3. c[1] \in Files /\ c[2] \in 1 .. Total[c[1]] /\ c = <<c[1], c[2]>>
    BY ChunkPairs
  <2>4. FileExact(c[1]) /\ ~Merging(c[1])
    BY <1>2, <1>7, <2>2, <2>3 DEF Saved, Merging
  <2>5. Gone(c)
    BY <2>3, <2>4 DEF FileExact
  <2>. QED  BY <2>5 DEF Gone
<1>9. FilesExact'
  <2> SUFFICES ASSUME NEW f \in Files, FileExact(f) PROVE FileExact(f)'
    BY <1>1, <1>7 DEF FilesExact
  <2>1. ~Merging(f) /\ ~Merging(f)'
    BY <1>2 DEF Merging
  <2>. QED  BY <1>1, <1>2, <1>5, <2>1, ExactSame
<1>. QED  BY <1>6, <1>8, <1>9 DEF Once

(* The number of chunks is forgotten; the task waits, or ends.             *)
LEMMA RunTaskOnce == ASSUME XInv, RunTask PROVE Once'
<1>1. UNCHANGED <<layer, upload, request, sent, resent>> /\ Active
  BY RunTaskFacts DEF TaskOnly
<1>2. ASSUME UNCHANGED <<info, parts, chunks>>, task'.pc \in {"failed", "aborted"} PROVE Once'
  <2>1. \A c : (Free(c)' <=> Free(c)) /\ (ChunkOnce(c) => ChunkOnce(c)')
    BY <1>1, <1>2 DEF Free, ChunkOnce, Busy
  <2>2. FilesExact'
    BY <1>2 DEF FilesExact, Active, Accepted
  <2>. QED  BY <1>1, <1>2, <2>1, <2>2 DEF XInv, Once, SentOnce, NobodyBusy, OfInfo
<1>3. ASSUME NEW pc \in Pcs, Ends(pc) PROVE task'.pc = pc
  BY <1>3 DEF Ends, NoTask
<1>4. task \in TaskRecord
  BY DEF XInv, WInv, CInv, DInv, TypeInv
<1>5. CASE (StartTask \/ LookAgain) /\ ~Ends("failed")
  <2>1. task'.pc = "look" /\ task.pc # "merge" /\ UNCHANGED <<info, parts, chunks, input>>
    BY <1>4, <1>5 DEF StartTask, LookAgain, Look, TaskRecord, dir
  <2>. QED  BY <2>1, OtherExact
<1>6. CASE ForgetTotal
  <2>1. task'.pc = "look" /\ task.pc # "merge" /\ UNCHANGED <<info, parts, chunks, input>>
    BY <1>4, <1>6 DEF ForgetTotal, TaskRecord
  <2>. QED  BY <2>1, OtherExact
<1>7. CASE Count /\ ~Ends("failed")
  <2>1. task'.pc = "wait" /\ task.pc # "merge" /\ UNCHANGED <<info, parts, chunks, input>>
    BY <1>4, <1>7 DEF Count, TaskRecord, dir
  <2>. QED  BY <2>1, OtherExact
<1>8. CASE CheckFiles
  <2>1. UNCHANGED <<info, parts, chunks, input>> /\ task.pc # "merge" /\ task'.pc \in {"done", "failed"}
    BY <1>3, <1>8 DEF CheckFiles, dir, Pcs
  <2>. QED  BY <2>1, OtherExact
<1>9. CASE ~MergeChunk /\ (Ends("failed") \/ Ends("aborted")) /\ UNCHANGED <<info, parts, chunks>>
  BY <1>2, <1>3, <1>9 DEF Pcs
<1>10. StartTask \/ LookAgain \/ Count \/ TimeOut \/ NoticeAbort => UNCHANGED <<info, parts, chunks>> /\ ~MergeChunk
  BY DEF StartTask, LookAgain, Look, Count, TimeOut, NoticeAbort, MergeChunk, dir
<1>. QED  BY <1>5, <1>6, <1>7, <1>8, <1>9, <1>10, LookAtExact, MergeChunkExact, AllSavedExact
          DEF RunTask, TimeOut, NoticeAbort

(* Edits: an upload begins when nothing of the one before is on its way.   *)
LEMMA EditOnce == ASSUME XInv, Edit PROVE Once'
<1>1. resent' = resent
  BY DEF Edit, PostNames, PostFiles, PatchNames, PatchFiles, PatchNamesRaises, Announce, Delete, Aborted,
         DeleteInputFile, DeleteInputChunk, DeleteRow, history
<1> SUFFICES ASSUME ~resent PROVE Once'
  BY <1>1 DEF Once, SentOnce, NobodyBusy, OfInfo, FilesExact
<1>2. /\ TypeInv /\ \A c \in Chunks : ChunkOnce(c)
      /\ layer = "there" /\ info = None => \A c \in Chunks : Free(c)
      /\ layer = "there" /\ info # None => \A c \in Chunks : ~Free(c) => c[1] \in info
  BY DEF XInv, WInv, Once, SentOnce, NobodyBusy, OfInfo, CInv, DInv
<1>3. layer = "none" => info = None /\ \A c : Free(c)
  BY DEF XInv, WInv, CInv, DInv, Unborn, Free, Busy
<1>4. ASSUME NEW files \in SUBSET Files, PostNames(files) \/ PatchNames(files) PROVE Once'
  <2>1. /\ parts' = Absent /\ chunks' = Absent /\ request' = request /\ info' = files
        /\ task'.pc = "queued"
    BY <1>4 DEF PostNames, PatchNames, Announce, NoTask
  <2>2. input' = NoInput
    BY <1>4 DEF PostNames, PatchNames, XInv, WInv, CInv, DInv, Unborn
  <2>3. \A c \in Chunks : Free(c)
    BY <1>2, <1>3, <1>4 DEF PostNames, PatchNames
  <2>4. \A c \in Chunks : Free(c)' /\ ChunkOnce(c)'
    <3> SUFFICES ASSUME NEW c \in Chunks PROVE Free(c)' /\ ChunkOnce(c)'
      OBVIOUS
    <3>1. Free(c)' /\ \A p \in Procs : ~Busy(p, c)'
      BY <2>1, <2>3 DEF Free, Busy
    <3>2. parts'[c] = 0 /\ chunks'[c] = 0
      BY <2>1 DEF Absent
    <3>. QED  BY <3>1, <3>2 DEF ChunkOnce
  <2>5. FilesExact'
    BY <2>2 DEF FilesExact, NoInput
  <2>. QED  BY <2>4, <2>5 DEF Once, SentOnce, NobodyBusy, OfInfo
<1>5. ASSUME UNCHANGED <<upload, info, parts, chunks, request, sent>>,
             layer' = "there" => task' = NoTask /\ layer \in {"none", "there"}
      PROVE  Once'
  <2>1. \A c : (Free(c)' <=> Free(c)) /\ (ChunkOnce(c) => ChunkOnce(c)')
    BY <1>5 DEF Free, ChunkOnce, Busy
  <2>2. FilesExact'
    BY <1>5 DEF FilesExact, NoTask, Active, Accepted
  <2>3. SentOnce'
    BY <1>2, <2>1 DEF SentOnce
  <2>4. NobodyBusy' /\ OfInfo'
    BY <1>2, <1>3, <1>5, <2>1 DEF NobodyBusy, OfInfo
  <2>. QED  BY <2>2, <2>3, <2>4 DEF Once
<1>6. CASE DeleteInputChunk
  <2>1. parts' = Absent /\ chunks' = Absent /\ layer' = "row" /\ UNCHANGED <<upload, request, sent>>
    BY <1>6 DEF DeleteInputChunk, DeleteDir
  <2>2. \A c \in Chunks : ChunkOnce(c)'
    <3> SUFFICES ASSUME NEW c \in Chunks PROVE ChunkOnce(c)'
      OBVIOUS
    <3>1. parts'[c] = 0 /\ chunks'[c] = 0
      BY <2>1 DEF Absent
    <3>2. \A p : Busy(p, c)' <=> Busy(p, c)
      BY <2>1 DEF Busy
    <3>. QED  BY <1>2, <2>1, <3>1, <3>2 DEF ChunkOnce
  <2>. QED  BY <2>1, <2>2 DEF Once, SentOnce, NobodyBusy, OfInfo, FilesExact
<1>7. ASSUME NEW files, PostFiles(files) \/ PatchFiles(files) PROVE Once'
  <2>1. UNCHANGED <<upload, info, parts, chunks, request, sent>> /\ layer \in {"none", "there"}
    BY <1>7 DEF PostFiles, PatchFiles, dir
  <2>2. layer' = "there" => task' = NoTask
    BY <1>7 DEF PostFiles, PatchFiles, XInv, WInv, CInv, DInv, Unborn
  <2>. QED  BY <1>5, <2>1, <2>2
<1>8. CASE PatchNamesRaises
  BY <1>5, <1>8 DEF PatchNamesRaises, dir
<1>9. CASE Delete \/ Aborted \/ DeleteInputFile \/ DeleteRow
  <2>1. UNCHANGED <<upload, info, parts, chunks, request, sent>> /\ layer' # "there"
    BY <1>9 DEF Delete, Aborted, DeleteInputFile, DeleteRow, dir
  <2>. QED  BY <1>5, <2>1
<1>. QED  BY <1>4, <1>6, <1>7, <1>8, <1>9 DEF Edit

LEMMA RestartOnce == ASSUME XInv, Restart PROVE Once'
<1>1. UNCHANGED <<upload, info, parts, chunks, sent, resent>> /\ \A p \in Procs : request'[p].pc = "idle"
  BY DEF Restart, Idle, history
<1>2. \A c : Free(c)' /\ \A p \in Procs : ~Busy(p, c)'
  BY <1>1 DEF Free, Busy
<1>3. SentOnce'
  BY <1>1, <1>2 DEF XInv, Once, SentOnce, ChunkOnce
<1>4. FilesExact'
  BY DEF Restart, NoTask, FilesExact, Active, Accepted
<1>. QED  BY <1>2, <1>3, <1>4 DEF Once, NobodyBusy, OfInfo

LEMMA StepNoneTwice == ASSUME XInv, [Next]_vars PROVE NoneTwice'
<1>1. ASSUME NEW p \in Procs, NEW c \in Chunks, SendChunk(p, c), ~resent' PROVE twice' = {}
  <2>1. ~resent /\ c \notin sent /\ twice = {}
    BY <1>1, Zenon DEF SendChunk, XInv, NoneTwice
  <2>2. ChunkOnce(c)
    BY <2>1 DEF XInv, Once, SentOnce
  <2>3. ~\E q \in Procs : request[q].pc # "idle" /\ request[q].chunk = c
    BY <2>1, <2>2 DEF ChunkOnce, Busy
  <2>. QED  BY <1>1, <2>1, <2>3 DEF SendChunk
<1>2. CASE UNCHANGED <<resent, twice>>
  BY <1>2 DEF XInv, NoneTwice
<1>3. RunTask => UNCHANGED <<resent, twice>>
  BY RunTaskFacts DEF TaskOnly
<1>4. Edit => UNCHANGED <<resent, twice>>
  BY DEF Edit, PostNames, PostFiles, PatchNames, PatchFiles, PatchNamesRaises, Announce, Delete, Aborted,
         DeleteInputFile, DeleteInputChunk, DeleteRow, history
<1>5. Restart \/ UNCHANGED vars => UNCHANGED <<resent, twice>>
  BY DEF Restart, vars, history
<1>6. \A p \in Procs : PostChunk(p) => UNCHANGED <<resent, twice>> \/ \E c \in Chunks : SendChunk(p, c)
  BY DEF PostChunk, OpenPart, WritePart, MovePart, history
<1>. QED  BY <1>1, <1>2, <1>3, <1>4, <1>5, <1>6 DEF Next, NoneTwice

LEMMA InitXInv == Init => XInv
<1> SUFFICES ASSUME Init PROVE XInv
  OBVIOUS
<1>1. \A c \in Chunks : parts[c] = 0 /\ chunks[c] = 0
  BY DEF Init, Absent
<1>2. \A c : \A p \in Procs : ~Busy(p, c)
  BY DEF Init, Idle, Busy
<1>3. Once
  BY <1>1, <1>2 DEF Init, Once, SentOnce, ChunkOnce, NobodyBusy, OfInfo, FilesExact
<1>4. NoneTwice
  BY DEF Init, NoneTwice
<1>. QED  BY <1>3, <1>4, InitWInv DEF XInv

LEMMA StepXInv == XInv /\ [Next]_vars => XInv'
<1> SUFFICES ASSUME XInv, [Next]_vars PROVE XInv'
  OBVIOUS
<1>1. WInv' /\ NoneTwice'
  BY StepWInv, StepNoneTwice DEF XInv
<1>2. CASE UNCHANGED vars
  <2>1. UNCHANGED <<layer, upload, info, parts, chunks, input, request, task, sent, resent>>
    BY <1>2 DEF vars, dir, history
  <2>2. Once'
    BY <2>1 DEF XInv, Once, SentOnce, NobodyBusy, OfInfo, FilesExact, ChunkOnce, FileExact, Merging, Active, Accepted,
                Gone, Free, Busy
  <2>. QED  BY <1>1, <2>2 DEF XInv
<1>. QED  BY <1>1, <1>2, PostChunkOnce, RunTaskOnce, EditOnce, RestartOnce DEF Next, XInv

LEMMA XInvHolds == Spec => []XInv
BY InitXInv, StepXInv, PTL DEF Spec

(* Whatever order the chunks of any number of files come in, and whatever  *)
(* they meet: files that the task has accepted are those that the client   *)
(* has sent, or copies of them if a chunk has been sent again, in which    *)
(* only a chunk that two requests had at once may not be what was sent.    *)
(* Code: save_layer_file_chunk against layer_file_chunk_info.              *)
THEOREM FilesMerged == Spec => []Merged
<1>1. XInv => Merged
  <2> SUFFICES ASSUME XInv, layer = "there", Accepted, NEW f \in task.files
               PROVE  IF resent
                      THEN /\ Copies(f, input[f])
                           /\ \A i \in DOMAIN input[f] : input[f][i].upload = 0 => <<f, input[f][i].number>> \in twice
                      ELSE input[f] = WholeFile(f, upload)
    BY DEF Merged, Accepted
  <2>1. f \in Files /\ input[f] # None /\ ~Merging(f)
    BY DEF XInv, WInv, CInv, DInv, TypeInv, TaskRecord, AllAccepted, Accepted, Merging
  <2>2. FileInOrder(f) /\ (~resent => FileExact(f))
    BY <2>1 DEF XInv, WInv, CInv, FilesInOrder, Once, FilesExact
  <2>3. PiecesWhole(f)
    BY <2>1 DEF XInv, WInv, AllWhole
  <2>. QED  BY <2>1, <2>2, <2>3 DEF FileInOrder, FileExact, Copies, PiecesWhole
<1>. QED  BY <1>1, XInvHolds, PTL

-----------------------------------------------------------------------------
(* The time of inactivity.                                                 *)

SavedNow == Cardinality(Saved)

(* A chunk is of an upload; a task that waits in the queue has seen        *)
(* nothing.                                                                *)
OfAnUpload == \A p \in Procs : request[p].pc # "idle" => request[p].upload # 0

QueuedFresh == task.pc = "queued" => task.first /\ task.files = {}

(* What has come is seen in the numbers: as long as no file is opened, the *)
(* number of chunks does not fall, and a new chunk makes it grow.          *)
Uncounted ==
    ~resent /\ layer = "there" /\ (Collecting \/ task.pc = "queued") =>
        /\ task.idle <= quiet
        /\ SavedNow >= task.seen[1]
        /\ SavedNow = task.seen[1] => Stored >= task.seen[2] /\ (news => Stored > task.seen[2])
        /\ task.pc \in {"merge", "hdel"} => SavedNow > task.seen[1]

QInv == XInv /\ OfAnUpload /\ QueuedFresh /\ Uncounted

LEMMA NumbersTypes == ASSUME TypeInv PROVE SavedNow \in Nat /\ Stored \in Nat /\ Stored' \in Nat
<1>1. Saved \in SUBSET Files
  BY DEF Saved, TypeInv, TaskRecord
<1>2. \A g : {c \in Chunks : g[c] # 0} \in SUBSET Chunks
  OBVIOUS
<1>3. \A g : Cardinality({c \in Chunks : g[c] # 0}) \in Nat
  BY <1>2, FinitelyMany
<1>4. Stored \in Nat /\ Stored' \in Nat
  BY <1>3 DEF Stored
<1>. QED  BY <1>1, <1>4, FinitelyMany DEF SavedNow

LEMMA SameNumbers ==
    ASSUME UNCHANGED <<parts, chunks, input>>, task'.files = task.files
    PROVE  Stored' = Stored /\ SavedNow' = SavedNow
BY DEF SavedNow, Saved, Stored

(* A chunk that is sent once changes the number of chunks when it comes,   *)
(* and only then.                                                          *)
LEMMA PostChunkUncounted ==
    ASSUME QInv, NEW p \in Procs, PostChunk(p)
    PROVE  OfAnUpload' /\ QueuedFresh' /\ Uncounted'
<1>0. PICK c : c = request[p].chunk
  OBVIOUS
<1>1. UNCHANGED <<layer, input, task, quiet>>
  BY DEF PostChunk, SendChunk, OpenPart, WritePart, MovePart, history
<1>2. TypeInv
  BY DEF QInv, XInv, WInv, CInv, DInv
<1>3. OfAnUpload'
  <2>1. request \in [Procs -> RequestRecord] /\ Idle.pc = "idle"
    BY <1>2 DEF TypeInv, Idle
  <2>2. ASSUME NEW d, SendChunk(p, d) PROVE OfAnUpload'
    <3>1. upload # 0 /\ request' = [request EXCEPT ![p] = [pc |-> "save", chunk |-> d, upload |-> upload]]
      BY <1>2, <2>2 DEF SendChunk, TypeInv
    <3>. QED  BY <2>1, <3>1 DEF QInv, OfAnUpload
  <2>3. CASE OpenPart(p)
    BY <2>1, <2>3 DEF OpenPart, QInv, OfAnUpload, RequestRecord
  <2>4. CASE MovePart(p)
    BY <2>1, <2>4 DEF MovePart, QInv, OfAnUpload
  <2>5. CASE WritePart(p)
    BY <2>1, <2>5 DEF WritePart, QInv, OfAnUpload, RequestRecord
  <2>. QED  BY <2>2, <2>3, <2>4, <2>5 DEF PostChunk
<1>4. SavedNow' = SavedNow
  BY <1>1 DEF SavedNow, Saved
<1>5. Stored \in Nat /\ SavedNow \in Nat /\ task.seen[1] \in Nat /\ task.seen[2] \in Nat
  BY <1>2, NumbersTypes DEF TypeInv, TaskRecord
<1>6. ~resent' => ~resent
  BY Zenon DEF PostChunk, SendChunk, OpenPart, WritePart, MovePart, history
<1>7. ASSUME ~resent', layer = "there"
      PROVE  Stored' >= Stored /\ (news' => news \/ Stored' > Stored)
  <2>1. CASE UNCHANGED <<parts, chunks, news>>
    BY <1>5, <2>1 DEF Stored
  <2>2. CASE OpenPart(p) /\ info # None
    <3>1. c \in Chunks /\ Busy(p, c) /\ request[p].upload # 0 /\ request[p].pc = "save"
      BY <1>0, <1>2, <2>2 DEF OpenPart, TypeInv, Busy, QInv, OfAnUpload
    <3>2. parts[c] = 0 /\ chunks' = chunks
      BY <1>6, <1>7, <2>2, <3>1 DEF QInv, XInv, Once, SentOnce, ChunkOnce, OpenPart
    <3>3. parts' = [parts EXCEPT ![c] = request[p].upload] /\ parts \in [Chunks -> 0 .. MaxUploads]
      BY <1>0, <1>2, <2>2 DEF OpenPart, TypeInv
    <3>4. PICK P \in SUBSET Chunks : P = {d \in Chunks : parts[d] # 0}
      OBVIOUS
    <3>5. {d \in Chunks : parts'[d] # 0} = P \cup {c} /\ c \notin P
      BY <3>1, <3>2, <3>3, <3>4
    <3>6. Cardinality(P \cup {c}) = Cardinality(P) + 1 /\ Cardinality(P) \in Nat
      BY <3>5, FinitelyMany, FS_AddElement
    <3>7. Cardinality({d \in Chunks : chunks[d] # 0}) \in Nat
      BY FinitelyMany
    <3>8. Stored' = Cardinality(P \cup {c}) + Cardinality({d \in Chunks : chunks[d] # 0})
      BY <3>2, <3>5 DEF Stored
    <3>9. Stored = Cardinality(P) + Cardinality({d \in Chunks : chunks[d] # 0})
      BY <3>4 DEF Stored
    <3>. QED  BY <3>6, <3>7, <3>8, <3>9
  <2>3. CASE MovePart(p) /\ parts[c] # 0
    <3>1. c \in Chunks /\ Busy(p, c)
      BY <1>0, <1>2, <2>3 DEF MovePart, TypeInv, Busy
    <3>2. chunks[c] = 0 /\ news' = news
      BY <1>6, <1>7, <2>3, <3>1 DEF QInv, XInv, Once, SentOnce, ChunkOnce, MovePart, history
    <3>3. /\ parts' = [parts EXCEPT ![c] = 0] /\ parts \in [Chunks -> 0 .. MaxUploads]
          /\ chunks' = [chunks EXCEPT ![c] = parts[c]] /\ chunks \in [Chunks -> 0 .. MaxUploads]
      BY <1>0, <1>2, <2>3 DEF MovePart, TypeInv
    <3>4. PICK P \in SUBSET Chunks, C \in SUBSET Chunks :
             P = {d \in Chunks : parts'[d] # 0} /\ C = {d \in Chunks : chunks[d] # 0}
      OBVIOUS
    <3>5. /\ {d \in Chunks : parts[d] # 0} = P \cup {c} /\ c \notin P
          /\ {d \in Chunks : chunks'[d] # 0} = C \cup {c} /\ c \notin C
      BY <2>3, <3>1, <3>2, <3>3, <3>4
    <3>6. /\ Cardinality(P \cup {c}) = Cardinality(P) + 1 /\ Cardinality(P) \in Nat
          /\ Cardinality(C \cup {c}) = Cardinality(C) + 1 /\ Cardinality(C) \in Nat
      BY <3>5, FinitelyMany, FS_AddElement
    <3>7. Stored' = Cardinality(P) + Cardinality(C \cup {c})
      BY <3>4, <3>5 DEF Stored
    <3>8. Stored = Cardinality(P \cup {c}) + Cardinality(C)
      BY <3>4, <3>5 DEF Stored
    <3>. QED  BY <3>2, <3>6, <3>7, <3>8
  <2>4. CASE MovePart(p) /\ parts[c] = 0
    <3>1. c \in Chunks /\ parts \in [Chunks -> 0 .. MaxUploads]
      BY <1>0, <1>2, <2>4 DEF MovePart, TypeInv
    <3>2. parts' = parts /\ chunks' = chunks /\ news' = news
      BY <1>0, <2>4, <3>1 DEF MovePart, history
    <3>. QED  BY <2>1, <3>2
  <2>. QED  BY <2>1, <2>2, <2>3, <2>4 DEF PostChunk, SendChunk, OpenPart, WritePart, history
<1>8. Uncounted'
  <2> SUFFICES ASSUME ~resent', layer = "there", Collecting \/ task.pc = "queued" PROVE Uncounted'
    BY <1>1 DEF Uncounted, Collecting
  <2>1. Stored' \in Nat
    BY <1>2, NumbersTypes
  <2>2. /\ task.idle <= quiet
        /\ SavedNow >= task.seen[1]
        /\ SavedNow = task.seen[1] => Stored >= task.seen[2] /\ (news => Stored > task.seen[2])
        /\ task.pc \in {"merge", "hdel"} => SavedNow > task.seen[1]
    BY <1>6 DEF QInv, Uncounted
  <2>3. SavedNow = task.seen[1] => Stored' >= task.seen[2] /\ (news' => Stored' > task.seen[2])
    <3>1. Stored' >= Stored /\ (news' => news \/ Stored' > Stored)
      BY <1>7
    <3>. QED  BY <1>5, <2>1, <2>2, <3>1
  <2>. QED  BY <1>1, <1>4, <2>2, <2>3 DEF Uncounted
<1>9. QueuedFresh'
  BY <1>1 DEF QInv, QueuedFresh
<1>. QED  BY <1>3, <1>8, <1>9

(* The task opens a file, counts, or waits.                                *)
LEMMA OpensFirst ==
    ASSUME XInv, ~resent, layer = "there", NEW f \in Files, LookAt(f), Complete(f)
    PROVE  input[f] = None
<1> SUFFICES ASSUME FileExact(f) PROVE FALSE
  BY DEF XInv, Once, FilesExact, LookAt, Active
<1>1. 1 \in 1 .. Total[f] /\ ~Merging(f)
  BY ChunkUploadAssumption DEF LookAt, Merging
<1>2. Gone(<<f, 1>>) /\ chunks[<<f, 1>>] # 0
  BY <1>1 DEF FileExact, Complete, ChunksOf
<1>. QED  BY <1>2 DEF Gone

LEMMA RunTaskUncounted == ASSUME QInv, RunTask PROVE QueuedFresh' /\ Uncounted'
<1>1. UNCHANGED <<layer, upload, request, sent, resent, twice, outlived>> /\ Active
  BY RunTaskFacts DEF TaskOnly
<1>2. TypeInv /\ task \in TaskRecord /\ TaskOK(task) /\ input \in [Files -> {None} \cup Seq(Pieces)]
  BY DEF QInv, XInv, WInv, CInv, DInv, TypeInv
<1>3. \A pc \in Pcs : Ends(pc) => task'.pc = pc
  BY DEF Ends, NoTask
<1>4. ASSUME task'.pc \in {"checks", "done", "failed", "aborted"} PROVE QueuedFresh' /\ Uncounted'
  BY <1>4 DEF QueuedFresh, Uncounted, Collecting
<1>5. /\ Stored \in Nat /\ SavedNow \in Nat /\ Stored' \in Nat
      /\ task.seen[1] \in Nat /\ task.seen[2] \in Nat /\ task.idle \in Nat /\ quiet \in Nat
  BY <1>2, NumbersTypes DEF TypeInv, TaskRecord
<1>6. ~resent /\ layer = "there" /\ (Collecting \/ task.pc = "queued") =>
        /\ task.idle <= quiet
        /\ SavedNow >= task.seen[1]
        /\ SavedNow = task.seen[1] => Stored >= task.seen[2] /\ (news => Stored > task.seen[2])
        /\ task.pc \in {"merge", "hdel"} => SavedNow > task.seen[1]
  BY DEF QInv, Uncounted
<1>7. CASE (StartTask \/ LookAgain) /\ ~Ends("failed")
  <2>1. task'.pc = "look" /\ task'.files = info /\ task'.seen = task.seen /\ task'.idle = task.idle
    BY <1>2, <1>7 DEF StartTask, LookAgain, Look, TaskRecord
  <2>2. UNCHANGED <<parts, chunks, input, news, quiet>> /\ info \in SUBSET Files
    BY <1>2, <1>7 DEF StartTask, LookAgain, Look, dir, TypeInv
  <2> SUFFICES ASSUME ~resent, layer = "there" PROVE Uncounted'
    BY <1>1, <2>1 DEF QueuedFresh, Uncounted
  <2>3. Stored' = Stored
    BY <2>2 DEF Stored
  <2>4. CASE task.pc = "wait"
    <3>1. info = task.files
      BY <2>4 DEF QInv, XInv, WInv, CInv, FilesAnnounced, Collecting
    <3>2. SavedNow' = SavedNow
      BY <2>1, <2>2, <3>1, SameNumbers
    <3>. QED  BY <1>6, <2>1, <2>2, <2>3, <2>4, <3>2 DEF Uncounted, Collecting
  <2>5. CASE task.pc = "queued"
    <3>1. task.seen = <<0, 0>> /\ task.idle = 0 /\ task.files = {}
      BY <1>2, <2>5 DEF QInv, QueuedFresh, TaskOK
    <3>2. Saved = {} /\ SavedNow = 0
      BY <3>1, FS_EmptySet DEF Saved, SavedNow
    <3>3. news' => Stored' > 0
      BY <1>6, <2>2, <2>3, <2>5, <3>1, <3>2
    <3>4. SavedNow' \in Nat
      <4>1. Saved' \in SUBSET Files
        BY <2>1, <2>2 DEF Saved
      <4>. QED  BY <4>1, FinitelyMany DEF SavedNow
    <3>. QED  BY <1>5, <2>1, <2>2, <3>1, <3>3, <3>4 DEF Uncounted
  <2>. QED  BY <1>7, <2>4, <2>5 DEF StartTask, LookAgain
<1>8. ASSUME NEW f \in Files, LookAt(f) PROVE QueuedFresh' /\ Uncounted'
  <2>1. /\ task.pc = "look" /\ UNCHANGED <<parts, chunks, news, quiet>> /\ f \in task.files
        /\ task'.pc \in {"look", "merge"} /\ task'.files = task.files
        /\ task'.seen = task.seen /\ task'.idle = task.idle
    BY <1>2, <1>8 DEF LookAt, TaskRecord, TaskOK, dir
  <2> SUFFICES ASSUME ~resent, layer = "there" PROVE Uncounted'
    BY <1>1, <2>1 DEF QueuedFresh, Uncounted
  <2>2. Stored' = Stored
    BY <2>1 DEF Stored
  <2>3. CASE UNCHANGED input /\ ~Complete(f)
    <3>1. SavedNow' = SavedNow
      BY <2>1, <2>3, SameNumbers
    <3>2. task'.pc = "look"
      BY <1>2, <1>8, <2>3 DEF LookAt, TaskRecord
    <3>. QED  BY <1>6, <2>1, <2>2, <3>1, <3>2 DEF Uncounted, Collecting
  <2>4. CASE Complete(f)
    <3>1. input[f] = None
      BY <1>8, <2>4, OpensFirst DEF QInv
    <3>2. input' = [input EXCEPT ![f] = <<>>]
      BY <1>2, <1>8, <2>4, <3>1 DEF LookAt
    <3>3. <<>> # None
      <4>1. <<>> \in Seq(Pieces)
        OBVIOUS
      <4>. QED  BY <4>1, ChunkUploadAssumption DEF Pieces
    <3>4. Saved' = Saved \cup {f} /\ f \notin Saved
      BY <1>2, <2>1, <3>1, <3>2, <3>3 DEF Saved
    <3>5. Saved \in SUBSET Files
      BY <1>2 DEF Saved, TaskRecord
    <3>6. SavedNow' = SavedNow + 1
      BY <3>4, <3>5, FinitelyMany, FS_AddElement DEF SavedNow
    <3>7. SavedNow' > task'.seen[1] /\ task'.idle <= quiet'
      BY <1>5, <1>6, <2>1, <3>6 DEF Collecting
    <3>. QED  BY <1>5, <2>1, <3>6, <3>7 DEF Uncounted
  <2>. QED  BY <1>8, <2>3, <2>4 DEF LookAt
<1>9. CASE MergeChunk /\ ~Ends("failed")
  <2>0. PICK f, at : f = task.file /\ at = task.at
    OBVIOUS
  <2>1. /\ task.pc = "merge" /\ UNCHANGED <<news, quiet>>
        /\ task'.pc \in {"merge", "hdel"} /\ task'.files = task.files
        /\ task'.seen = task.seen /\ task'.idle = task.idle
    BY <1>2, <1>9 DEF MergeChunk, TaskRecord
  <2>2. f \in Files /\ at \in Nat /\ at \in 1 .. Total[f]
    BY <1>2, <2>0, <2>1, ChunkUploadAssumption DEF TaskOK, TaskRecord
  <2>3. Content(<<f, at>>) \in Nat
    BY <1>2, <2>2, ChunkPairs, ContentGood
  <2>4. \A s \in Seq(Pieces) : Append(s, Piece(at, Content(<<f, at>>))) # None
    <3>1. Piece(at, Content(<<f, at>>)) \in Pieces
      BY <2>2, <2>3, PieceGood
    <3>2. \A s \in Seq(Pieces) : Append(s, Piece(at, Content(<<f, at>>))) \in Seq(Pieces)
      BY <3>1, AppendProperties
    <3>. QED  BY <3>2, ChunkUploadAssumption DEF Pieces
  <2>5. input' = IF input[f] = None THEN input
                 ELSE [input EXCEPT ![f] = Append(@, Piece(at, Content(<<f, at>>)))]
    BY <1>9, <2>0 DEF MergeChunk
  <2>6. \A g \in Files : input'[g] = None <=> input[g] = None
    BY <1>2, <2>2, <2>4, <2>5
  <2>7. SavedNow' = SavedNow
    BY <1>2, <2>1, <2>6 DEF SavedNow, Saved, TaskRecord
  <2>8. ~resent /\ layer = "there" => SavedNow > task.seen[1] /\ task.idle <= quiet
    BY <1>6, <2>1 DEF Collecting
  <2>. QED  BY <1>1, <1>5, <2>1, <2>7, <2>8 DEF Uncounted, QueuedFresh
<1>10. CASE ForgetTotal
  <2>1. /\ task.pc = "hdel" /\ UNCHANGED <<parts, chunks, input, news, quiet>>
        /\ task'.pc = "look" /\ task'.files = task.files
        /\ task'.seen = task.seen /\ task'.idle = task.idle
    BY <1>2, <1>10 DEF ForgetTotal, TaskRecord
  <2>2. Stored' = Stored /\ SavedNow' = SavedNow
    BY <2>1, SameNumbers
  <2>. QED  BY <1>1, <1>6, <2>1, <2>2 DEF Uncounted, QueuedFresh, Collecting
<1>11. CASE Count /\ ~Ends("failed")
  <2> DEFINE sn == IF task.first THEN task.seen ELSE Counted
             il == IF task.first \/ Counted # task.seen THEN 0 ELSE task.idle + 1
  <2>1. /\ task.pc = "look" /\ UNCHANGED <<parts, chunks, input>>
        /\ task' = [task EXCEPT !.pc = "wait", !.first = FALSE, !.seen = sn, !.idle = il]
        /\ ~news' /\ quiet' = IF news THEN 0 ELSE IF quiet < MaxIdle THEN quiet + 1 ELSE quiet
    BY <1>11 DEF Count, dir
  <2>2. task'.pc = "wait" /\ task'.files = task.files /\ task'.seen = sn /\ task'.idle = il
    BY <1>2, <2>1 DEF TaskRecord
  <2>3. Stored' = Stored /\ SavedNow' = SavedNow
    BY <2>1, <2>2, SameNumbers
  <2>4. Counted = <<SavedNow, Stored>>
    BY DEF Counted, SavedNow
  <2> SUFFICES ASSUME ~resent, layer = "there" PROVE Uncounted'
    BY <1>1, <2>2 DEF QueuedFresh, Uncounted
  <2>5. /\ task.idle <= quiet /\ SavedNow >= task.seen[1]
        /\ SavedNow = task.seen[1] => Stored >= task.seen[2] /\ (news => Stored > task.seen[2])
    BY <1>6, <2>1 DEF Collecting
  <2>6. SavedNow' >= sn[1] /\ (SavedNow' = sn[1] => Stored' >= sn[2])
    BY <1>5, <2>3, <2>4, <2>5
  <2>7. il <= quiet'
    <3>1. CASE task.first \/ Counted # task.seen
      <4>1. il = 0
        BY <3>1
      <4>2. quiet' \in Nat
        BY <1>5, <2>1
      <4>. QED  BY <4>1, <4>2
    <3>2. CASE ~task.first /\ Counted = task.seen
      <4>1. il = task.idle + 1 /\ task.seen[1] = SavedNow /\ task.seen[2] = Stored
        BY <2>4, <3>2
      <4>2. ~news
        BY <1>5, <2>5, <4>1
      <4>3. task.idle < MaxIdle
        BY <1>2, <2>1 DEF TaskOK
      <4>. QED  BY <1>5, <2>1, <2>5, <4>1, <4>2, <4>3, ChunkUploadAssumption
    <3>. QED  BY <3>1, <3>2
  <2> HIDE DEF sn, il
  <2>. QED  BY <2>1, <2>2, <2>6, <2>7 DEF Uncounted
<1>12. CASE Ends("failed") \/ Ends("aborted") \/ Ends("done") \/ Ends("checks")
  BY <1>3, <1>4, <1>12 DEF Pcs
<1>. QED  BY <1>7, <1>8, <1>9, <1>10, <1>11, <1>12
          DEF RunTask, AllSaved, CheckFiles, TimeOut, NoticeAbort

(* An upload begins with nothing seen.                                     *)
LEMMA EditUncounted == ASSUME QInv, Edit PROVE OfAnUpload' /\ QueuedFresh' /\ Uncounted'
<1>1. UNCHANGED <<request, resent>>
  BY DEF Edit, PostNames, PostFiles, PatchNames, PatchFiles, PatchNamesRaises, Announce, Delete, Aborted,
         DeleteInputFile, DeleteInputChunk, DeleteRow, history
<1>2. OfAnUpload'
  BY <1>1 DEF QInv, OfAnUpload
<1>3. ASSUME NEW files, PostNames(files) \/ PatchNames(files) PROVE QueuedFresh' /\ Uncounted'
  <2>1. /\ task' = [NoTask EXCEPT !.pc = "queued"] /\ ~news' /\ quiet' = 0
        /\ parts' = Absent /\ chunks' = Absent
    BY <1>3 DEF PostNames, PatchNames, Announce
  <2>2. task'.pc = "queued" /\ task'.files = {} /\ task'.first /\ task'.seen = <<0, 0>> /\ task'.idle = 0
    BY <2>1 DEF NoTask
  <2>3. SavedNow' = 0
    BY <2>2, FS_EmptySet DEF SavedNow, Saved
  <2>4. Stored' \in Nat
    BY NumbersTypes DEF QInv, XInv, WInv, CInv, DInv
  <2>. QED  BY <2>1, <2>2, <2>3, <2>4 DEF QueuedFresh, Uncounted
<1>4. ASSUME task' = NoTask PROVE QueuedFresh' /\ Uncounted'
  <2>1. task'.pc = "none"
    BY <1>4 DEF NoTask
  <2>. QED  BY <2>1 DEF QueuedFresh, Uncounted, Collecting
<1>5. CASE Delete \/ Aborted \/ DeleteInputFile \/ DeleteInputChunk \/ DeleteRow
  <2>1. layer' # "there" /\ (task' = task \/ task' = [task EXCEPT !.abort = Active /\ task.pc # "queued"])
    BY <1>5 DEF Delete, Aborted, DeleteInputFile, DeleteInputChunk, DeleteRow
  <2>2. task'.pc = task.pc /\ task'.first = task.first /\ task'.files = task.files
    BY <2>1 DEF QInv, XInv, WInv, CInv, DInv, TypeInv, TaskRecord
  <2>3. QueuedFresh'
    BY <2>2 DEF QInv, QueuedFresh
  <2>4. Uncounted'
    BY <2>1 DEF Uncounted
  <2>. QED  BY <1>2, <2>3, <2>4
<1>6. ASSUME NEW files, PostFiles(files) \/ PatchFiles(files) PROVE task' = NoTask
  BY <1>6 DEF PostFiles, PatchFiles, QInv, XInv, WInv, CInv, DInv, Unborn
<1>. QED  BY <1>2, <1>3, <1>4, <1>5, <1>6 DEF Edit, PatchNamesRaises

LEMMA StepQInv == QInv /\ [Next]_vars => QInv'
<1> SUFFICES ASSUME QInv, [Next]_vars PROVE QInv'
  OBVIOUS
<1>1. XInv'
  BY StepXInv DEF QInv
<1>2. CASE UNCHANGED vars
  <2>1. UNCHANGED <<layer, parts, chunks, input, request, task, resent, news, quiet>>
    BY <1>2 DEF vars, dir, history
  <2>2. Stored' = Stored /\ SavedNow' = SavedNow
    BY <2>1, SameNumbers
  <2>. QED  BY <1>1, <2>1, <2>2 DEF QInv, OfAnUpload, QueuedFresh, Uncounted, Collecting
<1>3. CASE Restart
  BY <1>1, <1>3 DEF Restart, Idle, NoTask, QInv, OfAnUpload, QueuedFresh, Uncounted, Collecting
<1>4. CASE RunTask
  <2>1. OfAnUpload'
    BY <1>4, RunTaskFacts DEF TaskOnly, QInv, OfAnUpload
  <2>. QED  BY <1>1, <1>4, <2>1, RunTaskUncounted DEF QInv
<1>. QED  BY <1>1, <1>2, <1>3, <1>4, PostChunkUncounted, EditUncounted DEF Next, QInv

LEMMA QInvHolds == Spec => []QInv
<1>1. Init => QInv
  <2> SUFFICES ASSUME Init PROVE QInv
    OBVIOUS
  <2>1. OfAnUpload /\ QueuedFresh /\ Uncounted
    BY DEF Init, Idle, NoTask, OfAnUpload, QueuedFresh, Uncounted
  <2>. QED  BY <2>1, InitXInv DEF QInv
<1>. QED  BY <1>1, StepQInv, PTL DEF Spec

(* However many files and chunks, and whatever lasts long: the task gives  *)
(* up only if no new chunk has come between as many looks as the time of   *)
(* inactivity takes.                                                       *)
(* Code: the loop of refresh_input_chunk.                                  *)
THEOREM LateGivenUp == Spec => GivesUpLate
<1>1. QInv => (layer = "there" /\ ~resent /\ TimeOut => quiet >= MaxIdle)
  BY DEF QInv, Uncounted, Collecting, TimeOut
<1>2. QInv /\ [Next]_vars => [layer = "there" /\ ~resent /\ TimeOut => quiet >= MaxIdle]_vars
  BY <1>1
<1>. QED  BY <1>2, QInvHolds, PTL DEF Spec, GivesUpLate

=============================================================================
