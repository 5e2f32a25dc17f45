----------------------------- MODULE ChunkUpload -----------------------------
(***************************************************************************)
(* The upload of data files by chunks (filesystem/input_chunk.py): POST or *)
(* PATCH of a layer announces names of files, the client sends the chunks, *)
(* many at once, and the task refresh_input_chunk looks again and again    *)
(* which files are complete, puts them together, and gives up when no      *)
(* chunk comes for a long time.                                            *)
(*                                                                         *)
(* Flask processes and the task share the resumable directory of the layer *)
(* (info.json and the chunks), the hash of numbers of chunks in Redis, and *)
(* the directory of input files.  A step is one command on one of them, or *)
(* two that nobody can tell from one.                                      *)
(* The layer is one uuid: it is posted once and deleted once.  What is     *)
(* published from the files is left to LayerSources, and the lock, which   *)
(* refuses PATCH while the task is active, to LayerChain.                  *)
(*                                                                         *)
(* Definitions marked as faulty are variants of the ones that follow them, *)
(* with a plausible bug; they show that the properties would notice it.    *)
(***************************************************************************)
EXTENDS Naturals, Sequences, FiniteSets

CONSTANTS
    Files,       \* names of files
    Total,       \* Total[f]: number of chunks of file f
    None,        \* no directory, no file, no process
    Procs,       \* Flask processes that handle chunks
    MaxUploads,  \* bound of the number of uploads announced
    MaxIdle,     \* UPLOAD_MAX_INACTIVITY_TIME, in rounds of the task
    MayOutlive   \* may the task go on after DELETE has waited for its abortion?

ASSUME ChunkUploadAssumption ==
    /\ None \notin Files \cup Procs
    /\ None \notin Seq([number : Nat, upload : Nat])
    /\ IsFiniteSet(Files)
    /\ Total \in [Files -> Nat \ {0}]
    /\ MaxUploads \in Nat \ {0}
    /\ MaxIdle \in Nat \ {0}
    /\ MayOutlive \in BOOLEAN

VARIABLES
    layer,     \* the layer, and how far its DELETE is
    upload,    \* number of uploads announced so far
    info,      \* info.json: the files to upload; without it, there is no resumable directory
    total,     \* files of which the number of chunks is in Redis
    parts,     \* chunks being saved, files "_part"; of which upload they are
    chunks,    \* chunks stored; of which upload they are
    cut,       \* those of parts and of chunks that are not written to their end, and who writes them
    input,     \* contents of the input files
    request,   \* what each process is doing
    task,      \* the task refresh_input_chunk
    sent,      \* chunks of the last upload that the client has sent
    resent,    \* history: has the client sent a chunk again?
    twice,     \* history: chunks that two requests had in hand at once
    outlived,  \* history: has the task gone on beside DELETE?
    news,      \* history: has a chunk come since the task has counted them?
    quiet      \* history: number of last counts without news

dir == <<info, total, parts, chunks, cut>>
history == <<resent, twice, outlived, news, quiet>>
vars == <<layer, upload, dir, input, request, task, sent, history>>

-----------------------------------------------------------------------------
ChunksOf(f) == {f} \X (1 .. Total[f])

Chunks == UNION {ChunksOf(f) : f \in Files}

Absent == [c \in Chunks |-> 0]

NoInput == [f \in Files |-> None]

Piece(n, u) == [number |-> n, upload |-> u]

(* A file sent in the request itself. *)
SentWhole == << Piece(0, 0) >>

(* The file as the client has it. *)
WholeFile(f, u) == [n \in 1 .. Total[f] |-> Piece(n, u)]

Stages == {"none", "there", "abort", "input_file", "input_chunk", "row", "deleted"}

(* "wait": between two looks at the chunks; "look": at one file after      *)
(* another; "merge": chunks to the file, "hdel": then its number of chunks *)
(* is forgotten; "checks": of the files, after all are there.              *)
Pcs == {"none", "queued", "wait", "look", "merge", "hdel", "checks", "done", "failed", "aborted"}

NoTask == [pc |-> "none", files |-> {}, left |-> {}, file |-> None, at |-> 0,
           first |-> TRUE, seen |-> <<0, 0>>, idle |-> 0, abort |-> FALSE]

Active == task.pc \notin {"none", "done", "failed", "aborted"}

Idle == [pc |-> "idle", chunk |-> None, upload |-> 0]

-----------------------------------------------------------------------------
(* Chunks.                                                                 *)

(* layer_file_chunk_exists of a file to upload, the answer of GET.         *)
ChunkExistsInPart(c) == parts[c] # 0 \/ chunks[c] # 0 \/ input[c[1]] # None  \* faulty
ChunkExists(c) == chunks[c] # 0 \/ input[c[1]] # None

(* POST of a chunk of the last upload: info.json is read (otherwise error  *)
(* 20 or 21) and the number of chunks is put to Redis.  A client that does *)
(* not know whether the server has the chunk sends it again, once here.    *)
SendChunk(p, c) ==
    /\ request[p].pc = "idle"
    /\ layer \notin {"none", "deleted"} /\ upload > 0
    /\ info # None /\ c[1] \in info
    /\ c \in sent => ~resent
    /\ resent' = (resent \/ c \in sent)
    /\ twice' = twice \cup {d \in {c} : \E q \in Procs : request[q].pc # "idle" /\ request[q].chunk = d}
    /\ sent' = sent \cup {c}
    /\ total' = total \cup {c[1]}
    /\ request' = [request EXCEPT ![p] = [pc |-> "save", chunk |-> c, upload |-> upload]]
    /\ UNCHANGED <<layer, upload, info, parts, chunks, cut, input, task, outlived, news, quiet>>

(* chunk.save opens the file, which cuts it to nothing, and then copies.   *)
(* Whoever has opened the same file before writes on, but what counts is   *)
(* the last one.  The directory may have been deleted since; then the      *)
(* request raises.                                                         *)
OpenPart(p) ==
    LET c == request[p].chunk IN
    /\ request[p].pc = "save"
    /\ \/ /\ info # None
          /\ parts' = [parts EXCEPT ![c] = request[p].upload]
          /\ cut' = {x \in cut : x[1] = "chunk" \/ x[2] # c} \cup {<<"part", c, p>>}
          /\ news' = (news \/ (Active /\ parts[c] = 0 /\ chunks[c] = 0))
          /\ request' = [request EXCEPT ![p].pc = "write"]
       \/ /\ info = None
          /\ request' = [request EXCEPT ![p] = Idle]
          /\ UNCHANGED <<parts, cut, news>>
    /\ UNCHANGED <<layer, upload, info, total, chunks, input, task, sent, resent, twice, outlived, quiet>>

(* An open file can be written wherever it was moved meanwhile, and if it  *)
(* was deleted.                                                            *)
WritePart(p) ==
    /\ request[p].pc = "write"
    /\ cut' = {x \in cut : x[3] # p}
    /\ request' = [request EXCEPT ![p].pc = "move"]
    /\ UNCHANGED <<layer, upload, info, total, parts, chunks, input, task, sent, history>>

(* The part is moved as it is: another request may have opened it again.   *)
(* If it is not there any more, the request raises.                        *)
MovePart(p) ==
    LET c == request[p].chunk IN
    /\ request[p].pc = "move"
    /\ chunks' = IF parts[c] # 0 THEN [chunks EXCEPT ![c] = parts[c]] ELSE chunks
    /\ cut' = IF parts[c] # 0
              THEN {x \in cut : x[2] # c} \cup {<<"chunk", c, x[3]>> : x \in {y \in cut : y[1] = "part" /\ y[2] = c}}
              ELSE cut
    /\ parts' = [parts EXCEPT ![c] = 0]
    /\ request' = [request EXCEPT ![p] = Idle]
    /\ UNCHANGED <<layer, upload, info, total, input, task, sent, history>>

-----------------------------------------------------------------------------
(* The task.                                                               *)

TaskOnly == UNCHANGED <<layer, upload, request, sent, resent, twice, outlived>>

Ends(pc) == task' = [NoTask EXCEPT !.pc = pc, !.files = task.files]

(* layer_file_chunk_info reads info.json, or raises error 20. *)
Look ==
    /\ \/ /\ info # None
          /\ task' = [task EXCEPT !.pc = "look", !.files = info, !.left = info]
       \/ /\ info = None
          /\ Ends("failed")
    /\ TaskOnly
    /\ UNCHANGED <<dir, input, news, quiet>>

(* A worker starts the task; STARTED replaces ABORTED. *)
StartTask == task.pc = "queued" /\ Look

LookAgain == task.pc = "wait" /\ ~task.abort /\ task.idle < MaxIdle /\ Look

Complete(f) == f \in total /\ \A c \in ChunksOf(f) : chunks[c] # 0

(* A complete file is opened, to be written to its end. *)
LookAt(f) ==
    /\ task.pc = "look" /\ f \in task.left
    /\ \/ /\ Complete(f)
          /\ task' = [task EXCEPT !.pc = "merge", !.file = f, !.at = 1, !.left = @ \ {f}]
          /\ input' = [input EXCEPT ![f] = IF @ = None THEN <<>> ELSE @]
       \/ /\ ~Complete(f)
          /\ task' = [task EXCEPT !.left = @ \ {f}]
          /\ UNCHANGED input
    /\ TaskOnly
    /\ UNCHANGED <<dir, news, quiet>>

(* What is read of a chunk; of one that is not written to its end it is    *)
(* less than was sent, which is of no upload.                              *)
Content(c) == IF \E x \in cut : x[1] = "chunk" /\ x[2] = c THEN 0 ELSE chunks[c]

(* One chunk is written to the file and deleted.  The chunk or the file    *)
(* may have been deleted.                                                  *)
MergeChunk ==
    LET f == task.file
        c == <<f, task.at>>
    IN  /\ task.pc = "merge"
        /\ \/ /\ chunks[c] # 0
              /\ input' = IF input[f] = None THEN input
                          ELSE [input EXCEPT ![f] = Append(@, Piece(task.at, Content(c)))]
              /\ chunks' = [chunks EXCEPT ![c] = 0]
              /\ cut' = {x \in cut : x[1] = "part" \/ x[2] # c}
              /\ task' = IF task.at = Total[f] THEN [task EXCEPT !.pc = "hdel"]
                         ELSE [task EXCEPT !.at = @ + 1]
           \/ /\ chunks[c] = 0
              /\ Ends("failed")
              /\ UNCHANGED <<input, chunks, cut>>
        /\ TaskOnly
        /\ UNCHANGED <<info, total, parts, news, quiet>>

ForgetTotal ==
    /\ task.pc = "hdel"
    /\ total' = total \ {task.file}
    /\ task' = [task EXCEPT !.pc = "look", !.file = None, !.at = 0]
    /\ TaskOnly
    /\ UNCHANGED <<info, parts, chunks, cut, input, news, quiet>>

(* delete_layer of input_chunk: the resumable directory and the hash. *)
DeleteDir ==
    /\ info' = None
    /\ total' = {}
    /\ parts' = Absent
    /\ chunks' = Absent
    /\ cut' = {}

Saved == {f \in task.files : input[f] # None}

Stored == Cardinality({c \in Chunks : parts[c] # 0}) + Cardinality({c \in Chunks : chunks[c] # 0})

(* All files are saved. *)
AllSaved ==
    /\ task.pc = "look" /\ task.left = {}
    /\ Saved = task.files
    /\ DeleteDir
    /\ Ends("checks")
    /\ TaskOnly
    /\ UNCHANGED <<input, news, quiet>>

(* Faulty: only files are counted. *)
CountedFiles == <<Cardinality(Saved), 0>>

Counted == <<Cardinality(Saved), Stored>>

(* Numbers of files and chunks are compared with those of the round before *)
(* (not in the first one), to see whether something has come.              *)
Count ==
    /\ task.pc = "look" /\ task.left = {}
    /\ Saved # task.files
    /\ \/ /\ info # None
          /\ task' = [task EXCEPT
                !.pc = "wait", !.first = FALSE,
                !.seen = IF task.first THEN @ ELSE Counted,
                !.idle = IF task.first \/ Counted # task.seen THEN 0 ELSE @ + 1]
          /\ news' = FALSE
          /\ quiet' = IF news THEN 0 ELSE IF quiet < MaxIdle THEN quiet + 1 ELSE quiet
       \/ /\ info = None
          /\ Ends("failed")
          /\ UNCHANGED <<news, quiet>>
    /\ TaskOnly
    /\ UNCHANGED <<dir, input>>

(* Checks of the files as a whole. *)
CheckFiles ==
    /\ task.pc = "checks"
    /\ Ends("done") \/ Ends("failed")
    /\ TaskOnly
    /\ UNCHANGED <<dir, input, news, quiet>>

(* Error 22; the input files are deleted, the resumable directory stays. *)
TimeOut ==
    /\ task.pc = "wait" /\ task.idle = MaxIdle
    /\ input' = NoInput
    /\ Ends("failed")
    /\ TaskOnly
    /\ UNCHANGED <<dir, news, quiet>>

NoticeAbort ==
    /\ task.pc = "wait" /\ task.abort /\ task.idle < MaxIdle
    /\ input' = NoInput
    /\ Ends("aborted")
    /\ TaskOnly
    /\ UNCHANGED <<dir, news, quiet>>

-----------------------------------------------------------------------------
(* Requests that edit the layer.                                           *)

(* save_layer_files_str, and the chain that starts with the task. *)
Announce(files) ==
    /\ upload < MaxUploads
    /\ upload' = upload + 1
    /\ info' = files
    /\ parts' = Absent /\ chunks' = Absent /\ cut' = {}
    /\ task' = [NoTask EXCEPT !.pc = "queued"]
    /\ sent' = {}
    /\ news' = FALSE /\ quiet' = 0
    /\ UNCHANGED <<total, resent, twice, outlived, request>>

PostNames(files) ==
    /\ layer = "none"
    /\ layer' = "there"
    /\ Announce(files)
    /\ UNCHANGED input

PostFiles(files) ==
    /\ layer = "none"
    /\ layer' = "there"
    /\ input' = [f \in Files |-> IF f \in files THEN SentWhole ELSE None]
    /\ UNCHANGED <<upload, dir, request, task, sent, history>>

(* Faulty: the former files are left where they are. *)
PatchNamesOnly(files) ==
    /\ layer = "there" /\ ~Active
    /\ info = None
    /\ Announce(files)
    /\ UNCHANGED <<layer, input>>

(* PATCH deletes the input files; input_chunk is a source before them and  *)
(* is not deleted.                                                         *)
PatchNames(files) ==
    /\ layer = "there" /\ ~Active
    /\ info = None
    /\ input' = NoInput
    /\ Announce(files)
    /\ UNCHANGED layer

(* If the resumable directory is there, it cannot be made. *)
PatchNamesRaises ==
    /\ layer = "there" /\ ~Active
    /\ info # None
    /\ input' = NoInput
    /\ task' = NoTask
    /\ UNCHANGED <<layer, upload, dir, request, sent, history>>

PatchFiles(files) ==
    /\ layer = "there" /\ ~Active
    /\ input' = [f \in Files |-> IF f \in files THEN SentWhole ELSE None]
    /\ task' = NoTask
    /\ UNCHANGED <<layer, upload, dir, request, sent, history>>

(* DELETE marks the task as aborted... *)
Delete ==
    /\ layer = "there"
    /\ layer' = "abort"
    /\ task' = [task EXCEPT !.abort = Active /\ task.pc # "queued"]
    /\ UNCHANGED <<upload, dir, input, request, sent, history>>

(* Faulty: the task is not waited for. *)
AbortedAtOnce ==
    /\ layer = "abort"
    /\ layer' = "input_file"
    /\ UNCHANGED <<upload, dir, input, request, task, sent, history>>

(* ... waits until it ends, but not for long... *)
Aborted ==
    /\ layer = "abort"
    /\ ~Active \/ MayOutlive
    /\ outlived' = (outlived \/ Active)
    /\ layer' = "input_file"
    /\ UNCHANGED <<upload, dir, input, request, task, sent, resent, twice, news, quiet>>

(* ... and deletes the sources, the row at last. *)
DeleteInputFile ==
    /\ layer = "input_file"
    /\ input' = NoInput
    /\ layer' = "input_chunk"
    /\ UNCHANGED <<upload, dir, request, task, sent, history>>

DeleteInputChunk ==
    /\ layer = "input_chunk"
    /\ DeleteDir
    /\ layer' = "row"
    /\ UNCHANGED <<upload, input, request, task, sent, history>>

DeleteRow ==
    /\ layer = "row"
    /\ layer' = "deleted"
    /\ UNCHANGED <<upload, dir, input, request, task, sent, history>>

(* Layman is restarted: Redis is flushed, files and rows stay; what was    *)
(* being written is not any more.                                          *)
Restart ==
    /\ layer' = IF layer \in {"none", "deleted"} THEN layer ELSE "there"
    /\ total' = {}
    /\ task' = NoTask
    /\ request' = [p \in Procs |-> Idle]
    /\ cut' = {<<x[1], x[2], None>> : x \in cut}
    /\ UNCHANGED <<upload, info, parts, chunks, input, sent, history>>

-----------------------------------------------------------------------------
Init ==
    /\ layer = "none"
    /\ upload = 0
    /\ info = None /\ total = {} /\ parts = Absent /\ chunks = Absent /\ cut = {}
    /\ input = NoInput
    /\ request = [p \in Procs |-> Idle]
    /\ task = NoTask
    /\ sent = {}
    /\ resent = FALSE /\ twice = {} /\ outlived = FALSE /\ news = FALSE /\ quiet = 0

PostChunk(p) ==
    \/ \E c \in Chunks : SendChunk(p, c)
    \/ OpenPart(p) \/ WritePart(p) \/ MovePart(p)

RunTask ==
    \/ StartTask \/ LookAgain \/ (\E f \in Files : LookAt(f)) \/ MergeChunk \/ ForgetTotal
    \/ AllSaved \/ Count \/ CheckFiles \/ TimeOut \/ NoticeAbort

Edit ==
    \/ \E files \in SUBSET Files \ {{}} :
         PostNames(files) \/ PostFiles(files) \/ PatchNames(files) \/ PatchFiles(files)
    \/ PatchNamesRaises
    \/ Delete \/ Aborted \/ DeleteInputFile \/ DeleteInputChunk \/ DeleteRow

Next == (\E p \in Procs : PostChunk(p)) \/ RunTask \/ Edit \/ Restart

Spec == Init /\ [][Next]_vars

-----------------------------------------------------------------------------
(* Properties.                                                             *)

(* Directories, Redis and the task hold what they are to hold; the task    *)
(* never waits longer than it is to wait.                                  *)
(* Code: the loop of refresh_input_chunk.                                  *)
TypeOK ==
    /\ layer \in Stages
    /\ upload \in 0 .. MaxUploads
    /\ info \in {None} \cup SUBSET Files
    /\ total \in SUBSET Files
    /\ parts \in [Chunks -> 0 .. MaxUploads]
    /\ chunks \in [Chunks -> 0 .. MaxUploads]
    /\ cut \subseteq {"part", "chunk"} \X Chunks \X (Procs \cup {None})
    /\ \A f \in Files : input[f] = None \/ \A i \in DOMAIN input[f] :
          input[f][i] \in [number : 0 .. Total[f], upload : 0 .. MaxUploads]
    /\ request \in [Procs -> [pc : {"idle", "save", "write", "move"},
                              chunk : Chunks \cup {None}, upload : 0 .. MaxUploads]]
    /\ task.pc \in Pcs /\ task.left \subseteq task.files /\ task.files \subseteq Files
    /\ task.idle \in 0 .. MaxIdle

(* A file that the task has accepted is what the client has sent, whatever *)
(* order its chunks came in and whatever they met.  If a chunk has been    *)
(* sent again, even for a former upload, the file may be there more than   *)
(* once, or with the former chunk, but none is missing or out of place;    *)
(* and only a chunk that two requests had in hand at once may be something  *)
(* else than was sent.                                                     *)
(* Code: save_layer_file_chunk against layer_file_chunk_info.              *)
InTurn(f, s) ==
    /\ Len(s) > 0 => s[1].number = 1
    /\ \A i \in 1 .. Len(s) - 1 :
          s[i + 1].number = IF s[i].number = Total[f] THEN 1 ELSE s[i].number + 1

Copies(f, s) == InTurn(f, s) /\ Len(s) > 0 /\ s[Len(s)].number = Total[f]

Merged ==
    layer = "there" /\ task.pc \in {"checks", "done"} => \A f \in task.files :
        IF resent
        THEN /\ Copies(f, input[f])
             /\ \A i \in DOMAIN input[f] : input[f][i].upload = 0 => <<f, input[f][i].number>> \in twice
        ELSE input[f] = WholeFile(f, upload)

(* While an upload is awaited, GET says that a chunk exists only if it is  *)
(* stored or written to its file: a client that sends only the chunks that *)
(* do not exist leaves none out.                                           *)
(* Code: layer_file_chunk_exists.                                          *)
ExistsIsStored ==
    layer = "there" /\ Active /\ info # None => \A c \in Chunks : c[1] \in info /\ ChunkExists(c) =>
        \/ chunks[c] # 0
        \/ input[c[1]] # None /\ \E i \in DOMAIN input[c[1]] : input[c[1]][i].number = c[2]

(* The task gives up only if no new chunk came between its last looks, as  *)
(* many of them as the time of inactivity takes, though it compares mere   *)
(* numbers of files; numbers may be equal if a chunk is sent again.        *)
(* Code: the loop of refresh_input_chunk.                                  *)
GivesUpLate == [][layer = "there" /\ ~resent /\ TimeOut => quiet >= MaxIdle]_vars

(* Nothing is left of a layer that was deleted, neither files nor chunks,  *)
(* of requests that are still handled or of a restart in between.          *)
(* Code: delete_layer of input_file and of input_chunk.                    *)
DeletedWhole ==
    layer = "deleted" /\ ~outlived =>
        info = None /\ input = NoInput /\ parts = Absent /\ chunks = Absent

(* doc/rest.md: the endpoint is active till all chunks are uploaded or no  *)
(* chunk is uploaded for a time.  Not so: after the time-out it stays      *)
(* active and takes chunks that nobody waits for, and PATCH cannot         *)
(* activate it again.                                                      *)
EndpointActive == layer = "there" /\ task.pc = "failed" => info = None
=============================================================================
