----------------------------- MODULE MapsProofs -----------------------------
(***************************************************************************)
(* Proofs that a map ends up with the thumbnail and the record it should   *)
(* have (ThumbnailCurrent, RecordKept of Maps).  The invariant says, for   *)
(* each place where the request and the chain of the map may be, who will  *)
(* yet draw the thumbnail, and which properties of the record will yet be  *)
(* written.                                                                *)
(***************************************************************************)
EXTENDS Maps, SequenceTheorems, TLAPS

-----------------------------------------------------------------------------
(* What a request has still to do, by what it does next.                   *)
PostAll    == <<"save", "insert", "input_file", "end">>
PostInsert == <<"insert", "input_file", "end">>
PostFile   == <<"input_file", "end">>
JustEnd    == <<"end">>

PatchTable   == <<"table", "input_file", "soap", "write", "end">>
PatchFile    == <<"input_file", "soap", "write", "end">>
PatchSoap    == <<"soap", "write", "end">>
PatchWrite   == <<"write", "end">>
PlainCompare == <<"compare", "table", "input_file", "soap", "write", "end">>
PlainPush    == <<"push", "compare", "table", "input_file", "soap", "write", "end">>
PatchSave    == <<"save", "table", "input_file", "soap", "write", "end">>
PatchClear   == <<"delete_thumbnail", "save", "table", "input_file", "soap", "write", "end">>
FileCompare  == <<"compare", "delete_thumbnail", "save", "table", "input_file", "soap", "write", "end">>
FilePush     == <<"push", "compare", "delete_thumbnail", "save", "table", "input_file", "soap", "write", "end">>

DeleteAll       == <<"clear", "delete_record", "delete_thumbnail", "delete_bbox", "delete_file",
                     "delete_layers", "delete_row", "end">>
DeleteRecord    == <<"delete_record", "delete_thumbnail", "delete_bbox", "delete_file",
                     "delete_layers", "delete_row", "end">>
DeleteThumbnail == <<"delete_thumbnail", "delete_bbox", "delete_file", "delete_layers", "delete_row", "end">>
DeleteBbox      == <<"delete_bbox", "delete_file", "delete_layers", "delete_row", "end">>
DeleteFile      == <<"delete_file", "delete_layers", "delete_row", "end">>
DeleteLayers    == <<"delete_layers", "delete_row", "end">>
DeleteRow       == <<"delete_row", "end">>

Pushing   == {PlainPush, FilePush}
Comparing == {PlainCompare, FileCompare}
Compared  == {PatchClear, PatchSave, PatchTable, PatchFile, PatchSoap, PatchWrite}
Posting   == {PostAll, PostInsert}
Removing  == {DeleteThumbnail, DeleteBbox, DeleteFile, DeleteLayers, DeleteRow}
Deletions == {DeleteAll, DeleteRecord} \cup Removing

Todos == {<<>>, PostFile, JustEnd} \cup Pushing \cup Comparing \cup Compared \cup Posting \cup Deletions

(* What a chain has still to do.                                           *)
AtLayers       == <<"layers", "thumbnail", "draw", "thumbnail_end", "soap", "write", "soap_end">>
AtThumbnail    == <<"thumbnail", "draw", "thumbnail_end", "soap", "write", "soap_end">>
AtDraw         == <<"draw", "thumbnail_end", "soap", "write", "soap_end">>
AtThumbnailEnd == <<"thumbnail_end", "soap", "write", "soap_end">>
AtSoap         == <<"soap", "write", "soap_end">>
AtWrite        == <<"write", "soap_end">>
AtSoapEnd      == <<"soap_end">>

Undrawn  == {MapTasks, AtLayers, AtThumbnail}
Unwritten == Undrawn \cup {AtDraw, AtThumbnailEnd, AtSoap, AtWrite}

PublishTodos == Unwritten \cup {AtSoapEnd, <<>>}

ToRedraw == <<"thumbnail", "draw">>
JustDraw == <<"draw">>
-----------------------------------------------------------------------------
(* Types.                                                                  *)
Owners        == {"anyone", "editor"} \cup Actor
RowType       == [exists : BOOLEAN, title : Nat, public : BOOLEAN, extent : Nat, layers : SUBSET (Layer \X Nat)]
FileType      == [title : Nat, extent : Nat, layers : Seq(Layer \cup {External})]
ThumbnailType == [extent : Nat, features : [Layer -> Nat]]
RecordType    == [title : Int, extent : Int, operates_on : SUBSET ((Layer \cup {External}) \X Nat), public : BOOLEAN]
LayerType     == [exists : BOOLEAN, title : Nat, readers : SUBSET Actor, features : Nat,
                  chain : {"none", "running", "notify", "push"}, again : BOOLEAN]
ChainType     == [kind : {"none", "publish", "features"}, todo : PublishTodos \cup {ToRedraw, JustDraw},
                  props : SUBSET Props, shown : ThumbnailType, aborted : BOOLEAN]

Types ==
    /\ row \in RowType /\ file \in FileType /\ thumbnail \in ThumbnailType /\ record \in RecordType
    /\ layer \in [Layer -> LayerType]
    /\ request \in [todo : Todos, new : RowType, file : FileType, props : SUBSET Props]
    /\ soap \in [op : {"none", "insert", "update"}, record : RecordType]
    /\ chain \in ChainType /\ later \in BOOLEAN
    /\ owner \in [Props -> Owners] /\ broken \in BOOLEAN
    /\ actor \in Actor /\ edited \in RecordType
    /\ requests \in Nat /\ changes \in Nat /\ edits \in Nat /\ failures \in Nat

(* What is known of the request from what it has still to do.              *)
RequestSays ==
    LET todo == request.todo
        new  == request.new
    IN  /\ todo = <<>> \/ todo \in Deletions => ~new.exists
        /\ ~new.exists => request = [NoRequest EXCEPT !.todo = todo]
        /\ new.exists => new.title # 0
        /\ request.file # NoFile => request.file.title = new.title
        /\ todo \in Pushing \cup Comparing \cup Compared \cup {PostFile} => new.exists /\ row.exists
        /\ todo \in Posting => new.exists /\ ~row.exists
        /\ todo = JustEnd => (new.exists <=> row.exists)
        /\ todo \in Posting \cup {PostFile} => request.props = Props
        /\ todo \in Posting \cup {PostFile, FilePush, FileCompare, PatchClear, PatchSave} => request.file # NoFile
        /\ todo \in Pushing \cup Comparing => request.props = {}
        /\ todo \in Compared => new.layers = row.layers /\ new.extent = row.extent
        /\ todo \in {PostFile, PatchFile, PatchSoap, PatchWrite} => row.title = new.title
        /\ todo \in {PatchSoap, PatchWrite} => file.title = new.title
        /\ todo = JustEnd /\ new.exists => row.title = file.title

(* A chain runs beside a request only until it is aborted.                 *)
ChainSays ==
    /\ request.todo \notin {<<>>, DeleteAll} \cup Pushing => chain.kind = "none"
    /\ chain.kind = "none" => chain = NoChain
    /\ chain.kind = "features" => chain.todo \in {ToRedraw, JustDraw, <<>>} /\ chain.props = {}
    /\ chain.kind = "publish" => chain.todo \in PublishTodos /\ row.exists /\ row.title = file.title
    /\ chain.aborted =>
           request.todo = DeleteAll \/ (request.todo \in Pushing /\ chain.kind = "features")

RowSays == row.exists => row.title # 0

Control == RequestSays /\ ChainSays /\ RowSays
-----------------------------------------------------------------------------
(* The thumbnail.                                                          *)
WillPublish == request.file # NoFile \/ (chain.kind = "publish" /\ chain.todo \in Undrawn)

Deleting == request.todo \in Deletions

WillRedraw ==
    \/ WillPublish \/ Deleting \/ later \/ request.todo \in Pushing
    \/ chain.kind = "features" /\ chain.todo = ToRedraw /\ ~chain.aborted

RowsMatch == row.layers = LayersOf(file)

(* A change of a layer whose chain runs is still to be noticed.            *)
Good(t) ==
    /\ t.extent = file.extent
    /\ \A l \in Uuids(LayersOf(file)) :
           layer[l].exists /\ layer[l].chain = "none" => t.features[l] = layer[l].features

ChainRead ==
    chain.kind = "publish" /\ chain.todo \notin {MapTasks, AtLayers} => RowsMatch

MapShown ==
    row.exists /\ ~broken =>
        /\ ~WillPublish /\ ~Deleting => RowsMatch
        /\ ~WillRedraw => Good(IF chain.todo \in {AtDraw, JustDraw} THEN chain.shown ELSE thumbnail)

ThumbnailInv == ChainRead /\ MapShown
-----------------------------------------------------------------------------
(* The record.                                                             *)
RecordIs ==
    /\ record = NoRecord => owner = Lost
    /\ record # NoRecord => record.title # 0
    /\ ~row.exists \/ request.todo \in Removing => record = NoRecord

SoapIs ==
    /\ soap.op = "insert" => record = NoRecord
    /\ soap.op = "update" => soap.record.title # 0
    /\ request.todo # PatchWrite /\ chain.todo # AtWrite => soap = NothingRead
    /\ request.todo = PatchWrite /\ soap.op = "none" => request.props = {}
    /\ chain.todo = AtWrite /\ soap.op = "none" => chain.props = {}

(* What an editor wrote is not what Layman would write.                    *)
ByEditor(p) == IF p = "operates_on" THEN Foreign \in edited[p] ELSE edited[p] = -1

EditorKeeps == \A p \in Props : owner[p] = "editor" =>
    /\ record[p] = edited[p] /\ ByEditor(p)
    /\ p \notin request.props \cup chain.props
    /\ soap.op = "update" => soap.record[p] = edited[p]

(* What Layman wrote is what is there now.                                 *)
Kept(p) ==
    /\ record[p] = PropertyValues(row, owner[p])[p]
    /\ p = "title" => row.title = file.title
    /\ p = "extent" => row.extent = file.extent

LaymanKeeps == \A p \in Props : owner[p] \in Actor =>
    /\ request.todo \in {<<>>, DeleteAll, DeleteRecord} \cup Pushing \cup Comparing /\ chain.kind # "publish" => Kept(p)
    /\ request.todo \in Posting \cup {PostFile} \cup Compared => p \in request.props
    /\ request.todo = JustEnd => p \in request.props /\ (request.file = NoFile => Kept(p))
    /\ chain.kind = "publish" => IF chain.todo \in Unwritten THEN p \in chain.props ELSE Kept(p)

RecordInv == RecordIs /\ SoapIs /\ EditorKeeps /\ LaymanKeeps

IInv == Types /\ Control /\ ThumbnailInv /\ RecordInv

-----------------------------------------------------------------------------
(* The sequences of steps.                                                 *)
LEMMA RequestTails ==
    /\ Head(PlainPush) = "push" /\ Tail(PlainPush) = PlainCompare
    /\ Head(FilePush) = "push" /\ Tail(FilePush) = FileCompare
    /\ Head(PlainCompare) = "compare" /\ Tail(PlainCompare) = PatchTable
    /\ Head(FileCompare) = "compare" /\ Tail(FileCompare) = PatchClear
    /\ Head(PatchClear) = "delete_thumbnail" /\ Tail(PatchClear) = PatchSave
    /\ Head(PatchSave) = "save" /\ Tail(PatchSave) = PatchTable
    /\ Head(PatchTable) = "table" /\ Tail(PatchTable) = PatchFile
    /\ Head(PatchFile) = "input_file" /\ Tail(PatchFile) = PatchSoap
    /\ Head(PatchSoap) = "soap" /\ Tail(PatchSoap) = PatchWrite
    /\ Head(PatchWrite) = "write" /\ Tail(PatchWrite) = JustEnd
    /\ Head(PostAll) = "save" /\ Tail(PostAll) = PostInsert
    /\ Head(PostInsert) = "insert" /\ Tail(PostInsert) = PostFile
    /\ Head(PostFile) = "input_file" /\ Tail(PostFile) = JustEnd
    /\ Head(JustEnd) = "end"
    /\ Head(DeleteAll) = "clear" /\ Tail(DeleteAll) = DeleteRecord
    /\ Head(DeleteRecord) = "delete_record" /\ Tail(DeleteRecord) = DeleteThumbnail
    /\ Head(DeleteThumbnail) = "delete_thumbnail" /\ Tail(DeleteThumbnail) = DeleteBbox
    /\ Head(DeleteBbox) = "delete_bbox" /\ Tail(DeleteBbox) = DeleteFile
    /\ Head(DeleteFile) = "delete_file" /\ Tail(DeleteFile) = DeleteLayers
    /\ Head(DeleteLayers) = "delete_layers" /\ Tail(DeleteLayers) = DeleteRow
    /\ Head(DeleteRow) = "delete_row" /\ Tail(DeleteRow) = JustEnd
BY DEF PlainPush, FilePush, PlainCompare, FileCompare, PatchClear, PatchSave, PatchTable, PatchFile,
       PatchSoap, PatchWrite, PostAll, PostInsert, PostFile, JustEnd, DeleteAll, DeleteRecord,
       DeleteThumbnail, DeleteBbox, DeleteFile, DeleteLayers, DeleteRow

LEMMA Lengths ==
    /\ Len(PlainPush) = 7 /\ Len(FilePush) = 9 /\ Len(PlainCompare) = 6 /\ Len(FileCompare) = 8
    /\ Len(PatchClear) = 7 /\ Len(PatchSave) = 6 /\ Len(PatchTable) = 5 /\ Len(PatchFile) = 4
    /\ Len(PatchSoap) = 3 /\ Len(PatchWrite) = 2 /\ Len(PostAll) = 4 /\ Len(PostInsert) = 3
    /\ Len(PostFile) = 2 /\ Len(JustEnd) = 1 /\ Len(DeleteAll) = 8 /\ Len(DeleteRecord) = 7
    /\ Len(DeleteThumbnail) = 6 /\ Len(DeleteBbox) = 5 /\ Len(DeleteFile) = 4
    /\ Len(DeleteLayers) = 3 /\ Len(DeleteRow) = 2
    /\ PatchTable # PatchClear
BY DEF PlainPush, FilePush, PlainCompare, FileCompare, PatchClear, PatchSave, PatchTable, PatchFile,
       PatchSoap, PatchWrite, PostAll, PostInsert, PostFile, JustEnd, DeleteAll, DeleteRecord,
       DeleteThumbnail, DeleteBbox, DeleteFile, DeleteLayers, DeleteRow

(* No two of them are the same: they differ in the next step or the length.*)
LEMMA RequestStages ==
    /\ \A x \in Pushing : x \notin {<<>>, PostFile, JustEnd} \cup Comparing \cup Compared \cup Posting \cup Deletions
    /\ \A x \in Comparing : x \notin {<<>>, PostFile, JustEnd} \cup Compared \cup Posting \cup Deletions
    /\ \A x \in Compared : x \notin {<<>>, PostFile, JustEnd} \cup Posting \cup Deletions
    /\ \A x \in Posting : x \notin {<<>>, PostFile, JustEnd} \cup Deletions
    /\ \A x \in Deletions : x \notin {<<>>, PostFile, JustEnd}
    /\ PostFile \notin {<<>>, JustEnd} /\ JustEnd # <<>>
<1>1. \A x \in Pushing : Head(x) = "push" /\ Len(x) # 0
  BY RequestTails, Lengths DEF Pushing
<1>2. \A x \in Comparing : Head(x) = "compare" /\ Len(x) # 0
  BY RequestTails, Lengths DEF Comparing
<1>3. \A x \in Compared : /\ Head(x) \in {"delete_thumbnail", "save", "table", "input_file", "soap", "write"}
                          /\ Head(x) = "delete_thumbnail" => Len(x) = 7
                          /\ Head(x) = "save" => Len(x) = 6
                          /\ Head(x) = "input_file" => Len(x) = 4
                          /\ Len(x) # 0
  BY RequestTails, Lengths DEF Compared
<1>4. \A x \in Posting : Head(x) \in {"save", "insert"} /\ (Head(x) = "save" => Len(x) = 4) /\ Len(x) # 0
  BY RequestTails, Lengths DEF Posting
<1>5. \A x \in Deletions :
          /\ Head(x) \in {"clear", "delete_record", "delete_thumbnail", "delete_bbox", "delete_file",
                          "delete_layers", "delete_row"}
          /\ Head(x) = "delete_thumbnail" => Len(x) = 6
          /\ Len(x) # 0
  BY RequestTails, Lengths DEF Removing, Deletions
<1>6. Head(PostFile) = "input_file" /\ Len(PostFile) = 2 /\ Head(JustEnd) = "end" /\ Len(JustEnd) = 1
  BY RequestTails, Lengths
<1>7. Len(<<>>) = 0
  OBVIOUS
<1> DEFINE nothing == <<>>
<1> HIDE DEF nothing
<1>8. /\ \A x \in Pushing : x \notin {nothing, PostFile, JustEnd}
      /\ \A x \in Comparing : x \notin {nothing, PostFile, JustEnd}
      /\ \A x \in Compared : x \notin {nothing, PostFile, JustEnd}
      /\ \A x \in Posting : x \notin {nothing, PostFile, JustEnd}
      /\ \A x \in Deletions : x \notin {nothing, PostFile, JustEnd}
      /\ PostFile \notin {nothing, JustEnd} /\ JustEnd # nothing
  <2>1. Len(nothing) = 0
    BY <1>7 DEF nothing
  <2>2. QED
    BY SMTT(30), <1>1, <1>2, <1>3, <1>4, <1>5, <1>6, <2>1
<1>9. \A x \in Pushing : x \notin Comparing \cup Compared \cup Posting \cup Deletions
  BY <1>1, <1>2, <1>3, <1>4, <1>5
<1>10. \A x \in Comparing : x \notin Compared \cup Posting \cup Deletions
  BY <1>2, <1>3, <1>4, <1>5
<1>11. \A x \in Compared : x \notin Posting \cup Deletions
  <2>1. ASSUME NEW x \in Compared, x \in Posting PROVE FALSE
    <3>1. Head(x) = "save" /\ Len(x) = 4
      BY <1>3, <1>4, <2>1
    <3>2. Len(x) = 6
      BY <1>3, <3>1
    <3>3. QED
      BY <3>1, <3>2
  <2>2. ASSUME NEW x \in Compared, x \in Deletions PROVE FALSE
    <3>1. Head(x) = "delete_thumbnail" /\ Len(x) = 6
      BY <1>3, <1>5, <2>2
    <3>2. Len(x) = 7
      BY <1>3, <3>1
    <3>3. QED
      BY <3>1, <3>2
  <2>3. QED
    BY <2>1, <2>2
<1>12. \A x \in Posting : x \notin Deletions
  BY <1>4, <1>5
<1>13. QED
  BY <1>8, <1>9, <1>10, <1>11, <1>12 DEF nothing

LEMMA ChainTails ==
    /\ Head(MapTasks) = "file_data" /\ Tail(MapTasks) = AtLayers
    /\ Head(AtLayers) = "layers" /\ Tail(AtLayers) = AtThumbnail
    /\ Head(AtThumbnail) = "thumbnail" /\ Tail(AtThumbnail) = AtDraw
    /\ Head(AtDraw) = "draw" /\ Tail(AtDraw) = AtThumbnailEnd
    /\ Head(AtThumbnailEnd) = "thumbnail_end" /\ Tail(AtThumbnailEnd) = AtSoap
    /\ Head(AtSoap) = "soap" /\ Tail(AtSoap) = AtWrite
    /\ Head(AtWrite) = "write" /\ Tail(AtWrite) = AtSoapEnd
    /\ Head(AtSoapEnd) = "soap_end" /\ Tail(AtSoapEnd) = <<>>
    /\ Head(ToRedraw) = "thumbnail" /\ Tail(ToRedraw) = JustDraw
    /\ Head(JustDraw) = "draw" /\ Tail(JustDraw) = <<>>
    /\ Len(MapTasks) = 8 /\ Len(AtLayers) = 7 /\ Len(AtThumbnail) = 6 /\ Len(AtDraw) = 5
    /\ Len(AtThumbnailEnd) = 4 /\ Len(AtSoap) = 3 /\ Len(AtWrite) = 2 /\ Len(AtSoapEnd) = 1
    /\ Len(ToRedraw) = 2 /\ Len(JustDraw) = 1
BY DEF MapTasks, AtLayers, AtThumbnail, AtDraw, AtThumbnailEnd, AtSoap, AtWrite, AtSoapEnd, ToRedraw, JustDraw

LEMMA RequestGoes ==
    ASSUME NEW x \in Todos, x # <<>>
    PROVE  /\ Head(x) = "push" => x \in Pushing /\ Tail(x) \in Comparing /\ (Tail(x) = FileCompare => x = FilePush)
           /\ Head(x) = "clear" => x = DeleteAll /\ Tail(x) = DeleteRecord
           /\ Head(x) = "compare" => x \in Comparing /\ Tail(x) \in {PatchTable, PatchClear}
                                     /\ (Tail(x) = PatchClear => x = FileCompare)
           /\ Head(x) = "save" => (x = PatchSave /\ Tail(x) = PatchTable) \/ (x = PostAll /\ Tail(x) = PostInsert)
           /\ Head(x) = "insert" => x = PostInsert /\ Tail(x) = PostFile
           /\ Head(x) = "table" => x = PatchTable /\ Tail(x) = PatchFile
           /\ Head(x) = "input_file" => (x = PatchFile /\ Tail(x) = PatchSoap) \/ (x = PostFile /\ Tail(x) = JustEnd)
           /\ Head(x) = "soap" => x = PatchSoap /\ Tail(x) = PatchWrite
           /\ Head(x) = "write" => x = PatchWrite /\ Tail(x) = JustEnd
           /\ Head(x) = "end" => x = JustEnd
           /\ Head(x) = "delete_record" => x = DeleteRecord /\ Tail(x) = DeleteThumbnail
           /\ Head(x) = "delete_thumbnail" =>
                  (x = PatchClear /\ Tail(x) = PatchSave) \/ (x = DeleteThumbnail /\ Tail(x) = DeleteBbox)
           /\ Head(x) = "delete_bbox" => x = DeleteBbox /\ Tail(x) = DeleteFile
           /\ Head(x) = "delete_file" => x = DeleteFile /\ Tail(x) = DeleteLayers
           /\ Head(x) = "delete_layers" => x = DeleteLayers /\ Tail(x) = DeleteRow
           /\ Head(x) = "delete_row" => x = DeleteRow /\ Tail(x) = JustEnd
<1>1. Head(x) = "push" => x \in Pushing /\ Tail(x) \in Comparing /\ (Tail(x) = FileCompare => x = FilePush)
  BY ZenonT(30), RequestTails DEF Todos, Pushing, Comparing, Compared, Posting, Removing, Deletions
<1>2. Head(x) = "clear" => x = DeleteAll /\ Tail(x) = DeleteRecord
  BY RequestTails DEF Todos, Pushing, Comparing, Compared, Posting, Removing, Deletions
<1>3. Head(x) = "compare" => x \in Comparing /\ Tail(x) \in {PatchTable, PatchClear} /\ (Tail(x) = PatchClear => x = FileCompare)
  <2>1. Head(x) = "compare" => x \in Comparing
    BY RequestTails DEF Todos, Pushing, Comparing, Compared, Posting, Removing, Deletions
  <2>2. PatchTable # PatchClear
    BY Lengths
  <2>3. QED
    BY ZenonT(30), <2>1, <2>2, RequestTails DEF Comparing
<1>4. Head(x) = "save" => (x = PatchSave /\ Tail(x) = PatchTable) \/ (x = PostAll /\ Tail(x) = PostInsert)
  BY RequestTails DEF Todos, Pushing, Comparing, Compared, Posting, Removing, Deletions
<1>5. Head(x) = "insert" => x = PostInsert /\ Tail(x) = PostFile
  BY RequestTails DEF Todos, Pushing, Comparing, Compared, Posting, Removing, Deletions
<1>6. Head(x) = "table" => x = PatchTable /\ Tail(x) = PatchFile
  BY RequestTails DEF Todos, Pushing, Comparing, Compared, Posting, Removing, Deletions
<1>7. Head(x) = "input_file" => (x = PatchFile /\ Tail(x) = PatchSoap) \/ (x = PostFile /\ Tail(x) = JustEnd)
  BY RequestTails DEF Todos, Pushing, Comparing, Compared, Posting, Removing, Deletions
<1>8. Head(x) = "soap" => x = PatchSoap /\ Tail(x) = PatchWrite
  BY RequestTails DEF Todos, Pushing, Comparing, Compared, Posting, Removing, Deletions
<1>9. Head(x) = "write" => x = PatchWrite /\ Tail(x) = JustEnd
  BY RequestTails DEF Todos, Pushing, Comparing, Compared, Posting, Removing, Deletions
<1>10. Head(x) = "end" => x = JustEnd
  BY RequestTails DEF Todos, Pushing, Comparing, Compared, Posting, Removing, Deletions
<1>11. Head(x) = "delete_record" => x = DeleteRecord /\ Tail(x) = DeleteThumbnail
  BY RequestTails DEF Todos, Pushing, Comparing, Compared, Posting, Removing, Deletions
<1>12. Head(x) = "delete_thumbnail" => (x = PatchClear /\ Tail(x) = PatchSave) \/ (x = DeleteThumbnail /\ Tail(x) = DeleteBbox)
  BY RequestTails DEF Todos, Pushing, Comparing, Compared, Posting, Removing, Deletions
<1>13. Head(x) = "delete_bbox" => x = DeleteBbox /\ Tail(x) = DeleteFile
  BY RequestTails DEF Todos, Pushing, Comparing, Compared, Posting, Removing, Deletions
<1>14. Head(x) = "delete_file" => x = DeleteFile /\ Tail(x) = DeleteLayers
  BY RequestTails DEF Todos, Pushing, Comparing, Compared, Posting, Removing, Deletions
<1>15. Head(x) = "delete_layers" => x = DeleteLayers /\ Tail(x) = DeleteRow
  BY RequestTails DEF Todos, Pushing, Comparing, Compared, Posting, Removing, Deletions
<1>16. Head(x) = "delete_row" => x = DeleteRow /\ Tail(x) = JustEnd
  BY RequestTails DEF Todos, Pushing, Comparing, Compared, Posting, Removing, Deletions
<1>17. QED
  BY <1>1, <1>2, <1>3, <1>4, <1>5, <1>6, <1>7, <1>8, <1>9, <1>10, <1>11, <1>12, <1>13, <1>14, <1>15, <1>16

LEMMA RequestGoesOn ==
    ASSUME NEW x \in Todos, x # <<>>, x # JustEnd
    PROVE  Tail(x) \in Todos
<1>1. CASE x \in Pushing
  BY <1>1, RequestTails DEF Todos, Pushing, Comparing
<1>2. CASE x \in Comparing
  BY <1>2, RequestTails DEF Todos, Comparing, Compared
<1>3. CASE x \in Compared
  BY ZenonT(30), <1>3, RequestTails DEF Todos, Compared
<1>4. CASE x \in Posting
  BY <1>4, RequestTails DEF Todos, Posting
<1>5. CASE x \in Deletions
  BY <1>5, RequestTails DEF Todos, Deletions, Removing
<1>6. CASE x = PostFile
  BY <1>6, RequestTails DEF Todos
<1>7. QED
  BY <1>1, <1>2, <1>3, <1>4, <1>5, <1>6 DEF Todos

LEMMA ChainGoes ==
    ASSUME NEW x \in PublishTodos \cup {ToRedraw, JustDraw}, x # <<>>
    PROVE  /\ Head(x) = "file_data" => x = MapTasks /\ Tail(x) = AtLayers
           /\ Head(x) = "layers" => x = AtLayers /\ Tail(x) = AtThumbnail
           /\ Head(x) = "thumbnail" => (x = AtThumbnail /\ Tail(x) = AtDraw) \/ (x = ToRedraw /\ Tail(x) = JustDraw)
           /\ Head(x) = "draw" => (x = AtDraw /\ Tail(x) = AtThumbnailEnd) \/ (x = JustDraw /\ Tail(x) = <<>>)
           /\ Head(x) = "thumbnail_end" => x = AtThumbnailEnd /\ Tail(x) = AtSoap
           /\ Head(x) = "soap" => x = AtSoap /\ Tail(x) = AtWrite
           /\ Head(x) = "write" => x = AtWrite /\ Tail(x) = AtSoapEnd
           /\ Head(x) = "soap_end" => x = AtSoapEnd /\ Tail(x) = <<>>
BY ChainTails DEF PublishTodos, Unwritten, Undrawn

LEMMA ChainGoesOn ==
    ASSUME NEW x \in PublishTodos, x # <<>>
    PROVE  Tail(x) \in PublishTodos
BY ChainTails DEF PublishTodos, Unwritten, Undrawn

(* All distinct.                                                           *)
LEMMA ChainStages ==
    /\ \A x \in Undrawn : x \notin {AtDraw, AtThumbnailEnd, AtSoap, AtWrite, AtSoapEnd, <<>>, ToRedraw, JustDraw}
    /\ MapTasks \notin {AtLayers, AtThumbnail} /\ AtLayers # AtThumbnail
    /\ AtDraw \notin {AtThumbnailEnd, AtSoap, AtWrite, AtSoapEnd, <<>>, ToRedraw, JustDraw}
    /\ AtThumbnailEnd \notin {AtSoap, AtWrite, AtSoapEnd, <<>>, ToRedraw, JustDraw}
    /\ AtSoap \notin {AtWrite, AtSoapEnd, <<>>, ToRedraw, JustDraw}
    /\ AtWrite \notin {AtSoapEnd, <<>>, ToRedraw, JustDraw}
    /\ AtSoapEnd \notin {<<>>, ToRedraw, JustDraw}
    /\ <<>> \notin {ToRedraw, JustDraw} /\ ToRedraw # JustDraw
<1>1. \A x \in Undrawn : x \notin {AtDraw, AtThumbnailEnd, AtSoap, AtWrite, AtSoapEnd, <<>>, ToRedraw, JustDraw}
  <2>1. \A x \in Undrawn : Len(x) \in {6, 7, 8}
    BY ChainTails DEF Undrawn
  <2>2. \A x \in {AtDraw, AtThumbnailEnd, AtSoap, AtWrite, AtSoapEnd, ToRedraw, JustDraw} : Len(x) \in {1, 2, 3, 4, 5}
    BY ChainTails
  <2>3. \A x \in {<<>>} : Len(x) = 0
    OBVIOUS
  <2>4. \A x \in Undrawn : x \notin {AtDraw, AtThumbnailEnd, AtSoap, AtWrite, AtSoapEnd, ToRedraw, JustDraw}
    BY <2>1, <2>2
  <2>5. \A x \in Undrawn : x \notin {<<>>}
    BY SMTT(30), <2>1, <2>3
  <2>6. QED
    BY <2>4, <2>5
<1>2. MapTasks \notin {AtLayers, AtThumbnail} /\ AtLayers # AtThumbnail
  BY ChainTails DEF Undrawn
<1>3. AtDraw \notin {AtThumbnailEnd, AtSoap, AtWrite, AtSoapEnd, <<>>, ToRedraw, JustDraw}
  BY ChainTails DEF Undrawn
<1>4. AtThumbnailEnd \notin {AtSoap, AtWrite, AtSoapEnd, <<>>, ToRedraw, JustDraw}
  BY ChainTails DEF Undrawn
<1>5. AtSoap \notin {AtWrite, AtSoapEnd, <<>>, ToRedraw, JustDraw}
  BY ChainTails DEF Undrawn
<1>6. AtWrite \notin {AtSoapEnd, <<>>, ToRedraw, JustDraw}
  BY ChainTails DEF Undrawn
<1>7. AtSoapEnd \notin {<<>>, ToRedraw, JustDraw}
  BY ChainTails DEF Undrawn
<1>8. <<>> \notin {ToRedraw, JustDraw} /\ ToRedraw # JustDraw
  BY ChainTails DEF Undrawn
<1>9. QED
  BY <1>1, <1>2, <1>3, <1>4, <1>5, <1>6, <1>7, <1>8

-----------------------------------------------------------------------------
(* Types.                                                                  *)
LEMMA Nothing ==
    /\ NoRow \in RowType /\ NoFile \in FileType /\ NoThumbnail \in ThumbnailType /\ NoRecord \in RecordType
    /\ NoRequest \in [todo : Todos, new : RowType, file : FileType, props : SUBSET Props]
    /\ NothingRead \in [op : {"none", "insert", "update"}, record : RecordType]
    /\ NoChain \in ChainType /\ FeatureChange \in ChainType
    /\ Lost \in [Props -> Owners]
<1>1. NoRow \in RowType /\ NoFile \in FileType /\ NoThumbnail \in ThumbnailType /\ NoRecord \in RecordType
  BY DEF NoRow, RowType, NoFile, FileType, NoThumbnail, ThumbnailType, NoRecord, RecordType
<1>2. <<>> \in Todos /\ <<>> \in PublishTodos
  BY DEF Todos, PublishTodos
<1>3. NoChain \in ChainType /\ FeatureChange \in ChainType
  BY <1>1, <1>2 DEF NoChain, FeatureChange, ChainType, ToRedraw
<1>4. NothingRead \in [op : {"none", "insert", "update"}, record : RecordType]
  BY <1>1 DEF NothingRead
<1>5. QED
  BY <1>1, <1>2, <1>3, <1>4 DEF NoRequest, Lost, Owners

LEMMA Values ==
    ASSUME Types, NEW m \in RowType
    PROVE  /\ \A u \in SUBSET Layer : OperatesOn(u) \subseteq Layer \X Nat
           /\ Uuids(m.layers) \subseteq Layer
           /\ PropertyValues(m, actor).title = m.title /\ PropertyValues(m, actor).extent = m.extent
           /\ Inserted(m) \in RecordType
           /\ \A props \in SUBSET Props : Updated(m, props) \in RecordType
           /\ \A p \in Props : Inserted(m)[p] = PropertyValues(m, actor)[p]
           /\ \A props \in SUBSET Props, p \in Props :
                  Updated(m, props)[p] = IF p \in props THEN PropertyValues(m, actor)[p] ELSE soap.record[p]
<1>1. ASSUME NEW u \in SUBSET Layer PROVE OperatesOn(u) \subseteq Layer \X Nat
  BY DEF OperatesOn, Types, LayerType
<1> DEFINE readable == ReadableBy(actor, Uuids(m.layers))
<1>2. Uuids(m.layers) \in SUBSET Layer /\ readable \in SUBSET Layer
  BY DEF Uuids, RowType, ReadableBy
<1>3. /\ PropertyValues(m, actor).title = m.title /\ PropertyValues(m, actor).extent = m.extent
      /\ PropertyValues(m, actor).operates_on = OperatesOn(readable)
  BY DEF PropertyValues
<1>4. OperatesOn(readable) \subseteq Layer \X Nat
  BY <1>1, <1>2
<1> HIDE DEF readable
<1>5. DOMAIN NoRecord = {"title", "extent", "operates_on", "public"}
  BY DEF NoRecord
<1>6. m.title \in Nat /\ m.extent \in Nat /\ m.public \in BOOLEAN
  BY DEF RowType
<1>7. Inserted(m) = [title |-> m.title, extent |-> m.extent,
                     operates_on |-> OperatesOn(readable), public |-> m.public]
  BY <1>3, <1>5 DEF Inserted
<1>8. Inserted(m) \in RecordType
  BY <1>4, <1>6, <1>7 DEF RecordType
<1>9. ASSUME NEW props \in SUBSET Props PROVE Updated(m, props) \in RecordType
  <2>1. soap.record \in RecordType
    BY DEF Types
  <2>2. "public" \notin props
    BY DEF Props
  <2>3. Updated(m, props) = [title |-> IF "title" \in props THEN m.title ELSE soap.record.title,
                             extent |-> IF "extent" \in props THEN m.extent ELSE soap.record.extent,
                             operates_on |-> IF "operates_on" \in props THEN OperatesOn(readable)
                                             ELSE soap.record.operates_on,
                             public |-> soap.record.public]
    BY <1>3, <1>5, <2>2 DEF Updated
  <2>4. QED
    BY <1>4, <1>6, <2>1, <2>3 DEF RecordType
<1>10. \A p \in Props : p \in DOMAIN NoRecord /\ p # "public"
  BY <1>5 DEF Props
<1>11. QED
  BY <1>1, <1>2, <1>3, <1>8, <1>9, <1>10 DEF Inserted, Updated

(* The row and the file agree on the title when a task reads them.         *)
LEMMA LoadedIs ==
    ASSUME Types
    PROVE  /\ Loaded \in RowType
           /\ row.title = file.title => Loaded = row
BY DEF Loaded, Types, RowType, FileType

(* A row with another title and access rights.                             *)
RowWith(m, exists, title, public) == [m EXCEPT !.exists = exists, !.title = title, !.public = public]

LEMMA RowSet ==
    ASSUME NEW m \in RowType, NEW exists \in BOOLEAN, NEW title \in Nat, NEW public \in BOOLEAN
    PROVE  /\ RowWith(m, exists, title, public) \in RowType
           /\ RowWith(m, exists, title, public).exists = exists
           /\ RowWith(m, exists, title, public).title = title
           /\ RowWith(m, exists, title, public).public = public
           /\ RowWith(m, exists, title, public).extent = m.extent
           /\ RowWith(m, exists, title, public).layers = m.layers
BY DEF RowType, RowWith

LEMMA NewTypes ==
    ASSUME Types, NEW public \in BOOLEAN
    PROVE  /\ \A m \in RowType : /\ New(m, public) \in RowType /\ New(m, public).exists /\ New(m, public).title # 0
                                 /\ New(m, public).title = requests + 1
           /\ \A layout \in Layouts : /\ NewFile(layout) \in FileType /\ NewFile(layout) # NoFile
                                      /\ NewFile(layout).title = requests + 1
<1>1. requests \in Nat
  BY DEF Types
<1>2. ASSUME NEW m \in RowType
      PROVE  /\ New(m, public) \in RowType /\ New(m, public).exists /\ New(m, public).title # 0
             /\ New(m, public).title = requests + 1
  <2>1. requests + 1 \in Nat /\ requests + 1 # 0 /\ TRUE \in BOOLEAN
    BY <1>1
  <2>2. New(m, public) = RowWith(m, TRUE, requests + 1, public)
    BY DEF New, RowWith
  <2>3. /\ RowWith(m, TRUE, requests + 1, public) \in RowType
        /\ RowWith(m, TRUE, requests + 1, public).exists = TRUE
        /\ RowWith(m, TRUE, requests + 1, public).title = requests + 1
    BY <2>1, RowSet, Zenon
  <2>4. QED
    BY <2>1, <2>2, <2>3
<1>3. ASSUME NEW layout \in Layouts
      PROVE  /\ NewFile(layout) \in FileType /\ NewFile(layout) # NoFile
             /\ NewFile(layout).title = requests + 1
  <2>1. layout \in Seq(Layer \cup {External})
    BY MapsAssumption
  <2>2. NewFile(layout) \in FileType /\ NewFile(layout).title = requests + 1
    BY <1>1, <2>1 DEF NewFile, FileType
  <2>3. NewFile(layout).title # NoFile.title
    BY <1>1, <2>2 DEF NoFile
  <2>4. QED
    BY <2>2, <2>3
<1>4. QED
  BY <1>2, <1>3

LEMMA OwnerTypes ==
    ASSUME Types
    PROVE  \A props : Unknown(props) \in [Props -> Owners]
BY DEF Types, Unknown, Owners

LEMMA SoapTypes ==
    ASSUME Types, NEW m \in RowType, NEW props \in SUBSET Props,
           SoapReads(m, props) \/ SoapWrites(m, props)
    PROVE  /\ record' \in RecordType
           /\ soap' \in [op : {"none", "insert", "update"}, record : RecordType]
           /\ owner' \in [Props -> Owners]
<1>1. CASE SoapReads(m, props)
  BY <1>1, Nothing DEF SoapReads, csw_delete, Types
<1>2. CASE SoapWrites(m, props)
  <2>1. soap.op \in {"none", "insert", "update"} /\ record \in RecordType
    BY DEF Types
  <2>2. record' \in RecordType
    BY <1>2, <2>1, Values DEF SoapWrites
  <2>3. owner' \in [Props -> Owners]
    BY <1>2 DEF SoapWrites, Types, Owners
  <2>4. QED
    BY <1>2, <2>2, <2>3, Nothing DEF SoapWrites
<1>3. QED
  BY <1>1, <1>2

(* A plan of a request that begins with the queueing of a step.            *)
LEMMA Joined ==
    ASSUME NEW S, NEW s \in Seq(S), NEW t \in Seq(S), NEW u \in Seq(S), Len(u) = Len(s) + Len(t),
           \A i \in 1 .. Len(s) : u[i] = s[i], \A i \in 1 .. Len(t) : u[Len(s) + i] = t[i]
    PROVE  s \o t = u
<1>1. s \o t \in Seq(S) /\ Len(s \o t) = Len(u)
  BY ConcatProperties
<1>2. ASSUME NEW i \in 1 .. Len(u) PROVE (s \o t)[i] = u[i]
  <2>1. (s \o t)[i] = IF i <= Len(s) THEN s[i] ELSE t[i - Len(s)]
    BY ConcatProperties
  <2>2. CASE i <= Len(s)
    BY <2>1, <2>2
  <2>3. CASE i > Len(s)
    <3>1. i - Len(s) \in 1 .. Len(t) /\ i = Len(s) + (i - Len(s))
      BY <2>3
    <3>2. u[Len(s) + (i - Len(s))] = t[i - Len(s)]
      BY <3>1
    <3>3. QED
      BY <2>1, <2>3, <3>1, <3>2
  <2>4. QED
    BY <2>2, <2>3
<1>3. QED
  BY <1>1, <1>2, SeqEqual

LEMMA Plans ==
    /\ <<>> \o PlainCompare = PlainCompare /\ <<>> \o FileCompare = FileCompare
    /\ <<"push">> \o PlainCompare = PlainPush /\ <<"push">> \o FileCompare = FilePush
<1> DEFINE Steps == {"push", "compare", "delete_thumbnail", "save", "table", "input_file", "soap", "write", "end"}
           push == <<"push">>
<1>1. /\ push \in Seq(Steps) /\ PlainCompare \in Seq(Steps) /\ FileCompare \in Seq(Steps)
      /\ PlainPush \in Seq(Steps) /\ FilePush \in Seq(Steps)
  BY DEF PlainCompare, FileCompare, PlainPush, FilePush
<1>2. Len(push) = 1 /\ push[1] = "push"
  OBVIOUS
<1>3. \A i \in 1 .. 6 : i = 1 \/ i = 2 \/ i = 3 \/ i = 4 \/ i = 5 \/ i = 6
  OBVIOUS
<1>4. \A i \in 1 .. 8 : i \in 1 .. 6 \/ i = 7 \/ i = 8
  OBVIOUS
<1>5. PlainPush[1] = "push" /\ \A i \in 1 .. 6 : PlainPush[1 + i] = PlainCompare[i]
  BY <1>3 DEF PlainPush, PlainCompare
<1>6. FilePush[1] = "push" /\ \A i \in 1 .. 8 : FilePush[1 + i] = FileCompare[i]
  BY <1>3, <1>4 DEF FilePush, FileCompare
<1> HIDE DEF push, Steps
<1>7. push \o PlainCompare = PlainPush
  <2>1. Len(PlainPush) = Len(push) + Len(PlainCompare)
    BY <1>2, Lengths
  <2>2. /\ \A i \in 1 .. Len(push) : PlainPush[i] = push[i]
        /\ \A i \in 1 .. Len(PlainCompare) : PlainPush[Len(push) + i] = PlainCompare[i]
    BY <1>2, <1>5, Lengths
  <2>3. QED
    BY <1>1, <2>1, <2>2, Joined
<1>8. push \o FileCompare = FilePush
  <2>1. Len(FilePush) = Len(push) + Len(FileCompare)
    BY <1>2, Lengths
  <2>2. /\ \A i \in 1 .. Len(push) : FilePush[i] = push[i]
        /\ \A i \in 1 .. Len(FileCompare) : FilePush[Len(push) + i] = FileCompare[i]
    BY <1>2, <1>6, Lengths
  <2>3. QED
    BY <1>1, <2>1, <2>2, Joined
<1>9. QED
  BY <1>1, <1>7, <1>8, ConcatEmptySeq DEF push

LEMMA PatchStepsIs ==
    ASSUME NEW layouts
    PROVE  PatchSteps(layouts) = IF layouts = {} THEN PlainCompare ELSE FileCompare
BY DEF PatchSteps, PlainCompare, FileCompare

LEMMA InitTypes == Init => Types
<1> SUFFICES ASSUME Init PROVE Types
  OBVIOUS
<1>1. QED
  BY Nothing DEF Init, Types, LayerType

(* The steps of the request.                                               *)
LEMMA RequestTypes ==
    ASSUME IInv,
           \/ \E layout \in Layouts, public \in BOOLEAN : Post(layout, public)
           \/ \E layouts \in {{}} \cup {{f} : f \in Layouts}, public \in BOOLEAN : Patch(layouts, public)
           \/ Delete
           \/ Queues \/ Compare \/ SaveFile \/ Table \/ InputFile \/ RequestReadsRecord
           \/ RequestWritesRecord \/ DeleteSource \/ RequestEnds \/ RequestFails
    PROVE  Types'
<1>1. Types
  BY DEF IInv
<1>2. request \in [todo : Todos, new : RowType, file : FileType, props : SUBSET Props]
  BY <1>1 DEF Types
<1>3. CASE \E layout \in Layouts, public \in BOOLEAN : Post(layout, public)
  <2>1. PICK layout \in Layouts, public \in BOOLEAN : Post(layout, public)
    BY <1>3
  <2>2. New(NoRow, public) \in RowType /\ NewFile(layout) \in FileType
    BY <1>1, Nothing, NewTypes
  <2>3. PostAll \in Todos
    BY DEF Todos, Posting
  <2>4. request' \in [todo : Todos, new : RowType, file : FileType, props : SUBSET Props]
    BY <2>1, <2>2, <2>3 DEF Post, PostAll
  <2>5. QED
    BY <1>1, <2>1, <2>4 DEF Post, Comes, Types, stores
<1>4. CASE \E layouts \in {{}} \cup {{f} : f \in Layouts}, public \in BOOLEAN : Patch(layouts, public)
  <2>1. PICK layouts \in {{}} \cup {{f} : f \in Layouts}, public \in BOOLEAN : Patch(layouts, public)
    BY <1>4
  <2>2. New(NoRow, public) \in RowType
    BY <1>1, Nothing, NewTypes
  <2>3. request'.todo \in Pushing \cup Comparing
    BY <2>1, Plans, PatchStepsIs DEF Patch, Pushing, Comparing
  <2>4. request'.file \in FileType
    <3>1. CASE layouts = {}
      BY <2>1, <3>1, Nothing DEF Patch
    <3>2. CASE layouts # {}
      <4>1. (CHOOSE f \in layouts : TRUE) \in Layouts
        BY <3>2
      <4>2. QED
        BY <1>1, <2>1, <3>2, <4>1, NewTypes DEF Patch
    <3>3. QED
      BY <3>1, <3>2
  <2>5. request' \in [todo : Todos, new : RowType, file : FileType, props : SUBSET Props]
    BY <2>1, <2>2, <2>3, <2>4 DEF Patch, Todos
  <2>6. chain' \in ChainType
    BY <1>1, <2>1 DEF Patch, Types, ChainType
  <2>7. QED
    BY <1>1, <2>1, <2>5, <2>6 DEF Patch, Comes, Types, stores
<1>5. CASE Delete
  <2>1. request' \in [todo : Todos, new : RowType, file : FileType, props : SUBSET Props]
    <3>1. DeleteAll \in Todos
      BY DEF Todos, Deletions
    <3>2. QED
      BY <1>5, <3>1, Nothing DEF Delete, NoRequest, DeleteAll
  <2>2. chain' \in ChainType
    BY <1>1, <1>5 DEF Delete, Types, ChainType
  <2>3. requests' \in Nat /\ actor' \in Actor
    BY <1>1, <1>5 DEF Delete, Comes, Types
  <2>4. UNCHANGED <<row, file, thumbnail, record, layer, soap, later, owner, broken, edited, changes, edits, failures>>
    BY <1>5 DEF Delete, Comes, stores
  <2>5. QED
    BY <1>1, <2>1, <2>2, <2>3, <2>4 DEF Types
<1> DEFINE RequestType == [todo : Todos, new : RowType, file : FileType, props : SUBSET Props]
<1>6. ASSUME Goes, request.todo # <<>>, request.todo # JustEnd PROVE request' \in RequestType
  <2>1. Tail(request.todo) \in Todos
    BY <1>2, <1>6, RequestGoesOn
  <2>2. QED
    BY <1>2, <1>6, <2>1 DEF Goes
<1>7. JustEnd # <<>> /\ Head(JustEnd) = "end"
  BY RequestTails, RequestStages
<1>8. CASE Queues
  <2>1. request' \in RequestType
    BY <1>6, <1>7, <1>8 DEF Queues, Step
  <2>2. QED
    BY <1>1, <1>8, <2>1 DEF Queues, Step, Types, stores, inputs
<1>9. CASE Compare
  <2>1. Tail(request.todo) \in Todos
    <3>1. Tail(request.todo) \in {PatchTable, PatchClear}
      BY <1>2, <1>9, RequestGoes DEF Compare, Step
    <3>2. QED
      BY <3>1 DEF Todos, Compared
  <2>2. request'.new \in RowType
    BY <1>1, <1>2, <1>9 DEF Compare, Types, RowType
  <2>3. SameOrMissingPropNames \in SUBSET Props
    BY DEF SameOrMissingPropNames
  <2>4. request' \in RequestType
    BY <1>2, <1>9, <2>1, <2>2, <2>3 DEF Compare
  <2>5. QED
    BY <1>1, <1>9, <2>4 DEF Compare, Step, Types, stores, inputs
<1>10. CASE SaveFile
  <2>1. request' \in RequestType
    BY <1>6, <1>7, <1>10 DEF SaveFile, Step
  <2>2. QED
    BY <1>1, <1>2, <1>10, <2>1 DEF SaveFile, Step, Types, inputs
<1>11. CASE Table
  <2>1. request' \in RequestType
    BY <1>6, <1>7, <1>11 DEF Table, Step
  <2>2. row' \in RowType
    <3>1. row \in RowType /\ request.new \in RowType
      BY <1>1, <1>2 DEF Types
    <3>2. ASSUME NEW new \in RowType PROVE [row EXCEPT !.title = new.title, !.public = new.public] \in RowType
      <4>1. new.title \in Nat /\ new.public \in BOOLEAN
        BY DEF RowType
      <4>2. QED
        BY <3>1, <4>1 DEF RowType
    <3>3. QED
      BY <1>11, <3>1, <3>2 DEF Table
  <2>3. QED
    BY <1>1, <1>11, <2>1, <2>2 DEF Table, Step, Types, inputs
<1>12. CASE InputFile
  <2>1. request' \in RequestType
    BY <1>6, <1>7, <1>12 DEF InputFile, Step
  <2>2. file' \in FileType
    BY <1>1, <1>2, <1>12 DEF InputFile, Types, FileType, RowType
  <2>3. QED
    BY <1>1, <1>12, <2>1, <2>2 DEF InputFile, Step, Types, inputs
<1>13. CASE RequestReadsRecord
  <2>1. request' \in RequestType
    BY <1>6, <1>7, <1>13 DEF RequestReadsRecord, Step
  <2>2. /\ record' \in RecordType
        /\ soap' \in [op : {"none", "insert", "update"}, record : RecordType]
        /\ owner' \in [Props -> Owners]
    BY <1>1, <1>2, <1>13, SoapTypes DEF RequestReadsRecord
  <2>3. QED
    BY <1>1, <1>13, <2>1, <2>2 DEF RequestReadsRecord, Step, Types, inputs
<1>14. CASE RequestWritesRecord
  <2>1. request' \in RequestType
    BY <1>6, <1>7, <1>14 DEF RequestWritesRecord, Step
  <2>2. /\ record' \in RecordType
        /\ soap' \in [op : {"none", "insert", "update"}, record : RecordType]
        /\ owner' \in [Props -> Owners]
    BY <1>1, <1>2, <1>14, SoapTypes DEF RequestWritesRecord
  <2>3. QED
    BY <1>1, <1>14, <2>1, <2>2 DEF RequestWritesRecord, Step, Types, inputs
<1>15. CASE DeleteSource
  <2>1. request' \in RequestType
    BY <1>6, <1>7, <1>15 DEF DeleteSource, Step
  <2>2. row' \in RowType
    BY <1>1, <1>15, Nothing DEF DeleteSource, Types, RowType
  <2>3. file' \in FileType /\ thumbnail' \in ThumbnailType /\ record' \in RecordType
        /\ owner' \in [Props -> Owners]
    BY <1>1, <1>15, Nothing DEF DeleteSource, Types
  <2>4. QED
    BY <1>1, <1>15, <2>1, <2>2, <2>3 DEF DeleteSource, Step, Types, inputs
<1>16. RunNext => chain' \in ChainType /\ later' \in BOOLEAN
  BY Nothing DEF RunNext
<1>17. CASE RequestEnds
  <2>1. chain' \in ChainType /\ later' \in BOOLEAN
    <3>1. CASE request.file # NoFile
      <4>1. Publishing(request.props) \in ChainType
        BY <1>2, Nothing DEF Publishing, ChainType, PublishTodos, Unwritten, Undrawn, MapTasks
      <4>2. QED
        BY <1>1, <1>17, <3>1, <4>1 DEF RequestEnds, Types
    <3>2. QED
      BY <1>16, <1>17, <3>1 DEF RequestEnds
  <2>2. QED
    BY <1>1, <1>17, <2>1, Nothing DEF RequestEnds, Step, Types, stores, inputs
<1>18. CASE RequestFails
  <2>1. failures' \in Nat /\ UNCHANGED <<actor, edited, requests, changes, edits>>
    BY <1>1, <1>18 DEF RequestFails, Counted, Types
  <2>2. QED
    BY <1>1, <1>16, <1>18, <2>1, Nothing, OwnerTypes DEF RequestFails, Types, stores
<1>19. QED
  BY <1>3, <1>4, <1>5, <1>8, <1>9, <1>10, <1>11, <1>12, <1>13, <1>14, <1>15, <1>17, <1>18

(* The tasks.                                                              *)
LEMMA TaskTypes ==
    ASSUME IInv,
           \/ refresh_file_data \/ ensure_internal_layers \/ refresh_thumbnail \/ Draw
           \/ refresh_soap \/ WriteRecord \/ TaskEnds \/ TaskFails \/ ChainEnds
    PROVE  Types'
<1>1. Types
  BY DEF IInv
<1>2. chain \in ChainType /\ row \in RowType /\ file \in FileType
  BY <1>1 DEF Types
<1>3. ASSUME chain.todo # <<>> PROVE Tail(chain.todo) \in PublishTodos \cup {ToRedraw, JustDraw}
  BY ZenonT(30), <1>2, <1>3, ChainTails DEF ChainType, PublishTodos, Unwritten, Undrawn
<1>4. ASSUME Done, chain.todo # <<>> PROVE chain' \in ChainType
  BY <1>2, <1>3, <1>4 DEF Done, ChainType
<1>5. CASE refresh_file_data
  <2>1. chain' \in ChainType
    BY <1>4, <1>5 DEF refresh_file_data, Starts, Task
  <2>2. row' \in RowType
    BY <1>2, <1>5 DEF refresh_file_data, RowType, FileType
  <2>3. QED
    BY <1>1, <1>5, <2>1, <2>2 DEF refresh_file_data, Starts, Task, Types, inputs
<1>6. CASE ensure_internal_layers
  <2>1. chain' \in ChainType
    BY <1>2, <1>4, <1>6 DEF ensure_internal_layers, Task
  <2>2. LayersOf(file) \subseteq Layer \X Nat
    BY <1>2 DEF LayersOf, FileType
  <2>3. row.layers \subseteq Layer \X Nat
    BY <1>2 DEF RowType
  <2>4. ASSUME NEW s \in SUBSET (Layer \X Nat) PROVE [row EXCEPT !.layers = s] \in RowType
    BY <1>2 DEF RowType
  <2>5. row' \in RowType
    <3>1. \/ row' = row
          \/ \E ml \in Layer \X Nat : row' = [row EXCEPT !.layers = row.layers \ {ml}]
          \/ \E ml \in Layer \X Nat : row' = [row EXCEPT !.layers = row.layers \cup {ml}]
      BY <1>6, <2>2, <2>3 DEF ensure_internal_layers
    <3>2. QED
      BY <1>2, <2>3, <2>4, <3>1
  <2>6. QED
    BY <1>1, <1>6, <2>1, <2>5 DEF ensure_internal_layers, Task, Types, inputs
<1>7. CASE refresh_thumbnail
  <2>1. Features \in [Layer -> Nat]
    BY <1>1 DEF Features, Types, LayerType
  <2>2. [extent |-> file.extent, features |-> Features] \in ThumbnailType
    BY <1>2, <2>1 DEF ThumbnailType, FileType
  <2>3. chain' \in ChainType
    BY <1>2, <1>3, <1>7, <2>2 DEF refresh_thumbnail, Starts, Task, ChainType
  <2>4. broken' \in BOOLEAN
    BY <1>7 DEF refresh_thumbnail
  <2>5. QED
    BY <1>1, <1>7, <2>3, <2>4 DEF refresh_thumbnail, Starts, Task, Types, stores, inputs
<1>8. CASE Draw
  <2>1. chain' \in ChainType
    BY <1>4, <1>8 DEF Draw, Task
  <2>2. thumbnail' \in ThumbnailType
    BY <1>2, <1>8 DEF Draw, ChainType
  <2>3. QED
    BY <1>1, <1>8, <2>1, <2>2 DEF Draw, Task, Types, inputs
<1>9. chain.props \in SUBSET Props
  BY <1>2 DEF ChainType
<1>10. CASE refresh_soap
  <2>1. chain' \in ChainType
    BY <1>4, <1>10 DEF refresh_soap, Starts, Task
  <2>2. /\ record' \in RecordType
        /\ soap' \in [op : {"none", "insert", "update"}, record : RecordType]
        /\ owner' \in [Props -> Owners]
    BY <1>1, <1>2, <1>9, <1>10, SoapTypes, LoadedIs DEF refresh_soap
  <2>3. QED
    BY <1>1, <1>10, <2>1, <2>2 DEF refresh_soap, Starts, Task, Types, inputs
<1>11. CASE WriteRecord
  <2>1. chain' \in ChainType
    BY <1>4, <1>11 DEF WriteRecord, Task
  <2>2. /\ record' \in RecordType
        /\ soap' \in [op : {"none", "insert", "update"}, record : RecordType]
        /\ owner' \in [Props -> Owners]
    BY <1>1, <1>2, <1>9, <1>11, SoapTypes, LoadedIs DEF WriteRecord
  <2>3. QED
    BY <1>1, <1>11, <2>1, <2>2 DEF WriteRecord, Task, Types, inputs
<1>12. CASE TaskEnds
  <2>1. chain' \in ChainType
    BY <1>4, <1>12 DEF TaskEnds, Task
  <2>2. thumbnail' \in ThumbnailType /\ record' \in RecordType
        /\ owner' \in [Props -> Owners]
    BY <1>1, <1>12, Nothing DEF TaskEnds, Types
  <2>3. QED
    BY <1>1, <1>12, <2>1, <2>2 DEF TaskEnds, Task, Types, inputs
<1>13. CASE TaskFails
  <2>1. failures' \in Nat /\ UNCHANGED <<actor, edited, requests, changes, edits>>
    BY <1>1, <1>13 DEF TaskFails, Counted, Types
  <2>2. owner' \in [Props -> Owners]
    BY <1>1, <1>13, OwnerTypes DEF TaskFails, Types
  <2>3. QED
    BY <1>1, <1>13, <2>1, <2>2, Nothing DEF TaskFails, Types, stores
<1>14. CASE ChainEnds
  <2>1. chain' \in ChainType /\ later' \in BOOLEAN
    BY <1>1, <1>14, Nothing DEF ChainEnds, RunNext, Types
  <2>2. owner' \in [Props -> Owners] /\ broken' \in BOOLEAN
    BY <1>1, <1>14, OwnerTypes DEF ChainEnds, Types
  <2>3. QED
    BY <1>1, <1>14, <2>1, <2>2 DEF ChainEnds, Types, stores, inputs
<1>15. QED
  BY <1>5, <1>6, <1>7, <1>8, <1>10, <1>11, <1>12, <1>13, <1>14

(* The layers and the catalogue.                                           *)
LEMMA OtherTypes ==
    ASSUME IInv,
           \/ \E l \in Layer :
                  \/ ChangeFeatures(l) \/ ChangeLayer(l) \/ LayerChainEnds(l) \/ LayerChainFails(l)
                  \/ patch_after_feature_change(l) \/ push_step_to_run_after_chain(l)
           \/ \E p \in Props : EditRecord(p)
    PROVE  Types'
<1>1. Types
  BY DEF IInv
<1>2. layer \in [Layer -> LayerType]
  BY <1>1 DEF Types
<1>3. ASSUME NEW l \in Layer, NEW ll \in LayerType PROVE [layer EXCEPT ![l] = ll] \in [Layer -> LayerType]
  BY <1>2
<1>4. ASSUME NEW l \in Layer, NextOfLayer(l) PROVE layer' \in [Layer -> LayerType]
  <2> DEFINE c == IF layer[l].again THEN "running" ELSE "none"
  <2>1. [layer[l] EXCEPT !.chain = c, !.again = FALSE] \in LayerType
    BY <1>2 DEF LayerType
  <2>2. layer' = [layer EXCEPT ![l] = [layer[l] EXCEPT !.chain = c, !.again = FALSE]]
    BY <1>2, <1>4 DEF NextOfLayer
  <2> HIDE DEF c
  <2>3. QED
    BY <1>3, <2>1, <2>2
<1>5. ASSUME NEW l \in Layer, NEW c \in {"none", "running", "notify", "push"}
      PROVE  [layer EXCEPT ![l].chain = c] \in [Layer -> LayerType]
  BY <1>2 DEF LayerType
<1>6. ASSUME NEW l \in Layer, ChangeFeatures(l) PROVE Types'
  <2>1. layer' \in [Layer -> LayerType]
    <3>1. ASSUME NEW again \in BOOLEAN, NEW features \in Nat, NEW c \in {"none", "running", "notify", "push"}
          PROVE  [layer EXCEPT ![l].features = features, ![l].again = again, ![l].chain = c]
                     \in [Layer -> LayerType]
      <4>1. layer[l] \in LayerType
        BY <1>2
      <4>2. [layer[l] EXCEPT !.features = features, !.again = again, !.chain = c] \in LayerType
        BY <4>1 DEF LayerType
      <4>3. [layer EXCEPT ![l].features = features, ![l].again = again, ![l].chain = c]
                = [layer EXCEPT ![l] = [layer[l] EXCEPT !.features = features, !.again = again, !.chain = c]]
        BY <1>2
      <4>4. QED
        BY <1>3, <4>2, <4>3
    <3> DEFINE again == layer[l].chain # "none"
                 c == IF layer[l].chain = "none" THEN "running" ELSE layer[l].chain
    <3>3. layer' = [layer EXCEPT ![l].features = layer[l].features + 1, ![l].again = again, ![l].chain = c]
      BY <1>6 DEF ChangeFeatures
    <3>4. again \in BOOLEAN
      OBVIOUS
    <3>5. c \in {"none", "running", "notify", "push"} /\ layer[l].features + 1 \in Nat
      BY <1>2 DEF LayerType
    <3> HIDE DEF again, c
    <3>6. QED
      BY <3>1, <3>3, <3>4, <3>5
  <2>2. changes' \in Nat
    <3>1. Changes
      BY <1>6 DEF ChangeFeatures
    <3>2. QED
      BY <1>1, <3>1 DEF Changes, Types
  <2>3. UNCHANGED <<row, file, thumbnail, record, request, soap, chain, later, owner, broken, actor, edited, requests,
                    edits, failures>>
    BY <1>6 DEF ChangeFeatures, Changes, stores
  <2>4. QED
    BY <1>1, <2>1, <2>2, <2>3 DEF Types
<1>7. ASSUME NEW l \in Layer, ChangeLayer(l) PROVE Types'
  <2>1. layer' \in [Layer -> LayerType]
    <3>1. CASE layer' = [layer EXCEPT ![l].exists = FALSE]
      BY <1>2, <3>1 DEF LayerType
    <3>2. CASE \E readers \in SUBSET Actor :
                  layer' = [layer EXCEPT ![l].title = @ + 1, ![l].readers = readers]
      <4>1. PICK readers \in SUBSET Actor :
                layer' = [layer EXCEPT ![l].title = @ + 1, ![l].readers = readers]
        BY <3>2
      <4>2. [layer[l] EXCEPT !.title = layer[l].title + 1, !.readers = readers] \in LayerType
        <5>1. layer[l] \in LayerType
          BY <1>2
        <5>2. layer[l].title + 1 \in Nat
          BY <5>1 DEF LayerType
        <5>3. ASSUME NEW title \in Nat PROVE [layer[l] EXCEPT !.title = title, !.readers = readers] \in LayerType
          BY <5>1 DEF LayerType
        <5>4. QED
          BY <5>2, <5>3
      <4>3. layer' = [layer EXCEPT ![l] = [layer[l] EXCEPT !.title = layer[l].title + 1, !.readers = readers]]
        BY <1>2, <4>1
      <4>4. QED
        BY <1>3, <4>2, <4>3
    <3>3. QED
      BY <1>7, <3>1, <3>2 DEF ChangeLayer
  <2>2. QED
    BY <1>1, <1>7, <2>1, OwnerTypes DEF ChangeLayer, Changes, Types, stores
<1>8. ASSUME NEW l \in Layer, LayerChainEnds(l) PROVE Types'
  <2>1. layer' \in [Layer -> LayerType]
    BY <1>4, <1>5, <1>8 DEF LayerChainEnds
  <2>2. QED
    BY <1>1, <1>8, <2>1 DEF LayerChainEnds, Types, stores, inputs
<1>9. ASSUME NEW l \in Layer, LayerChainFails(l) PROVE Types'
  <2>1. layer' \in [Layer -> LayerType]
    BY <1>2, <1>9 DEF LayerChainFails, LayerType
  <2>2. failures' \in Nat /\ UNCHANGED <<actor, edited, requests, changes, edits>>
    BY <1>1, <1>9 DEF LayerChainFails, Counted, Types
  <2>3. QED
    BY <1>1, <1>9, <2>1, <2>2 DEF LayerChainFails, Types, stores
<1>10. ASSUME NEW l \in Layer, patch_after_feature_change(l) PROVE Types'
  <2>1. layer' \in [Layer -> LayerType] /\ chain' \in ChainType
    BY <1>1, <1>4, <1>5, <1>10, Nothing DEF patch_after_feature_change, StepLater, Types
  <2>2. QED
    BY <1>1, <1>10, <2>1 DEF patch_after_feature_change, Types, stores, inputs
<1>11. ASSUME NEW l \in Layer, push_step_to_run_after_chain(l) PROVE Types'
  <2>1. layer' \in [Layer -> LayerType]
    BY <1>4, <1>11 DEF push_step_to_run_after_chain
  <2>2. QED
    BY <1>1, <1>11, <2>1 DEF push_step_to_run_after_chain, Types, stores, inputs
<1>12. ASSUME NEW p \in Props, EditRecord(p) PROVE Types'
  <2>1. record' \in RecordType /\ edited' \in RecordType
    <3>1. record \in RecordType /\ edited \in RecordType
      BY <1>1 DEF Types
    <3>2. Foreign \in (Layer \cup {External}) \X Nat
      BY DEF Foreign
    <3>3. ASSUME NEW value \in Edits(p), NEW r \in RecordType PROVE [r EXCEPT ![p] = value] \in RecordType
      <4>1. CASE p = "operates_on"
        <5>1. value \in SUBSET ((Layer \cup {External}) \X Nat)
          BY <3>1, <3>2, <4>1 DEF Edits, RecordType
        <5>2. QED
          BY <4>1, <5>1 DEF RecordType
      <4>2. CASE p \in {"title", "extent"}
        BY <4>2 DEF Edits, RecordType
      <4>3. QED
        BY <4>1, <4>2 DEF Props
    <3>4. PICK value \in Edits(p) :
              /\ record' = [record EXCEPT ![p] = value]
              /\ edited' \in {edited, [edited EXCEPT ![p] = value]}
      BY <1>12 DEF EditRecord
    <3>5. QED
      BY <3>1, <3>3, <3>4
  <2>2. owner' \in [Props -> Owners] /\ edits' \in Nat
    BY <1>1, <1>12 DEF EditRecord, Types, Owners
  <2>3. QED
    BY <1>1, <1>12, <2>1, <2>2 DEF EditRecord, Types
<1>13. QED
  BY <1>6, <1>7, <1>8, <1>9, <1>10, <1>11, <1>12

-----------------------------------------------------------------------------
(* What is known of the request and the chain.                             *)
LEMMA Members ==
    /\ PlainPush \in Pushing /\ FilePush \in Pushing
    /\ PlainCompare \in Comparing /\ FileCompare \in Comparing
    /\ PatchClear \in Compared /\ PatchSave \in Compared /\ PatchTable \in Compared
    /\ PatchFile \in Compared /\ PatchSoap \in Compared /\ PatchWrite \in Compared
    /\ PostAll \in Posting /\ PostInsert \in Posting
    /\ DeleteAll \in Deletions /\ DeleteRecord \in Deletions
    /\ \A x \in Removing : x \in Deletions
    /\ DeleteThumbnail \in Removing /\ DeleteBbox \in Removing /\ DeleteFile \in Removing
    /\ DeleteLayers \in Removing /\ DeleteRow \in Removing
    /\ DeleteAll \notin Removing /\ DeleteRecord \notin Removing /\ DeleteAll # DeleteRecord
    /\ PlainPush # FilePush /\ PlainCompare # FileCompare
    /\ PatchClear \notin {PatchSave, PatchTable, PatchFile, PatchSoap, PatchWrite}
    /\ PatchSave \notin {PatchTable, PatchFile, PatchSoap, PatchWrite}
    /\ PatchTable \notin {PatchFile, PatchSoap, PatchWrite}
    /\ PatchFile \notin {PatchSoap, PatchWrite} /\ PatchSoap # PatchWrite
    /\ PostAll # PostInsert
<1>1. DeleteAll \notin Removing /\ DeleteRecord \notin Removing /\ DeleteAll # DeleteRecord
  BY Lengths DEF Removing
<1>2. /\ PatchClear \notin {PatchSave, PatchTable, PatchFile, PatchSoap, PatchWrite}
      /\ PatchSave \notin {PatchTable, PatchFile, PatchSoap, PatchWrite}
      /\ PatchTable \notin {PatchFile, PatchSoap, PatchWrite}
      /\ PatchFile \notin {PatchSoap, PatchWrite} /\ PatchSoap # PatchWrite
      /\ PlainPush # FilePush /\ PlainCompare # FileCompare /\ PostAll # PostInsert
  BY Lengths
<1>3. QED
  BY <1>1, <1>2 DEF Pushing, Comparing, Compared, Posting, Removing, Deletions

LEMMA RequestControl ==
    ASSUME IInv,
           \/ \E layout \in Layouts, public \in BOOLEAN : Post(layout, public)
           \/ \E layouts \in {{}} \cup {{f} : f \in Layouts}, public \in BOOLEAN : Patch(layouts, public)
           \/ Delete
           \/ Queues \/ Compare \/ SaveFile \/ Table \/ InputFile \/ RequestReadsRecord
           \/ RequestWritesRecord \/ DeleteSource \/ RequestEnds \/ RequestFails
    PROVE  RequestSays'
<1>1. Types /\ RequestSays /\ ChainSays
  BY DEF IInv, Control
<1>2. request \in [todo : Todos, new : RowType, file : FileType, props : SUBSET Props]
  BY <1>1 DEF Types
<1>3. CASE \E layout \in Layouts, public \in BOOLEAN : Post(layout, public)
  <2>1. PICK layout \in Layouts, public \in BOOLEAN : Post(layout, public)
    BY <1>3
  <2>2. /\ New(NoRow, public).exists /\ New(NoRow, public).title = requests + 1
        /\ New(NoRow, public).title # 0
        /\ NewFile(layout) # NoFile /\ NewFile(layout).title = requests + 1
    BY <1>1, Nothing, NewTypes
  <2>3. request'.todo = PostAll /\ request'.props = Props
    BY <2>1 DEF Post, PostAll
  <2>4. request'.new = New(NoRow, public) /\ request'.file = NewFile(layout) /\ row' = row /\ ~row.exists
    BY <2>1 DEF Post, Comes, stores
  <2>5. QED
    BY <2>2, <2>3, <2>4, Members, RequestStages DEF RequestSays
<1>4. CASE \E layouts \in {{}} \cup {{f} : f \in Layouts}, public \in BOOLEAN : Patch(layouts, public)
  <2>1. PICK layouts \in {{}} \cup {{f} : f \in Layouts}, public \in BOOLEAN : Patch(layouts, public)
    BY <1>4
  <2>2. /\ New(NoRow, public).exists /\ New(NoRow, public).title = requests + 1
        /\ New(NoRow, public).title # 0
    BY <1>1, Nothing, NewTypes
  <2>3. /\ request'.todo \in Pushing \cup Comparing
        /\ request'.todo \in {FilePush, FileCompare} => layouts # {}
    <3>1. request'.todo = (IF chain.kind # "none" THEN <<"push">> ELSE <<>>)
                              \o (IF layouts = {} THEN PlainCompare ELSE FileCompare)
      BY <2>1, PatchStepsIs DEF Patch
    <3>2. request'.todo = IF chain.kind # "none" THEN IF layouts = {} THEN PlainPush ELSE FilePush
                          ELSE IF layouts = {} THEN PlainCompare ELSE FileCompare
      BY <3>1, Plans
    <3>3. PlainPush \notin Comparing /\ PlainCompare \notin Pushing
      BY Members, RequestStages
    <3>4. QED
      BY <3>2, <3>3, Members
  <2>4. /\ request'.file # NoFile => request'.file.title = requests + 1
        /\ layouts # {} => request'.file # NoFile
    <3>1. CASE layouts = {}
      BY <2>1, <3>1 DEF Patch
    <3>2. CASE layouts # {}
      <4>1. (CHOOSE f \in layouts : TRUE) \in Layouts
        BY <3>2
      <4>2. QED
        BY <1>1, <2>1, <3>2, <4>1, NewTypes DEF Patch
    <3>3. QED
      BY <3>1, <3>2
  <2>5. request'.new = New(NoRow, public) /\ request'.props = {} /\ row' = row /\ row.exists
    BY <2>1 DEF Patch, Comes, stores
  <2>6. QED
    BY <2>2, <2>3, <2>4, <2>5, Members, RequestStages DEF RequestSays
<1>5. CASE Delete
  <2>1. request' = [NoRequest EXCEPT !.todo = DeleteAll]
    BY <1>5 DEF Delete, DeleteAll
  <2>2. request'.todo = DeleteAll /\ request'.file = NoFile /\ request'.new = NoRow /\ ~NoRow.exists
    BY <2>1 DEF NoRequest, NoRow
  <2>3. QED
    BY <2>1, <2>2, Members, RequestStages DEF RequestSays
<1>6. ASSUME Goes
      PROVE  /\ request'.todo = Tail(request.todo) /\ request'.new = request.new
             /\ request'.file = request.file /\ request'.props = request.props
  BY <1>2, <1>6 DEF Goes
<1>7. ASSUME NEW s, Step(s) PROVE request.todo \in Todos /\ request.todo # <<>> /\ Head(request.todo) = s
  BY <1>2, <1>7 DEF Step
<1>8. CASE Queues
  <2>1. PICK s \in {"push", "clear"} : Step(s) /\ Goes /\ row' = row /\ file' = file
    BY <1>8 DEF Queues, stores
  <2>2. /\ request'.todo = Tail(request.todo) /\ request'.new = request.new
        /\ request'.file = request.file /\ request'.props = request.props
    BY <1>6, <2>1
  <2>3. CASE s = "push"
    <3>1. request.todo \in Pushing /\ Tail(request.todo) \in Comparing
          /\ (Tail(request.todo) = FileCompare => request.todo = FilePush)
      BY <1>7, <2>1, <2>3, RequestGoes
    <3>2. QED
      BY ZenonT(30), <1>1, <2>1, <2>2, <3>1, Members, RequestStages DEF RequestSays
  <2>4. CASE s = "clear"
    <3>1. request.todo = DeleteAll /\ Tail(request.todo) = DeleteRecord
      BY <1>7, <2>1, <2>4, RequestGoes
    <3>2. ~request.new.exists /\ request = [NoRequest EXCEPT !.todo = DeleteAll]
      BY <1>1, <3>1, Members DEF RequestSays
    <3>3. request' = [NoRequest EXCEPT !.todo = DeleteRecord]
      BY <2>1, <3>1, <3>2 DEF Goes, NoRequest
    <3>4. request'.file = NoFile
      BY <3>3 DEF NoRequest
    <3>5. QED
      BY ZenonT(30), <2>1, <2>2, <3>1, <3>2, <3>3, <3>4, Members, RequestStages DEF RequestSays
  <2>5. QED
    BY <2>1, <2>3, <2>4
<1>9. CASE Compare
  <2>1. request.todo \in Comparing /\ Tail(request.todo) \in {PatchTable, PatchClear}
        /\ (Tail(request.todo) = PatchClear => request.todo = FileCompare)
    BY <1>7, <1>9, RequestGoes DEF Compare
  <2>2. /\ request'.todo = Tail(request.todo) /\ request'.file = request.file
        /\ request'.new = [row EXCEPT !.title = request.new.title, !.public = request.new.public]
    BY <1>2, <1>9 DEF Compare
  <2>3. /\ request'.new.title = request.new.title /\ request'.new.exists = row.exists
        /\ request'.new.layers = row.layers /\ request'.new.extent = row.extent
    BY <1>1, <2>2 DEF Types, RowType
  <2>4. row' = row
    BY <1>9 DEF Compare, stores
  <2>5. row.exists /\ request.new.title # 0 /\ (request.file # NoFile => request.file.title = request.new.title)
        /\ (request.todo = FileCompare => request.file # NoFile)
    BY <1>1, <2>1, Members, RequestStages DEF RequestSays
  <2>6. request'.new.exists
    BY <2>3, <2>5
  <2>7. request'.todo \in {PatchTable, PatchClear} /\ (request'.todo = PatchClear => request'.file # NoFile)
    BY <2>1, <2>2, <2>5
  <2>8. /\ request'.todo \in Compared /\ (request'.todo = PatchSave => FALSE)
        /\ request'.todo \notin {<<>>, PostFile, JustEnd} \cup Pushing \cup Comparing \cup Posting \cup Deletions
        /\ request'.todo \notin {FilePush, FileCompare, PatchFile, PatchSoap, PatchWrite}
    BY <2>7, Members, RequestStages
  <2>9. QED
    BY <2>2, <2>3, <2>4, <2>5, <2>6, <2>7, <2>8 DEF RequestSays
<1>10. CASE SaveFile
  <2>1. \/ request.todo = PatchSave /\ Tail(request.todo) = PatchTable
        \/ request.todo = PostAll /\ Tail(request.todo) = PostInsert
    BY <1>7, <1>10, RequestGoes DEF SaveFile
  <2>2. row' = row /\ request'.todo = Tail(request.todo) /\ request'.new = request.new
        /\ request'.file = request.file /\ request'.props = request.props
    BY <1>6, <1>10 DEF SaveFile
  <2>3. CASE request.todo = PatchSave
    <3>1. row.exists /\ request.new.exists /\ request.new.title # 0 /\ request.file # NoFile
          /\ request.file.title = request.new.title
          /\ request.new.layers = row.layers /\ request.new.extent = row.extent
      BY <1>1, <2>3, Members, RequestStages DEF RequestSays
    <3>2. /\ PatchTable \in Compared /\ PatchTable \notin {PatchClear, PatchSave, <<>>, PostFile, JustEnd}
          /\ PatchTable \notin Pushing \cup Comparing \cup Posting \cup Deletions
          /\ PatchTable \notin {FilePush, FileCompare, PatchFile, PatchSoap, PatchWrite}
      BY Members, RequestStages
    <3>3. request'.todo = PatchTable
      BY <2>1, <2>2, <2>3, Members, RequestStages
    <3>4. QED
      BY <2>2, <3>1, <3>2, <3>3 DEF RequestSays
  <2>4. CASE request.todo = PostAll
    BY ZenonT(30), <1>1, <2>1, <2>2, <2>4, Members, RequestStages DEF RequestSays
  <2>5. QED
    BY <2>1, <2>3, <2>4
<1>11. CASE Table
  <2>1. PICK s \in {"insert", "table"} :
            /\ Step(s) /\ Goes /\ file' = file
            /\ row' = IF s = "insert" THEN request.new
                      ELSE [row EXCEPT !.title = request.new.title, !.public = request.new.public]
    BY <1>11 DEF Table
  <2>2. request'.todo = Tail(request.todo) /\ request'.new = request.new
        /\ request'.file = request.file /\ request'.props = request.props
    BY <1>6, <2>1
  <2>3. CASE s = "insert"
    <3>1. request.todo = PostInsert /\ Tail(request.todo) = PostFile
      BY <1>7, <2>1, <2>3, RequestGoes
    <3>2. row' = request.new
      BY <2>1, <2>3
    <3>3. QED
      BY <1>1, <2>2, <3>1, <3>2, Members, RequestStages DEF RequestSays
  <2>4. CASE s = "table"
    <3>1. request.todo = PatchTable /\ Tail(request.todo) = PatchFile
      BY <1>7, <2>1, <2>4, RequestGoes
    <3>2. row' = [row EXCEPT !.title = request.new.title, !.public = request.new.public]
      BY <2>1, <2>4
    <3>3. row'.exists = row.exists /\ row'.title = request.new.title
          /\ row'.layers = row.layers /\ row'.extent = row.extent
      BY <1>1, <3>2 DEF Types, RowType
    <3>4. QED
      BY ZenonT(30), <1>1, <2>2, <3>1, <3>3, Members, RequestStages DEF RequestSays
  <2>5. QED
    BY <2>1, <2>3, <2>4
<1>12. CASE InputFile
  <2>1. \/ request.todo = PatchFile /\ Tail(request.todo) = PatchSoap
        \/ request.todo = PostFile /\ Tail(request.todo) = JustEnd
    BY <1>7, <1>12, RequestGoes DEF InputFile
  <2>2. row' = row /\ request'.todo = Tail(request.todo) /\ request'.new = request.new
        /\ request'.file = request.file /\ request'.props = request.props
    BY <1>6, <1>12 DEF InputFile
  <2>3. file'.title = request.new.title
    BY <1>1, <1>12 DEF InputFile, Types, FileType
  <2>4. QED
    BY ZenonT(30), <1>1, <2>1, <2>2, <2>3, Members, RequestStages DEF RequestSays
<1>13. CASE RequestReadsRecord
  BY SMTT(30), <1>1, <1>2, <1>6, <1>13, RequestGoes, Members, RequestStages DEF RequestReadsRecord, Step, RequestSays
<1>14. CASE RequestWritesRecord
  BY <1>1, <1>2, <1>6, <1>14, RequestGoes, Members, RequestStages DEF RequestWritesRecord, Step, RequestSays
<1>15. CASE DeleteSource
  <2>1. PICK s \in {"delete_record", "delete_thumbnail", "delete_bbox", "delete_file", "delete_layers", "delete_row"} :
            /\ Step(s) /\ Goes
            /\ file' = IF s = "delete_file" THEN NoFile ELSE file
            /\ row' = CASE s = "delete_bbox"   -> [row EXCEPT !.extent = 0]
                        [] s = "delete_layers" -> [row EXCEPT !.layers = {}]
                        [] s = "delete_row"    -> NoRow
                        [] OTHER -> row
    BY <1>15 DEF DeleteSource
  <2>2. request'.todo = Tail(request.todo) /\ request'.new = request.new
        /\ request'.file = request.file /\ request'.props = request.props
    BY <1>6, <2>1
  <2>3. CASE request.todo = PatchClear
    <3>1. s = "delete_thumbnail"
      <4>1. Head(request.todo) = s
        BY <1>7, <2>1
      <4>2. QED
        BY <2>3, <4>1, RequestTails
    <3>2. row' = row /\ file' = file /\ Tail(request.todo) = PatchSave
      BY <2>1, <2>3, <3>1, RequestTails
    <3>3. QED
      BY <1>1, <2>2, <2>3, <3>2, Members, RequestStages DEF RequestSays
  <2>4. CASE request.todo # PatchClear
    <3>1. /\ request.todo \in Deletions /\ Tail(request.todo) \in Deletions \cup {JustEnd}
          /\ Tail(request.todo) = JustEnd => s = "delete_row"
      <4>1. \/ s = "delete_record" /\ request.todo = DeleteRecord /\ Tail(request.todo) = DeleteThumbnail
            \/ s = "delete_thumbnail" /\ request.todo = DeleteThumbnail /\ Tail(request.todo) = DeleteBbox
            \/ s = "delete_bbox" /\ request.todo = DeleteBbox /\ Tail(request.todo) = DeleteFile
            \/ s = "delete_file" /\ request.todo = DeleteFile /\ Tail(request.todo) = DeleteLayers
            \/ s = "delete_layers" /\ request.todo = DeleteLayers /\ Tail(request.todo) = DeleteRow
            \/ s = "delete_row" /\ request.todo = DeleteRow /\ Tail(request.todo) = JustEnd
        BY <1>7, <2>1, <2>4, RequestGoes
      <4>2. QED
        BY <4>1, Members, RequestStages
    <3>2. ~request.new.exists /\ request = [NoRequest EXCEPT !.todo = request.todo]
      BY <1>1, <3>1 DEF RequestSays
    <3>3. request' = [NoRequest EXCEPT !.todo = Tail(request.todo)]
      BY <2>1, <3>2 DEF Goes, NoRequest
    <3>4. Tail(request.todo) = JustEnd => ~row'.exists
      BY <2>1, <3>1 DEF NoRow
    <3>5. request'.file = NoFile
      BY <3>3 DEF NoRequest
    <3>6. QED
      BY ZenonT(30), <2>2, <3>1, <3>2, <3>3, <3>4, <3>5, Members, RequestStages DEF RequestSays
  <2>5. QED
    BY <2>3, <2>4
<1>17. ASSUME request' = NoRequest PROVE RequestSays'
  <2>1. request'.todo = <<>> /\ request'.new = NoRow /\ request'.file = NoFile
    BY <1>17 DEF NoRequest
  <2>2. ~NoRow.exists
    BY DEF NoRow
  <2>3. NoRequest = [NoRequest EXCEPT !.todo = <<>>]
    BY SMTT(30) DEF NoRequest
  <2>4. request' = [NoRequest EXCEPT !.todo = request'.todo]
    BY <1>17, <2>1, <2>3
  <2>5. request'.todo \notin {PostFile, JustEnd} \cup Pushing \cup Comparing \cup Compared \cup Posting
        /\ request'.todo \notin {FilePush, FileCompare, PatchClear, PatchSave, PatchFile, PatchSoap, PatchWrite}
    BY <2>1, RequestStages, Members
  <2>6. ~request'.new.exists
    BY <2>1, <2>2
  <2>7. QED
    BY <2>1, <2>4, <2>5, <2>6 DEF RequestSays
<1>18. QED
  BY <1>3, <1>4, <1>5, <1>8, <1>9, <1>10, <1>11, <1>12, <1>13, <1>14, <1>15, <1>17 DEF RequestEnds, RequestFails

(* A chain that runs leaves little to the request.                         *)
LEMMA BesideChain ==
    ASSUME IInv, chain.kind # "none", request' = request, row'.exists = row.exists
    PROVE  RequestSays'
<1>1. request.todo \in {<<>>, DeleteAll} \cup Pushing
  BY DEF IInv, Control, ChainSays
<1>2. request.todo \notin {PostFile, JustEnd} \cup Comparing \cup Compared \cup Posting
  BY <1>1, Members, RequestStages
<1>3. request.todo \notin {PatchFile, PatchSoap, PatchWrite}
  BY <1>2, Members
<1>4. QED
  BY <1>2, <1>3 DEF IInv, Control, RequestSays

(* The chain after a request.                                              *)
LEMMA RequestChain ==
    ASSUME IInv,
           \/ \E layout \in Layouts, public \in BOOLEAN : Post(layout, public)
           \/ \E layouts \in {{}} \cup {{f} : f \in Layouts}, public \in BOOLEAN : Patch(layouts, public)
           \/ Delete
           \/ Queues \/ Compare \/ SaveFile \/ Table \/ InputFile \/ RequestReadsRecord
           \/ RequestWritesRecord \/ DeleteSource \/ RequestEnds \/ RequestFails
    PROVE  ChainSays' /\ RowSays'
<1>1. Types /\ RequestSays /\ ChainSays /\ RowSays
  BY DEF IInv, Control
<1>2. request \in [todo : Todos, new : RowType, file : FileType, props : SUBSET Props] /\ chain \in ChainType
  BY <1>1 DEF Types
<1>6. ASSUME chain' = NoChain, row'.exists => row'.title # 0 PROVE ChainSays' /\ RowSays'
  <2>1. NoChain.kind = "none" /\ ~NoChain.aborted
    BY DEF NoChain
  <2>2. QED
    BY <1>6, <2>1 DEF ChainSays, RowSays
<1>3. CASE \E layout \in Layouts, public \in BOOLEAN : Post(layout, public)
  <2>1. PICK layout \in Layouts, public \in BOOLEAN : Post(layout, public)
    BY <1>3
  <2>2. chain' = chain /\ row' = row /\ chain.kind = "none"
    BY <2>1 DEF Post, Comes, Locked, stores
  <2>3. chain = NoChain /\ ~chain.aborted
    BY <1>1, <2>2 DEF ChainSays, NoChain
  <2>4. QED
    BY <1>1, <2>2, <2>3 DEF ChainSays, RowSays
<1>4. CASE \E layouts \in {{}} \cup {{f} : f \in Layouts}, public \in BOOLEAN : Patch(layouts, public)
  <2>1. PICK layouts \in {{}} \cup {{f} : f \in Layouts}, public \in BOOLEAN : Patch(layouts, public)
    BY <1>4
  <2>2. chain' = [chain EXCEPT !.aborted = chain.kind # "none"] /\ row' = row /\ chain.kind # "publish"
    BY <2>1 DEF Patch, Comes, stores
  <2>3. request'.todo \in Pushing \cup Comparing /\ (chain.kind # "none" => request'.todo \in Pushing)
    <3>1. request'.todo = (IF chain.kind # "none" THEN <<"push">> ELSE <<>>)
                              \o (IF layouts = {} THEN PlainCompare ELSE FileCompare)
      BY <2>1, PatchStepsIs DEF Patch
    <3>2. QED
      BY <3>1, Plans, Members
  <2>4. CASE chain.kind = "none"
    <3>1. chain = NoChain
      BY <1>1, <2>4 DEF ChainSays
    <3>2. chain' = NoChain
      BY <2>2, <2>4, <3>1 DEF NoChain
    <3>3. QED
      BY <1>1, <1>6, <2>2, <3>2 DEF RowSays
  <2>5. CASE chain.kind = "features"
    <3>1. chain'.kind = "features" /\ chain'.todo = chain.todo /\ chain'.props = chain.props
      BY <1>2, <2>2, <2>5 DEF ChainType
    <3>2. QED
      BY <1>1, <2>2, <2>3, <2>5, <3>1 DEF ChainSays, RowSays
  <2>6. QED
    BY <1>2, <2>2, <2>4, <2>5 DEF ChainType
<1>5. CASE Delete
  <2>1. request'.todo = DeleteAll /\ row' = row
    BY <1>5 DEF Delete, DeleteAll, NoRequest, Comes, stores
  <2>2. chain' = [chain EXCEPT !.aborted = chain.kind # "none"] /\ file' = file
    BY <1>5 DEF Delete, Comes, stores
  <2>3. chain'.kind = chain.kind /\ chain'.todo = chain.todo /\ chain'.props = chain.props
    BY <1>2, <2>2 DEF ChainType
  <2>4. chain.kind = "none" => chain' = NoChain
    <3>1. ASSUME chain.kind = "none" PROVE chain' = NoChain
      <4>1. chain = NoChain
        BY <1>1, <3>1 DEF ChainSays
      <4>2. QED
        BY <2>2, <3>1, <4>1 DEF NoChain
    <3>2. QED
      BY <3>1
  <2>5. QED
    BY <1>1, <2>1, <2>2, <2>3, <2>4 DEF ChainSays, RowSays
<1>7. chain.kind = "none" => chain = NoChain
  BY <1>1 DEF ChainSays
<1>8. CASE Queues \/ Compare \/ SaveFile \/ InputFile \/ RequestReadsRecord \/ RequestWritesRecord
  <2>1. chain' = chain /\ row' = row /\ chain.kind = "none"
    BY <1>8 DEF Queues, Compare, SaveFile, InputFile, RequestReadsRecord, RequestWritesRecord, Step, stores
  <2>2. QED
    BY <1>1, <1>6, <1>7, <2>1 DEF RowSays
<1>9. CASE Table
  <2>1. chain' = chain /\ chain.kind = "none"
    BY <1>9 DEF Table, Step
  <2>2. request.todo \in {PostInsert, PatchTable}
    BY <1>2, <1>9, RequestGoes DEF Table, Step
  <2>3. request.new.title # 0
    BY <1>1, <2>2, Members DEF RequestSays
  <2>4. row'.title = request.new.title
    BY <1>1, <1>9 DEF Table, Types, RowType
  <2>5. QED
    BY <1>6, <1>7, <2>1, <2>3, <2>4
<1>10. CASE DeleteSource
  <2>1. chain' = chain /\ chain.kind = "none"
    BY <1>10 DEF DeleteSource, Step
  <2>2. row' = NoRow \/ (row'.exists = row.exists /\ row'.title = row.title)
    BY <1>1, <1>10 DEF DeleteSource, Types, RowType
  <2>3. ~NoRow.exists
    BY DEF NoRow
  <2>4. QED
    BY <1>1, <1>6, <1>7, <2>1, <2>2, <2>3 DEF RowSays
<1>11. ASSUME RunNext, request'.todo = <<>>, row' = row PROVE ChainSays' /\ RowSays'
  <2>1. FeatureChange.kind = "features" /\ FeatureChange.todo = ToRedraw /\ FeatureChange.props = {}
        /\ ~FeatureChange.aborted
    BY DEF FeatureChange, NoChain, ToRedraw
  <2>2. chain' = NoChain \/ chain' = FeatureChange
    BY <1>11 DEF RunNext
  <2>3. row'.exists => row'.title # 0
    BY <1>1, <1>11 DEF RowSays
  <2>4. QED
    BY <1>6, <1>11, <2>1, <2>2, <2>3 DEF ChainSays, RowSays
<1>12. CASE RequestEnds
  <2>1. request'.todo = <<>> /\ row' = row /\ file' = file
    BY <1>12 DEF RequestEnds, NoRequest, stores
  <2>2. CASE request.file # NoFile
    <3>1. chain' = Publishing(request.props)
      BY <1>12, <2>2 DEF RequestEnds
    <3>2. chain'.kind = "publish" /\ chain'.todo = MapTasks /\ ~chain'.aborted
      BY <3>1 DEF Publishing, NoChain
    <3>3. request.todo = JustEnd
      BY <1>2, <1>12, RequestGoes DEF RequestEnds, Step
    <3>4. request.new.exists
      <4>1. NoFile = NoRequest.file
        BY DEF NoRequest
      <4>2. [NoRequest EXCEPT !.todo = request.todo].file = NoFile
        BY DEF NoRequest
      <4>3. QED
        BY <1>1, <2>2, <4>2 DEF RequestSays
    <3>5. row.exists /\ row.title = file.title
      BY <1>1, <3>3, <3>4 DEF RequestSays
    <3>6. QED
      BY <1>1, <2>1, <3>2, <3>5 DEF ChainSays, RowSays, PublishTodos, Unwritten, Undrawn
  <2>3. CASE request.file = NoFile
    BY <1>11, <1>12, <2>1, <2>3 DEF RequestEnds
  <2>4. QED
    BY <2>2, <2>3
<1>13. CASE RequestFails
  BY <1>11, <1>13 DEF RequestFails, NoRequest, stores
<1>14. QED
  BY <1>3, <1>4, <1>5, <1>8, <1>9, <1>10, <1>12, <1>13

LEMMA TaskControl ==
    ASSUME IInv,
           \/ refresh_file_data \/ ensure_internal_layers \/ refresh_thumbnail \/ Draw
           \/ refresh_soap \/ WriteRecord \/ TaskEnds \/ TaskFails \/ ChainEnds
    PROVE  Control'
<1>1. Types /\ RequestSays /\ ChainSays /\ RowSays
  BY DEF IInv, Control
<1>2. chain \in ChainType /\ row \in RowType
  BY <1>1 DEF Types
<1>3. chain.kind # "none" /\ request' = request
  BY DEF refresh_file_data, ensure_internal_layers, refresh_thumbnail, Draw, refresh_soap, WriteRecord,
         TaskEnds, TaskFails, ChainEnds, Starts, Task
<1>4. file' = file
  BY DEF refresh_file_data, ensure_internal_layers, refresh_thumbnail, Draw, refresh_soap, WriteRecord,
         TaskEnds, TaskFails, ChainEnds, stores
<1>5. row'.exists = row.exists /\ row'.title = row.title
  <2>1. CASE refresh_file_data
    BY <1>2, <2>1 DEF refresh_file_data, RowType
  <2>2. CASE ensure_internal_layers
    BY <1>2, <2>2 DEF ensure_internal_layers, RowType
  <2>3. QED
    BY <2>1, <2>2 DEF refresh_thumbnail, Draw, refresh_soap, WriteRecord, TaskEnds, TaskFails, ChainEnds, stores
<1>6. RequestSays' /\ RowSays'
  BY <1>1, <1>3, <1>5, BesideChain DEF RowSays
<1>7. ASSUME chain'.kind = chain.kind, chain'.aborted = chain.aborted, chain'.props = chain.props,
             chain'.todo = Tail(chain.todo), chain.todo # <<>>
      PROVE  ChainSays'
  <2>1. chain.kind = "features" => chain'.todo \in {ToRedraw, JustDraw, <<>>}
    BY SMTT(30), <1>1, <1>7, ChainTails DEF ChainSays
  <2>2. chain.kind = "publish" => chain'.todo \in PublishTodos
    BY <1>1, <1>7, ChainGoesOn DEF ChainSays
  <2>3. QED
    BY <1>1, <1>3, <1>4, <1>5, <1>7, <2>1, <2>2 DEF ChainSays
<1>8. ASSUME Done PROVE chain'.kind = chain.kind /\ chain'.aborted = chain.aborted
                        /\ chain'.props = chain.props /\ chain'.todo = Tail(chain.todo)
  BY <1>2, <1>8 DEF Done, ChainType
<1>9. ASSUME chain' = NoChain \/ (chain' = FeatureChange /\ ~chain.aborted) PROVE ChainSays'
  <2>1. NoChain.kind = "none" /\ ~NoChain.aborted
    BY DEF NoChain
  <2>2. /\ FeatureChange.kind = "features" /\ FeatureChange.todo = ToRedraw /\ FeatureChange.props = {}
        /\ ~FeatureChange.aborted
    BY DEF FeatureChange, NoChain, ToRedraw
  <2>3. QED
    BY <1>1, <1>3, <1>9, <2>1, <2>2 DEF ChainSays
<1>10. CASE refresh_file_data \/ Draw \/ refresh_soap \/ WriteRecord \/ TaskEnds
  <2>1. Done /\ chain.todo # <<>>
    BY <1>10 DEF refresh_file_data, Draw, refresh_soap, WriteRecord, TaskEnds, Starts, Task
  <2>2. ChainSays'
    BY <1>7, <1>8, <2>1
  <2>3. QED
    BY <1>6, <2>2 DEF Control
<1>11. CASE ensure_internal_layers
  <2>1. (Done \/ chain' = chain) /\ chain.todo # <<>>
    BY <1>11 DEF ensure_internal_layers, Task
  <2>2. chain' = chain => ChainSays'
    BY <1>1, <1>3, <1>4, <1>5 DEF ChainSays
  <2>3. QED
    BY <1>6, <1>7, <1>8, <2>1, <2>2 DEF Control
<1>12. CASE refresh_thumbnail
  <2>1. chain'.kind = chain.kind /\ chain'.aborted = chain.aborted /\ chain'.props = chain.props
        /\ chain'.todo = Tail(chain.todo) /\ chain.todo # <<>>
    BY <1>2, <1>12 DEF refresh_thumbnail, Starts, Task, ChainType
  <2>2. QED
    BY <1>6, <1>7, <2>1 DEF Control
<1>13. CASE TaskFails \/ ChainEnds
  <2>1. chain' = NoChain \/ (chain' = FeatureChange /\ ~chain.aborted)
    BY <1>13 DEF TaskFails, ChainEnds, RunNext
  <2>2. QED
    BY <1>6, <1>9, <2>1 DEF Control
<1>14. QED
  BY <1>10, <1>11, <1>12, <1>13

LEMMA OtherControl ==
    ASSUME IInv,
           \/ \E l \in Layer :
                  \/ ChangeFeatures(l) \/ ChangeLayer(l) \/ LayerChainEnds(l) \/ LayerChainFails(l)
                  \/ patch_after_feature_change(l) \/ push_step_to_run_after_chain(l)
           \/ \E p \in Props : EditRecord(p)
    PROVE  Control'
<1>1. Types /\ RequestSays /\ ChainSays /\ RowSays
  BY DEF IInv, Control
<1>2. row' = row /\ file' = file /\ request' = request
  BY DEF ChangeFeatures, ChangeLayer, Changes, LayerChainEnds, LayerChainFails, patch_after_feature_change,
         push_step_to_run_after_chain, EditRecord, stores
<1>3. RequestSays' /\ RowSays'
  BY <1>1, <1>2 DEF RequestSays, RowSays
<1>4. chain' = chain \/ (chain' = FeatureChange /\ request.todo = <<>>)
  BY DEF ChangeFeatures, ChangeLayer, Changes, LayerChainEnds, LayerChainFails, patch_after_feature_change,
         push_step_to_run_after_chain, EditRecord, Locked
<1>5. /\ FeatureChange.kind = "features" /\ FeatureChange.todo = ToRedraw /\ FeatureChange.props = {}
      /\ ~FeatureChange.aborted
  BY DEF FeatureChange, NoChain, ToRedraw
<1>6. ChainSays'
  BY <1>1, <1>2, <1>4, <1>5 DEF ChainSays
<1>7. QED
  BY <1>3, <1>6 DEF Control

-----------------------------------------------------------------------------
(* The thumbnail.                                                          *)
LEMMA RequestRead ==
    ASSUME IInv,
           \/ \E layout \in Layouts, public \in BOOLEAN : Post(layout, public)
           \/ \E layouts \in {{}} \cup {{f} : f \in Layouts}, public \in BOOLEAN : Patch(layouts, public)
           \/ Delete
           \/ Queues \/ Compare \/ SaveFile \/ Table \/ InputFile \/ RequestReadsRecord
           \/ RequestWritesRecord \/ DeleteSource \/ RequestEnds \/ RequestFails
    PROVE  ChainRead'
<1>1. chain \in ChainType /\ ChainRead
  BY DEF IInv, Types, ThumbnailInv
<1>2. CASE \/ \E layout \in Layouts, public \in BOOLEAN : Post(layout, public)
           \/ Delete
           \/ \E layouts \in {{}} \cup {{f} : f \in Layouts}, public \in BOOLEAN : Patch(layouts, public)
  <2>1. chain'.kind = chain.kind /\ chain'.todo = chain.todo /\ row' = row /\ file' = file
    BY <1>1, <1>2 DEF Post, Patch, Delete, Comes, stores, ChainType
  <2>2. QED
    BY <1>1, <2>1 DEF ChainRead, RowsMatch
<1>3. CASE Queues \/ Compare \/ SaveFile \/ Table \/ InputFile \/ RequestReadsRecord
           \/ RequestWritesRecord \/ DeleteSource
  <2>1. chain' = chain /\ chain.kind = "none"
    BY <1>3 DEF Queues, Compare, SaveFile, Table, InputFile, RequestReadsRecord, RequestWritesRecord,
                DeleteSource, Step
  <2>2. QED
    BY <2>1 DEF ChainRead
<1>4. RunNext => chain'.kind # "publish"
  BY DEF RunNext, FeatureChange, NoChain
<1>5. Publishing(request.props).todo = MapTasks
  BY DEF Publishing, NoChain
<1>6. CASE RequestEnds \/ RequestFails
  BY <1>4, <1>5, <1>6 DEF RequestEnds, RequestFails, ChainRead
<1>7. QED
  BY <1>2, <1>3, <1>6

LEMMA TaskRead ==
    ASSUME IInv,
           \/ refresh_file_data \/ ensure_internal_layers \/ refresh_thumbnail \/ Draw
           \/ refresh_soap \/ WriteRecord \/ TaskEnds \/ TaskFails \/ ChainEnds
    PROVE  ChainRead'
<1>1. chain \in ChainType /\ ChainRead /\ ChainSays
  BY DEF IInv, Types, ThumbnailInv, Control
<1>2. chain.todo \in PublishTodos \cup {ToRedraw, JustDraw}
  BY <1>1 DEF ChainType
<1>3. ASSUME Done PROVE chain'.kind = chain.kind /\ chain'.todo = Tail(chain.todo)
  BY <1>1, <1>3 DEF Done, ChainType
<1>4. CASE refresh_file_data
  <2>1. Tail(chain.todo) = AtLayers
    BY <1>2, <1>4, ChainGoes DEF refresh_file_data, Starts, Task
  <2>2. QED
    BY <1>3, <1>4, <2>1 DEF refresh_file_data, ChainRead
<1>5. CASE ensure_internal_layers
  <2>1. chain.todo = AtLayers
    BY <1>2, <1>5, ChainGoes DEF ensure_internal_layers, Task
  <2>2. chain' = chain \/ (row' = row /\ file' = file /\ RowsMatch)
    BY <1>5 DEF ensure_internal_layers, RowsMatch
  <2>3. QED
    BY <2>1, <2>2 DEF ChainRead, RowsMatch
<1>6. ASSUME chain.todo # MapTasks, chain.todo # AtLayers, chain'.kind = chain.kind, row' = row, file' = file
      PROVE  ChainRead'
  BY <1>1, <1>6 DEF ChainRead, RowsMatch
<1>7. CASE refresh_thumbnail \/ Draw \/ refresh_soap \/ WriteRecord \/ TaskEnds
  <2>1. chain'.kind = chain.kind
    BY <1>1, <1>7 DEF refresh_thumbnail, Draw, refresh_soap, WriteRecord, TaskEnds, Done, ChainType
  <2>2. Head(chain.todo) \in {"thumbnail", "draw", "thumbnail_end", "soap", "write", "soap_end"}
    BY <1>7 DEF refresh_thumbnail, Draw, refresh_soap, WriteRecord, TaskEnds, Starts, Task
  <2>3. chain.todo # MapTasks /\ chain.todo # AtLayers
    BY <2>2, ChainTails
  <2>4. row' = row /\ file' = file
    BY <1>7 DEF refresh_thumbnail, Draw, refresh_soap, WriteRecord, TaskEnds, stores
  <2>5. QED
    BY <1>6, <2>1, <2>3, <2>4
<1>8. CASE TaskFails \/ ChainEnds
  <2>1. chain'.kind # "publish"
    <3>1. NoChain.kind = "none" /\ FeatureChange.kind = "features"
      BY DEF FeatureChange, NoChain
    <3>2. chain' = NoChain \/ chain' = FeatureChange
      BY <1>8 DEF TaskFails, ChainEnds, RunNext
    <3>3. QED
      BY <3>1, <3>2
  <2>2. QED
    BY <2>1 DEF ChainRead
<1>9. QED
  BY <1>4, <1>5, <1>7, <1>8

LEMMA OtherRead ==
    ASSUME IInv,
           \/ \E l \in Layer :
                  \/ ChangeFeatures(l) \/ ChangeLayer(l) \/ LayerChainEnds(l) \/ LayerChainFails(l)
                  \/ patch_after_feature_change(l) \/ push_step_to_run_after_chain(l)
           \/ \E p \in Props : EditRecord(p)
    PROVE  ChainRead'
<1>1. ChainRead
  BY DEF IInv, ThumbnailInv
<1>2. row' = row /\ file' = file /\ (chain' = chain \/ chain' = FeatureChange)
  BY DEF ChangeFeatures, ChangeLayer, Changes, LayerChainEnds, LayerChainFails, patch_after_feature_change,
         push_step_to_run_after_chain, EditRecord, stores
<1>3. FeatureChange.kind = "features"
  BY DEF FeatureChange, NoChain
<1>4. QED
  BY <1>1, <1>2, <1>3 DEF ChainRead, RowsMatch

(* Steps that have nothing to do with what the map shows.                  *)
LEMMA ShownStays ==
    ASSUME IInv, row'.exists => row.exists, broken' = broken, row'.layers = row.layers,
           file'.layers = file.layers, file'.extent = file.extent, layer' = layer, thumbnail' = thumbnail,
           chain' = chain, later' = later, request'.file = request.file,
           ~Deleting, ~Deleting', request.todo \in Pushing <=> request'.todo \in Pushing
    PROVE  MapShown'
<1>1. MapShown
  BY DEF IInv, ThumbnailInv
<1>2. WillPublish' <=> WillPublish
  BY DEF WillPublish
<1>3. WillRedraw' <=> WillRedraw
  BY <1>2 DEF WillRedraw
<1>4. LayersOf(file') = LayersOf(file)
  BY DEF LayersOf
<1>5. RowsMatch' <=> RowsMatch
  BY <1>4 DEF RowsMatch
<1>6. ASSUME NEW t PROVE Good(t) => (Good(t))'
  BY <1>4 DEF Good
<1>7. QED
  BY <1>1, <1>2, <1>3, <1>5, <1>6 DEF MapShown

LEMMA RequestShown ==
    ASSUME IInv,
           \/ \E layout \in Layouts, public \in BOOLEAN : Post(layout, public)
           \/ \E layouts \in {{}} \cup {{f} : f \in Layouts}, public \in BOOLEAN : Patch(layouts, public)
           \/ Delete
           \/ Queues \/ Compare \/ SaveFile \/ Table \/ InputFile \/ RequestReadsRecord
           \/ RequestWritesRecord \/ DeleteSource \/ RequestEnds \/ RequestFails
    PROVE  MapShown'
<1>1. Types /\ RequestSays /\ ChainSays /\ MapShown
  BY DEF IInv, Control, ThumbnailInv
<1>2. request \in [todo : Todos, new : RowType, file : FileType, props : SUBSET Props] /\ chain \in ChainType
  BY <1>1 DEF Types
<1>3. ASSUME WillPublish' \/ Deleting' \/ ~row'.exists PROVE MapShown'
  BY <1>3 DEF MapShown, WillRedraw
<1>4. ASSUME request'.file # NoFile PROVE MapShown'
  BY <1>3, <1>4 DEF WillPublish
<1>5. request.todo = <<>> => request.file = NoFile
  <2>1. [NoRequest EXCEPT !.todo = <<>>].file = NoFile
    BY DEF NoRequest
  <2>2. QED
    BY <1>1, <2>1 DEF RequestSays
<1>6. CASE \E layout \in Layouts, public \in BOOLEAN : Post(layout, public)
  <2>1. PICK layout \in Layouts, public \in BOOLEAN : Post(layout, public)
    BY <1>6
  <2>2. request'.file = NewFile(layout) /\ NewFile(layout) # NoFile
    BY <1>1, <2>1, NewTypes DEF Post
  <2>3. QED
    BY <1>4, <2>2
<1>7. CASE \E layouts \in {{}} \cup {{f} : f \in Layouts}, public \in BOOLEAN : Patch(layouts, public)
  <2>1. PICK layouts \in {{}} \cup {{f} : f \in Layouts}, public \in BOOLEAN : Patch(layouts, public)
    BY <1>7
  <2>2. request.todo = <<>> /\ chain.kind # "publish" /\ UNCHANGED <<stores, layer, later, broken>>
    BY <2>1 DEF Patch, Comes
  <2>3. chain'.kind = chain.kind /\ chain'.todo = chain.todo /\ chain'.shown = chain.shown
    BY <1>2, <2>1 DEF Patch, ChainType
  <2>4. CASE request'.file # NoFile
    BY <1>4, <2>4
  <2>5. CASE request'.file = NoFile
    <3>1. ~WillPublish' /\ ~WillPublish
      BY <1>5, <2>2, <2>3, <2>5 DEF WillPublish
    <3>2. ~Deleting
      BY <2>2, RequestStages DEF Deleting
    <3>3. request'.todo \in Pushing \cup Comparing /\ (chain.kind # "none" => request'.todo \in Pushing)
      <4>1. request'.todo = (IF chain.kind # "none" THEN <<"push">> ELSE <<>>)
                                \o (IF layouts = {} THEN PlainCompare ELSE FileCompare)
        BY <2>1, PatchStepsIs DEF Patch
      <4>2. QED
        BY <4>1, Plans, Members
    <3>4. request.todo \notin Pushing
      BY <2>2, RequestStages
    <3>5. ~WillRedraw' => ~WillRedraw
      BY <1>1, <2>2, <2>3, <3>1, <3>2, <3>3, <3>4 DEF WillRedraw, ChainSays
    <3>6. RowsMatch' <=> RowsMatch
      BY <2>2 DEF RowsMatch, stores
    <3>7. ASSUME NEW t PROVE Good(t) => (Good(t))'
      BY <2>2 DEF Good, stores
    <3>8. QED
      BY <1>1, <2>2, <2>3, <3>1, <3>2, <3>5, <3>6, <3>7 DEF MapShown, stores
  <2>6. QED
    BY <2>4, <2>5
<1>8. CASE Delete
  <2>1. Deleting'
    BY <1>8, Members DEF Delete, Deleting, NoRequest, DeleteAll
  <2>2. QED
    BY <1>3, <2>1
<1>9. ASSUME Goes
      PROVE  /\ request'.todo = Tail(request.todo) /\ request'.new = request.new
             /\ request'.file = request.file /\ request'.props = request.props
  BY <1>2, <1>9 DEF Goes
<1>10. ASSUME NEW s, Step(s) PROVE request.todo \in Todos /\ request.todo # <<>> /\ Head(request.todo) = s
  BY <1>2, <1>10 DEF Step
<1>11. CASE Queues
  <2>1. PICK s \in {"push", "clear"} : Step(s) /\ Goes /\ later' = (s = "push") /\ UNCHANGED <<stores, chain, broken>>
    BY <1>11 DEF Queues
  <2>2. request'.todo = Tail(request.todo) /\ request'.file = request.file
    BY <1>9, <2>1
  <2>3. CASE s = "push"
    <3>1. request.todo \in Pushing /\ Tail(request.todo) \in Comparing
      BY <1>10, <2>1, <2>3, RequestGoes
    <3>2. ~Deleting /\ WillRedraw'
      BY <2>1, <2>3, <3>1, RequestStages DEF Deleting, WillRedraw
    <3>3. WillPublish' <=> WillPublish
      BY <2>1, <2>2 DEF WillPublish
    <3>4. RowsMatch' <=> RowsMatch
      BY <2>1 DEF RowsMatch, stores
    <3>5. QED
      BY <1>1, <2>1, <3>2, <3>3, <3>4 DEF MapShown, stores
  <2>4. CASE s = "clear"
    <3>1. Tail(request.todo) = DeleteRecord
      BY <1>10, <2>1, <2>4, RequestGoes
    <3>2. Deleting'
      BY <2>2, <3>1, Members DEF Deleting
    <3>3. QED
      BY <1>3, <3>2
  <2>5. QED
    BY <2>1, <2>3, <2>4
<1>12. CASE Compare
  <2>1. request.todo \in Comparing /\ Tail(request.todo) \in {PatchTable, PatchClear}
    BY <1>10, <1>12, RequestGoes DEF Compare
  <2>2. request'.todo = Tail(request.todo) /\ request'.file = request.file
    BY <1>2, <1>12 DEF Compare
  <2>3. ~Deleting /\ ~Deleting' /\ request.todo \notin Pushing /\ request'.todo \notin Pushing
    BY <2>1, <2>2, Members, RequestStages DEF Deleting
  <2>4. UNCHANGED <<stores, layer, chain, later, broken>>
    BY <1>12 DEF Compare, Step
  <2>5. QED
    BY <2>2, <2>3, <2>4, ShownStays DEF stores
<1>13. CASE SaveFile
  <2>1. request.todo \in {PatchSave, PostAll}
    BY <1>10, <1>13, RequestGoes DEF SaveFile
  <2>2. request'.file # NoFile
    BY <1>1, <1>9, <1>13, <2>1, Members DEF SaveFile, RequestSays
  <2>3. QED
    BY <1>4, <2>2
<1>14. CASE Table
  <2>1. PICK s \in {"insert", "table"} :
            /\ Step(s) /\ Goes /\ UNCHANGED <<file, thumbnail, chain, later, broken>>
            /\ row' = IF s = "insert" THEN request.new
                      ELSE [row EXCEPT !.title = request.new.title, !.public = request.new.public]
    BY <1>14 DEF Table
  <2>2. request'.todo = Tail(request.todo) /\ request'.file = request.file
    BY <1>9, <2>1
  <2>3. CASE s = "insert"
    <3>1. request.todo = PostInsert
      BY <1>10, <2>1, <2>3, RequestGoes
    <3>2. QED
      BY <1>1, <1>4, <2>2, <3>1, Members DEF RequestSays
  <2>4. CASE s = "table"
    <3>1. request.todo = PatchTable /\ Tail(request.todo) = PatchFile
      BY <1>10, <2>1, <2>4, RequestGoes
    <3>2. row' = [row EXCEPT !.title = request.new.title, !.public = request.new.public]
      BY <2>1, <2>4
    <3>3. row'.exists = row.exists /\ row'.layers = row.layers
      BY <1>1, <3>2 DEF Types, RowType
    <3>4. ~Deleting /\ ~Deleting' /\ request.todo \notin Pushing /\ request'.todo \notin Pushing
      BY <2>2, <3>1, Members, RequestStages DEF Deleting
    <3>5. layer' = layer
      BY <2>1 DEF Step
    <3>6. QED
      BY <2>1, <2>2, <3>3, <3>4, <3>5, ShownStays
  <2>5. QED
    BY <2>1, <2>3, <2>4
<1>15. CASE InputFile
  <2>1. request'.todo = Tail(request.todo) /\ request'.file = request.file
    BY <1>9, <1>15 DEF InputFile
  <2>2. CASE request.todo = PostFile
    BY <1>1, <1>4, <2>1, <2>2 DEF RequestSays
  <2>3. CASE request.todo # PostFile
    <3>1. request.todo = PatchFile /\ Tail(request.todo) = PatchSoap
      BY <1>10, <1>15, <2>3, RequestGoes DEF InputFile
    <3>2. ~Deleting /\ ~Deleting' /\ request.todo \notin Pushing /\ request'.todo \notin Pushing
      BY <2>1, <3>1, Members, RequestStages DEF Deleting
    <3>3. file'.layers = file.layers /\ file'.extent = file.extent
      BY <1>1, <1>15 DEF InputFile, Types, FileType
    <3>4. UNCHANGED <<row, thumbnail, layer, chain, later, broken>>
      BY <1>15 DEF InputFile, Step
    <3>5. QED
      BY <2>1, <3>2, <3>3, <3>4, ShownStays
  <2>4. QED
    BY <2>2, <2>3
<1>16. CASE RequestReadsRecord \/ RequestWritesRecord
  <2>1. request'.todo = Tail(request.todo) /\ request'.file = request.file
    BY <1>9, <1>16 DEF RequestReadsRecord, RequestWritesRecord
  <2>2. \/ request.todo = PatchSoap /\ Tail(request.todo) = PatchWrite
        \/ request.todo = PatchWrite /\ Tail(request.todo) = JustEnd
    BY <1>10, <1>16, RequestGoes DEF RequestReadsRecord, RequestWritesRecord
  <2>3. ~Deleting /\ ~Deleting' /\ request.todo \notin Pushing /\ request'.todo \notin Pushing
    BY <2>1, <2>2, Members, RequestStages DEF Deleting
  <2>4. UNCHANGED <<row, file, thumbnail, layer, chain, later, broken>>
    BY <1>16 DEF RequestReadsRecord, RequestWritesRecord, Step
  <2>5. QED
    BY <2>1, <2>3, <2>4, ShownStays
<1>17. CASE DeleteSource
  <2>1. PICK s \in {"delete_record", "delete_thumbnail", "delete_bbox", "delete_file", "delete_layers", "delete_row"} :
            /\ Step(s) /\ Goes
            /\ row' = CASE s = "delete_bbox"   -> [row EXCEPT !.extent = 0]
                        [] s = "delete_layers" -> [row EXCEPT !.layers = {}]
                        [] s = "delete_row"    -> NoRow
                        [] OTHER -> row
    BY <1>17 DEF DeleteSource
  <2>2. request'.todo = Tail(request.todo) /\ request'.file = request.file
    BY <1>9, <2>1
  <2>3. CASE request.todo = PatchClear
    BY <1>1, <1>4, <2>2, <2>3, Members DEF RequestSays
  <2>4. CASE request.todo # PatchClear
    <3>1. Tail(request.todo) \in Deletions \/ s = "delete_row"
      <4>1. \/ s = "delete_record" /\ request.todo = DeleteRecord /\ Tail(request.todo) = DeleteThumbnail
            \/ s = "delete_thumbnail" /\ request.todo = DeleteThumbnail /\ Tail(request.todo) = DeleteBbox
            \/ s = "delete_bbox" /\ request.todo = DeleteBbox /\ Tail(request.todo) = DeleteFile
            \/ s = "delete_file" /\ request.todo = DeleteFile /\ Tail(request.todo) = DeleteLayers
            \/ s = "delete_layers" /\ request.todo = DeleteLayers /\ Tail(request.todo) = DeleteRow
            \/ s = "delete_row" /\ request.todo = DeleteRow /\ Tail(request.todo) = JustEnd
        BY <1>10, <2>1, <2>4, RequestGoes
      <4>2. QED
        BY <4>1, Members
    <3>2. Deleting' \/ ~row'.exists
      BY <2>1, <2>2, <3>1 DEF Deleting, NoRow
    <3>3. QED
      BY <1>3, <3>2
  <2>5. QED
    BY <2>3, <2>4
<1>18. CASE RequestEnds
  <2>1. UNCHANGED <<stores, layer, broken>> /\ request' = NoRequest /\ chain = NoChain
    BY <1>1, <1>18 DEF RequestEnds, Step, ChainSays
  <2>2. CASE request.file # NoFile
    <3>1. chain'.kind = "publish" /\ chain'.todo = MapTasks
      BY <1>18, <2>2 DEF RequestEnds, Publishing, NoChain
    <3>2. QED
      BY <1>3, <3>1 DEF WillPublish, Undrawn
  <2>3. CASE request.file = NoFile
    <3>1. RunNext
      BY <1>18, <2>3 DEF RequestEnds
    <3>2. request.todo = JustEnd
      BY <1>10, <1>18, RequestGoes DEF RequestEnds
    <3>3. ~Deleting /\ request.todo \notin Pushing /\ ~WillPublish
      BY <2>1, <2>3, <3>2, RequestStages DEF Deleting, WillPublish, NoChain
    <3>4. NoChain.kind = "none" /\ NoChain.todo = <<>> /\ FeatureChange.kind = "features"
          /\ FeatureChange.todo = ToRedraw /\ ~FeatureChange.aborted
      BY DEF FeatureChange, NoChain, ToRedraw
    <3>5. ~Deleting'
      BY <2>1, RequestStages DEF Deleting, NoRequest
    <3>6. RowsMatch' <=> RowsMatch
      BY <2>1 DEF RowsMatch, stores
    <3>7. CASE later
      <4>1. chain' = FeatureChange
        BY <3>1, <3>7 DEF RunNext
      <4>2. WillRedraw'
        BY <3>4, <4>1 DEF WillRedraw
      <4>3. QED
        BY <1>1, <2>1, <3>3, <3>6, <4>2 DEF MapShown, stores
    <3>8. CASE ~later
      <4>1. chain' = NoChain
        BY <3>1, <3>8 DEF RunNext
      <4>2. ~WillRedraw
        BY <2>1, <3>3, <3>4, <3>8 DEF WillRedraw
      <4>3. NoChain.todo \notin {AtDraw, JustDraw}
        BY <3>4, ChainStages
      <4>4. ASSUME NEW t PROVE Good(t) => (Good(t))'
        BY <2>1 DEF Good, stores
      <4>5. QED
        BY <1>1, <2>1, <3>3, <3>6, <4>1, <4>2, <4>3, <4>4 DEF MapShown, stores
    <3>9. QED
      BY <3>7, <3>8
  <2>4. QED
    BY <2>2, <2>3
<1>19. CASE RequestFails
  BY <1>19 DEF RequestFails, MapShown
<1>20. QED
  BY <1>6, <1>7, <1>8, <1>11, <1>12, <1>13, <1>14, <1>15, <1>16, <1>17, <1>18, <1>19

LEMMA TaskShown ==
    ASSUME IInv, ChainRead',
           \/ refresh_file_data \/ ensure_internal_layers \/ refresh_thumbnail \/ Draw
           \/ refresh_soap \/ WriteRecord \/ TaskEnds \/ TaskFails \/ ChainEnds
    PROVE  MapShown'
<1>1. Types /\ ChainSays /\ MapShown
  BY DEF IInv, Control, ThumbnailInv
<1>2. chain \in ChainType /\ chain.todo \in PublishTodos \cup {ToRedraw, JustDraw}
      /\ file \in FileType /\ layer \in [Layer -> LayerType]
  BY <1>1 DEF Types, ChainType
<1>3. chain.kind # "none" /\ request' = request
  BY DEF refresh_file_data, ensure_internal_layers, refresh_thumbnail, Draw, refresh_soap, WriteRecord,
         TaskEnds, TaskFails, ChainEnds, Starts, Task
<1>4. ASSUME WillPublish' \/ Deleting' \/ ~row'.exists PROVE MapShown'
  BY <1>4 DEF MapShown, WillRedraw
<1>5. ASSUME Done PROVE chain'.kind = chain.kind /\ chain'.aborted = chain.aborted
                        /\ chain'.shown = chain.shown /\ chain'.todo = Tail(chain.todo)
  BY <1>2, <1>5 DEF Done, ChainType
<1>6. chain.kind = "features" => chain.todo \in {ToRedraw, JustDraw, <<>>}
  BY <1>1 DEF ChainSays
<1>7. \A x \in Undrawn \cup {AtThumbnailEnd, AtSoap, AtWrite, AtSoapEnd} : x \notin {ToRedraw, JustDraw, <<>>}
  BY ChainStages
<1>8. chain.kind \in {"none", "publish", "features"}
  BY <1>2 DEF ChainType
<1>9. CASE refresh_file_data
  <2>1. chain.todo = MapTasks /\ Tail(chain.todo) = AtLayers
    BY <1>2, <1>9, ChainGoes DEF refresh_file_data, Starts, Task
  <2>2. chain'.kind = "publish" /\ chain'.todo = AtLayers
    BY <1>3, <1>5, <1>6, <1>7, <1>8, <1>9, <2>1 DEF refresh_file_data, Undrawn
  <2>3. QED
    BY <1>4, <2>2 DEF WillPublish, Undrawn
<1>10. CASE ensure_internal_layers
  <2>1. chain.todo = AtLayers /\ Tail(chain.todo) = AtThumbnail
    BY <1>2, <1>10, ChainGoes DEF ensure_internal_layers, Task
  <2>2. chain.kind = "publish"
    BY <1>3, <1>6, <1>7, <1>8, <2>1 DEF Undrawn
  <2>3. Done \/ chain' = chain
    BY <1>10 DEF ensure_internal_layers
  <2>4. chain'.kind = "publish" /\ chain'.todo \in {AtLayers, AtThumbnail}
    BY <1>5, <2>1, <2>2, <2>3
  <2>5. QED
    BY <1>4, <2>4 DEF WillPublish, Undrawn
<1>11. CASE refresh_thumbnail
  <2>1. \/ chain.todo = AtThumbnail /\ Tail(chain.todo) = AtDraw
        \/ chain.todo = ToRedraw /\ Tail(chain.todo) = JustDraw
    BY <1>2, <1>11, ChainGoes DEF refresh_thumbnail, Starts, Task
  <2>2. /\ chain'.kind = chain.kind /\ chain'.todo = Tail(chain.todo)
        /\ chain'.shown = [extent |-> file.extent, features |-> Features]
    BY <1>2, <1>11 DEF refresh_thumbnail, ChainType
  <2>3. UNCHANGED <<row, file, thumbnail, layer>> /\ broken' = (broken /\ chain.kind # "publish")
    BY <1>11 DEF refresh_thumbnail, Starts, Task, stores
  <2>4. Uuids(LayersOf(file)) \subseteq Layer
    BY <1>2 DEF Uuids, LayersOf, FileType
  <2>5. (Good(chain.shown))'
    <3>1. chain'.shown.extent = file'.extent
      BY <2>2, <2>3
    <3>2. ASSUME NEW l \in Uuids(LayersOf(file)) PROVE chain'.shown.features[l] = layer'[l].features
      BY <2>2, <2>3, <2>4 DEF Features
    <3>3. QED
      BY <2>3, <3>1, <3>2 DEF Good
  <2>6. chain'.todo \in {AtDraw, JustDraw}
    BY <2>1, <2>2
  <2>7. ASSUME ~broken', ~WillPublish', ~Deleting', row'.exists PROVE RowsMatch'
    <3>1. CASE chain.kind = "publish"
      <4>1. chain'.kind = "publish" /\ chain'.todo \notin {MapTasks, AtLayers}
        BY <2>2, <2>6, <3>1, ChainStages DEF Undrawn
      <4>2. QED
        BY <4>1 DEF ChainRead
    <3>2. CASE chain.kind # "publish"
      <4>1. ~WillPublish
        BY <1>3, <2>7, <3>2 DEF WillPublish
      <4>2. ~Deleting
        BY <1>3, <2>7 DEF Deleting
      <4>3. RowsMatch
        BY <1>1, <2>3, <2>7, <3>2, <4>1, <4>2 DEF MapShown
      <4>4. QED
        BY <2>3, <4>3 DEF RowsMatch
    <3>3. QED
      BY <3>1, <3>2
  <2>8. QED
    BY <2>5, <2>6, <2>7 DEF MapShown
<1>12. ASSUME row' = row, file' = file, layer' = layer, broken' = broken,
              WillPublish' <=> WillPublish, ~WillRedraw' => ~WillRedraw,
              (IF chain'.todo \in {AtDraw, JustDraw} THEN chain'.shown ELSE thumbnail')
                  = (IF chain.todo \in {AtDraw, JustDraw} THEN chain.shown ELSE thumbnail)
       PROVE  MapShown'
  <2>1. Deleting' <=> Deleting
    BY <1>3 DEF Deleting
  <2>2. RowsMatch' <=> RowsMatch
    BY <1>12 DEF RowsMatch
  <2>3. ASSUME NEW t PROVE Good(t) => (Good(t))'
    BY <1>12 DEF Good
  <2>4. QED
    BY <1>1, <1>12, <2>1, <2>2, <2>3 DEF MapShown
<1>13. ASSUME chain.todo \notin Undrawn, chain'.todo \notin Undrawn, chain.todo # ToRedraw, later' = later
       PROVE  (WillPublish' <=> WillPublish) /\ (~WillRedraw' => ~WillRedraw)
  BY <1>3, <1>13 DEF WillPublish, WillRedraw, Deleting
<1>14. \A x \in {AtDraw, AtThumbnailEnd, AtSoap, AtWrite, AtSoapEnd, <<>>, JustDraw} : x \notin Undrawn /\ x # ToRedraw
  BY ChainStages
<1>15. CASE Draw
  <2>1. \/ chain.todo = AtDraw /\ Tail(chain.todo) = AtThumbnailEnd
        \/ chain.todo = JustDraw /\ Tail(chain.todo) = <<>>
    BY <1>2, <1>15, ChainGoes DEF Draw, Task
  <2>2. chain'.todo = Tail(chain.todo) /\ thumbnail' = chain.shown
    BY <1>5, <1>15 DEF Draw
  <2>3. UNCHANGED <<row, file, layer, broken, later>>
    BY <1>15 DEF Draw, Task
  <2>4. AtThumbnailEnd \notin {AtDraw, JustDraw} /\ <<>> \notin {AtDraw, JustDraw}
    BY ChainStages
  <2>5. QED
    BY <1>12, <1>13, <1>14, <2>1, <2>2, <2>3, <2>4
<1>16. CASE refresh_soap \/ WriteRecord \/ TaskEnds
  <2>1. Head(chain.todo) \in {"soap", "write", "thumbnail_end", "soap_end"} /\ chain.todo # <<>>
    BY <1>16 DEF refresh_soap, WriteRecord, TaskEnds, Starts, Task
  <2>2. /\ chain.todo \in {AtThumbnailEnd, AtSoap, AtWrite, AtSoapEnd}
        /\ Tail(chain.todo) \in {AtSoap, AtWrite, AtSoapEnd, <<>>}
    BY <1>2, <2>1, ChainGoes
  <2>3. chain'.todo = Tail(chain.todo) /\ chain'.shown = chain.shown
    BY <1>5, <1>16 DEF refresh_soap, WriteRecord, TaskEnds
  <2>4. UNCHANGED <<row, file, layer, broken, later>>
    BY <1>16 DEF refresh_soap, WriteRecord, TaskEnds, Starts, Task
  <2>5. \A x \in {AtThumbnailEnd, AtSoap, AtWrite, AtSoapEnd, <<>>} : x \notin {AtDraw, JustDraw}
    BY ChainStages
  <2>6. CASE thumbnail' = thumbnail
    BY <1>12, <1>13, <1>14, <2>2, <2>3, <2>4, <2>5, <2>6
  <2>7. CASE thumbnail' # thumbnail
    <3>1. chain.aborted
      BY <1>16, <2>7 DEF refresh_soap, WriteRecord, TaskEnds
    <3>2. chain.kind # "features"
      BY <1>6, <1>7, <2>2
    <3>3. Deleting'
      BY <1>1, <1>3, <3>1, <3>2, Members DEF ChainSays, Deleting
    <3>4. QED
      BY <1>4, <3>3
  <2>8. QED
    BY <2>6, <2>7
<1>17. CASE TaskFails
  BY <1>17 DEF TaskFails, MapShown
<1>18. CASE ChainEnds
  <2>1. UNCHANGED <<row, file, thumbnail, layer>>
    BY <1>18 DEF ChainEnds, stores
  <2>2. NoChain.kind = "none" /\ NoChain.todo = <<>> /\ FeatureChange.kind = "features"
        /\ FeatureChange.todo = ToRedraw /\ ~FeatureChange.aborted
    BY DEF FeatureChange, NoChain, ToRedraw
  <2>3. CASE ~chain.aborted
    <3>1. chain.todo = <<>> /\ RunNext /\ broken' = broken
      BY <1>18, <2>3 DEF ChainEnds
    <3>2. chain.todo \notin Undrawn /\ chain.todo # ToRedraw /\ chain.todo \notin {AtDraw, JustDraw}
          /\ ToRedraw \notin Undrawn
      BY <3>1, ChainStages
    <3>3. CASE later
      <4>1. chain' = FeatureChange
        BY <3>1, <3>3 DEF RunNext
      <4>2. WillRedraw' /\ (WillPublish' <=> WillPublish)
        BY <1>3, <2>2, <3>2, <4>1 DEF WillRedraw, WillPublish
      <4>3. QED
        <5>1. Deleting' <=> Deleting
          BY <1>3 DEF Deleting
        <5>2. RowsMatch' <=> RowsMatch
          BY <2>1 DEF RowsMatch
        <5>3. QED
          BY <1>1, <2>1, <3>1, <4>2, <5>1, <5>2 DEF MapShown
    <3>4. CASE ~later
      <4>1. chain' = NoChain /\ later' = FALSE
        BY <3>1, <3>4 DEF RunNext
      <4>2. (WillPublish' <=> WillPublish) /\ (~WillRedraw' => ~WillRedraw)
        <5>1. later' = later
          BY <1>1, <3>4, <4>1 DEF Types
        <5>2. QED
          BY <1>13, <2>2, <3>1, <3>2, <4>1, <5>1
      <4>3. QED
        BY <1>12, <2>1, <2>2, <3>1, <3>2, <4>1, <4>2
    <3>5. QED
      BY <3>3, <3>4
  <2>4. CASE chain.aborted
    <3>1. chain' = NoChain /\ (chain.kind # "publish" => broken' = broken)
      BY <1>18, <2>4 DEF ChainEnds
    <3>2. CASE request.todo = DeleteAll
      <4>1. Deleting'
        BY <1>3, <3>2, Members DEF Deleting
      <4>2. QED
        BY <1>4, <4>1
    <3>3. CASE request.todo # DeleteAll
      <4>1. request.todo \in Pushing /\ chain.kind = "features"
        BY <1>1, <2>4, <3>3 DEF ChainSays
      <4>2. WillRedraw' /\ (WillPublish' <=> WillPublish)
        BY <1>3, <2>2, <3>1, <4>1 DEF WillRedraw, WillPublish
      <4>3. Deleting' <=> Deleting
        BY <1>3 DEF Deleting
      <4>4. RowsMatch' <=> RowsMatch
        BY <2>1 DEF RowsMatch
      <4>5. QED
        BY <1>1, <2>1, <3>1, <4>1, <4>2, <4>3, <4>4 DEF MapShown
    <3>4. QED
      BY <3>2, <3>3
  <2>5. QED
    BY <2>3, <2>4
<1>19. QED
  BY <1>9, <1>10, <1>11, <1>15, <1>16, <1>17, <1>18

LEMMA OtherShown ==
    ASSUME IInv,
           \/ \E l \in Layer :
                  \/ ChangeFeatures(l) \/ ChangeLayer(l) \/ LayerChainEnds(l) \/ LayerChainFails(l)
                  \/ patch_after_feature_change(l) \/ push_step_to_run_after_chain(l)
           \/ \E p \in Props : EditRecord(p)
    PROVE  MapShown'
<1>1. Types /\ ChainSays /\ MapShown
  BY DEF IInv, Control, ThumbnailInv
<1>2. layer \in [Layer -> LayerType] /\ file \in FileType
  BY <1>1 DEF Types
<1>3. UNCHANGED <<row, file, thumbnail, request>>
  BY DEF ChangeFeatures, ChangeLayer, Changes, LayerChainEnds, LayerChainFails, patch_after_feature_change,
         push_step_to_run_after_chain, EditRecord, stores
<1>4. (RowsMatch' <=> RowsMatch) /\ (Deleting' <=> Deleting) /\ LayersOf(file') = LayersOf(file)
  BY <1>3 DEF RowsMatch, Deleting
<1>5. Uuids(LayersOf(file)) \subseteq Layer
  BY <1>2 DEF Uuids, LayersOf, FileType
(* A layer may change while its chain is still to be noticed, or when the  *)
(* map does not show it.                                                   *)
<1>6. ASSUME NEW l \in Layer, chain' = chain, later' = later, broken' = broken,
             \A k \in Layer \ {l} : layer'[k] = layer[k],
             \/ layer'[l].chain # "none"
             \/ layer'[l].exists => layer[l].exists /\ layer'[l].features = layer[l].features
                                    /\ layer[l].chain = layer'[l].chain
             \/ l \notin Uuids(row.layers)
      PROVE  MapShown'
  <2>1. (WillPublish' <=> WillPublish) /\ (WillRedraw' <=> WillRedraw)
    BY <1>3, <1>4, <1>6 DEF WillPublish, WillRedraw
  <2>2. ASSUME NEW t, RowsMatch, Good(t) PROVE (Good(t))'
    <3>1. ASSUME NEW k \in Uuids(LayersOf(file)), layer'[k].exists, layer'[k].chain = "none"
          PROVE  t.features[k] = layer'[k].features
      <4>1. k \in Layer /\ k \in Uuids(row.layers)
        BY <1>5, <2>2, <3>1 DEF RowsMatch
      <4>2. layer[k].exists /\ layer[k].chain = "none" /\ layer'[k].features = layer[k].features
        BY <1>6, <3>1, <4>1
      <4>3. QED
        BY <2>2, <3>1, <4>2 DEF Good
    <3>2. t.extent = file.extent
      BY <2>2 DEF Good
    <3>3. QED
      BY <1>3, <1>4, <3>1, <3>2 DEF Good
  <2>3. ~WillRedraw => ~WillPublish /\ ~Deleting
    BY DEF WillRedraw
  <2>4. QED
    BY <1>1, <1>3, <1>4, <1>6, <2>1, <2>2, <2>3 DEF MapShown
<1>7. ASSUME WillRedraw', (WillPublish' <=> WillPublish), broken' = broken PROVE MapShown'
  BY <1>1, <1>3, <1>4, <1>7 DEF MapShown
<1>8. ASSUME NEW l \in Layer, NextOfLayer(l) PROVE \A k \in Layer \ {l} : layer'[k] = layer[k]
  BY <1>2, <1>8 DEF NextOfLayer
<1>9. ASSUME NEW l \in Layer, ChangeFeatures(l) PROVE MapShown'
  <2>1. chain' = chain /\ later' = later /\ broken' = broken
    BY <1>9 DEF ChangeFeatures, Changes
  <2>2. /\ \A k \in Layer \ {l} : layer'[k] = layer[k]
        /\ layer'[l].chain # "none"
    BY <1>2, <1>9 DEF ChangeFeatures, LayerType
  <2>3. QED
    BY <1>6, <2>1, <2>2
<1>10. ASSUME NEW l \in Layer, ChangeLayer(l) PROVE MapShown'
  <2>1. chain' = chain /\ later' = later /\ broken' = broken /\ layer[l].exists
    BY <1>10 DEF ChangeLayer, Changes
  <2>2. /\ \A k \in Layer \ {l} : layer'[k] = layer[k]
        /\ layer'[l].chain = layer[l].chain /\ layer'[l].features = layer[l].features
    BY <1>2, <1>10 DEF ChangeLayer, LayerType
  <2>3. QED
    BY <1>6, <2>1, <2>2
<1>11. ASSUME NEW l \in Layer, LayerChainEnds(l) PROVE MapShown'
  <2>1. chain' = chain /\ later' = later /\ broken' = broken
    BY <1>11 DEF LayerChainEnds
  <2>2. CASE UsedInMap(l)
    <3>1. layer' = [layer EXCEPT ![l].chain = "notify"]
      BY <1>11, <2>2 DEF LayerChainEnds
    <3>2. (\A k \in Layer \ {l} : layer'[k] = layer[k]) /\ layer'[l].chain # "none"
      BY <1>2, <3>1 DEF LayerType
    <3>3. QED
      BY <1>6, <2>1, <3>2
  <2>3. CASE ~UsedInMap(l)
    BY <1>6, <1>8, <1>11, <2>1, <2>3 DEF LayerChainEnds, UsedInMap
  <2>4. QED
    BY <2>2, <2>3
<1>12. ASSUME NEW l \in Layer, LayerChainFails(l) PROVE MapShown'
  BY <1>12 DEF LayerChainFails, MapShown
<1>13. ASSUME NEW l \in Layer, patch_after_feature_change(l) PROVE MapShown'
  <2>1. later' = later /\ broken' = broken
    BY <1>13 DEF patch_after_feature_change
  <2>2. CASE Locked
    <3>1. chain' = chain /\ layer' = [layer EXCEPT ![l].chain = "push"]
      BY <1>13, <2>2 DEF patch_after_feature_change, StepLater
    <3>2. (\A k \in Layer \ {l} : layer'[k] = layer[k]) /\ layer'[l].chain # "none"
      BY <1>2, <3>1 DEF LayerType
    <3>3. QED
      BY <1>6, <2>1, <3>1, <3>2
  <2>3. CASE ~Locked
    <3>1. chain' = FeatureChange /\ chain.kind = "none"
      BY <1>13, <2>3 DEF patch_after_feature_change, Locked
    <3>2. FeatureChange.kind = "features" /\ FeatureChange.todo = ToRedraw /\ ~FeatureChange.aborted
      BY DEF FeatureChange, NoChain, ToRedraw
    <3>3. WillRedraw' /\ (WillPublish' <=> WillPublish)
      BY <1>3, <3>1, <3>2 DEF WillRedraw, WillPublish
    <3>4. QED
      BY <1>7, <2>1, <3>3
  <2>4. QED
    BY <2>2, <2>3
<1>14. ASSUME NEW l \in Layer, push_step_to_run_after_chain(l) PROVE MapShown'
  <2>1. later' = TRUE /\ chain' = chain /\ broken' = broken
    BY <1>14 DEF push_step_to_run_after_chain
  <2>2. WillRedraw' /\ (WillPublish' <=> WillPublish)
    BY <1>3, <2>1 DEF WillRedraw, WillPublish
  <2>3. QED
    BY <1>7, <2>1, <2>2
<1>15. ASSUME NEW p \in Props, EditRecord(p) PROVE MapShown'
  <2>1. UNCHANGED <<chain, later, broken, layer>>
    BY <1>15 DEF EditRecord
  <2>2. (WillPublish' <=> WillPublish) /\ (WillRedraw' <=> WillRedraw)
    BY <1>3, <1>4, <2>1 DEF WillPublish, WillRedraw
  <2>3. ASSUME NEW t PROVE Good(t) => (Good(t))'
    BY <1>3, <1>4, <2>1 DEF Good
  <2>4. QED
    BY <1>1, <1>3, <1>4, <2>1, <2>2, <2>3 DEF MapShown
<1>16. QED
  BY <1>9, <1>10, <1>11, <1>12, <1>13, <1>14, <1>15

-----------------------------------------------------------------------------
(* The record.                                                             *)
LEMMA KeptStays ==
    ASSUME NEW p \in Props, Types, Kept(p), owner'[p] = owner[p],
           record'[p] = record[p], row'.title = row.title, row'.extent = row.extent, row'.layers = row.layers,
           file'.title = file.title, file'.extent = file.extent,
           p = "operates_on" =>
               \A l \in Layer : (layer'[l].exists <=> layer[l].exists) /\ layer'[l].title = layer[l].title
                                /\ layer'[l].readers = layer[l].readers
    PROVE  Kept(p)'
<1>1. Uuids(row.layers) \subseteq Layer
  BY DEF Uuids, Types, RowType
<1>2. p \in {"title", "extent", "operates_on"}
  BY DEF Props
<1>3. CASE p = "title"
  <2>1. PropertyValues(row, owner[p])[p] = row.title /\ (PropertyValues(row, owner[p])[p])' = row'.title
    BY <1>3 DEF PropertyValues
  <2>2. QED
    BY <1>3, <2>1 DEF Kept
<1>4. CASE p = "extent"
  <2>1. PropertyValues(row, owner[p])[p] = row.extent /\ (PropertyValues(row, owner[p])[p])' = row'.extent
    BY <1>4 DEF PropertyValues
  <2>2. QED
    BY <1>4, <2>1 DEF Kept
<1>5. CASE p = "operates_on"
  <2> DEFINE readable == ReadableBy(owner[p], Uuids(row.layers))
  <2>1. /\ PropertyValues(row, owner[p])[p] = OperatesOn(readable)
        /\ (PropertyValues(row, owner[p])[p])' = (OperatesOn(readable))'
    BY <1>5 DEF PropertyValues
  <2>2. Uuids(row'.layers) = Uuids(row.layers)
    BY DEF Uuids
  <2>3. (OperatesOn(readable))' = OperatesOn(readable)
    BY <1>1, <1>5, <2>2 DEF OperatesOn, ReadableBy
  <2>4. QED
    BY <1>5, <2>1, <2>3 DEF Kept
<1>6. QED
  BY <1>2, <1>3, <1>4, <1>5

LEMMA NothingToDo == NoRequest = [NoRequest EXCEPT !.todo = <<>>]
<1>1. \A todo, new, f, props :
          [todo |-> todo, new |-> new, file |-> f, props |-> props]
              = [[todo |-> todo, new |-> new, file |-> f, props |-> props] EXCEPT !.todo = todo]
  OBVIOUS
<1>2. QED
  BY <1>1 DEF NoRequest

LEMMA InitRecord == Init => RecordInv /\ ThumbnailInv /\ Control
<1> SUFFICES ASSUME Init PROVE RecordInv /\ ThumbnailInv /\ Control
  OBVIOUS
<1>1. /\ row = NoRow /\ record = NoRecord /\ request = NoRequest /\ chain = NoChain
      /\ soap = NothingRead /\ owner = Lost
  BY DEF Init
<1>2. ~NoRow.exists /\ NoRequest.todo = <<>> /\ NoRequest.new = NoRow /\ NoRequest.file = NoFile
      /\ NoRequest.props = {} /\ NoChain.kind = "none" /\ NoChain.todo = <<>> /\ NoChain.props = {}
      /\ ~NoChain.aborted /\ NothingRead.op = "none"
  BY DEF NoRow, NoRequest, NoChain, NothingRead
<1>3. \A p \in Props : Lost[p] # "editor" /\ Lost[p] \notin Actor
  BY MapsAssumption DEF Lost
<1>4. <<>> \notin {PostFile, JustEnd} \cup Comparing \cup Compared \cup Posting \cup Pushing
      /\ <<>> \notin {PatchSave, PatchFile, PatchSoap, PatchWrite, AtWrite}
  BY RequestStages, ChainStages, Members
<1>5. NoRequest = [NoRequest EXCEPT !.todo = <<>>]
  BY NothingToDo
<1>6. RequestSays
  BY <1>1, <1>2, <1>4, <1>5, Members DEF RequestSays
<1>7. ChainSays /\ RowSays
  BY <1>1, <1>2 DEF ChainSays, RowSays
<1>8. ThumbnailInv
  BY <1>1, <1>2 DEF ThumbnailInv, ChainRead, MapShown
<1>9. RecordInv
  BY <1>1, <1>2, <1>3, <1>4 DEF RecordInv, RecordIs, SoapIs, EditorKeeps, LaymanKeeps
<1>10. QED
  BY <1>6, <1>7, <1>8, <1>9 DEF Control

(* What is read of the record, by a request or a task.                     *)
LEMMA Read ==
    ASSUME IInv, NEW m \in RowType, NEW props \in SUBSET Props, SoapReads(m, props), soap = NothingRead
    PROVE  /\ record' = NoRecord => owner' = Lost
           /\ record' # NoRecord => record'.title # 0
           /\ record = NoRecord => record' = NoRecord
           /\ soap'.op = "insert" => record' = NoRecord
           /\ soap'.op = "update" => soap'.record.title # 0
           /\ soap'.op = "none" => props = {}
           /\ \A p \in Props : owner'[p] = "editor" =>
                  owner[p] = "editor" /\ record'[p] = edited[p] /\ (soap'.op = "update" => soap'.record[p] = edited[p])
           /\ \A p \in Props : owner'[p] \in Actor => owner[p] = owner'[p] /\ record' = record
<1>1. RecordIs /\ EditorKeeps
  BY DEF IInv, RecordInv
<1>2. \A p \in Props : Lost[p] # "editor" /\ Lost[p] \notin Actor
  BY MapsAssumption DEF Lost
<1>3. NothingRead.op = "none"
  BY DEF NothingRead
<1>4. CASE record = NoRecord \/ VisibilityChanges(m)
  <2>1. soap'.op = "insert" /\ record' = NoRecord /\ owner' = Lost
    BY <1>4 DEF SoapReads, csw_delete
  <2>2. QED
    BY <1>2, <2>1
<1>5. CASE ~(record = NoRecord \/ VisibilityChanges(m))
  <2>1. record' = record /\ owner' = owner /\ record # NoRecord
        /\ soap' = IF props = {} THEN NothingRead ELSE [op |-> "update", record |-> record]
    BY <1>5 DEF SoapReads
  <2>2. soap'.op \in {"none", "update"} /\ (soap'.op = "update" => soap'.record = record)
        /\ (soap'.op = "none" => props = {})
    BY <1>3, <2>1
  <2>3. QED
    BY <1>1, <2>1, <2>2 DEF RecordIs, EditorKeeps
<1>6. QED
  BY <1>4, <1>5

(* What is written to it.                                                  *)
LEMMA Written ==
    ASSUME IInv, NEW m \in RowType, NEW props \in SUBSET Props, SoapWrites(m, props), m.title # 0,
           soap.op = "none" => props = {},
           \A p \in Props : owner[p] = "editor" => p \notin props,
           \A p \in Props : owner[p] \in Actor => p \in props
    PROVE  /\ soap' = NothingRead
           /\ record' = NoRecord => owner' = Lost
           /\ record' # NoRecord => record'.title # 0
           /\ \A p \in Props : owner'[p] = "editor" => owner[p] = "editor" /\ record'[p] = edited[p]
           /\ \A p \in Props : owner'[p] \in Actor =>
                  /\ p \in props /\ owner'[p] = actor /\ record'[p] = PropertyValues(m, actor)[p]
                  /\ p = "extent" => m.extent = file.extent
<1>1. Types /\ RecordIs /\ SoapIs /\ EditorKeeps
  BY DEF IInv, RecordInv
<1>2. /\ soap' = NothingRead
      /\ record' = CASE soap.op = "none"   -> record
                     [] soap.op = "insert" -> Inserted(m)
                     [] soap.op = "update" -> Updated(m, props)
      /\ owner' = [p \in Props |->
                     IF soap.op = "none" \/ p \notin props \/ owner[p] = "editor" THEN owner[p]
                     ELSE IF FoundEqual(m, p) THEN actor ELSE "anyone"]
  BY DEF SoapWrites
<1>3. soap.op \in {"none", "insert", "update"} /\ actor # "editor" /\ "anyone" \notin Actor
  BY <1>1, MapsAssumption DEF Types
<1>4. CASE soap.op = "none"
  <2>1. record' = record /\ \A p \in Props : owner'[p] = owner[p]
    BY <1>2, <1>4
  <2>2. owner' = owner
    BY <1>1, <1>2, <1>4 DEF Types
  <2>3. \A p \in Props : owner[p] \notin Actor
    BY <1>4
  <2>4. QED
    BY <1>1, <1>2, <2>1, <2>2, <2>3 DEF RecordIs, EditorKeeps
<1>5. CASE soap.op # "none"
  <2>1. ASSUME NEW p \in Props, owner'[p] \in Actor PROVE p \in props /\ FoundEqual(m, p) /\ owner'[p] = actor
    <3>1. p \in props
      <4>1. CASE owner[p] \in Actor
        BY <4>1
      <4>2. CASE owner[p] \notin Actor
        BY <1>2, <2>1, <4>2
      <4>3. QED
        BY <4>1, <4>2
    <3>2. owner[p] # "editor"
      BY <3>1
    <3>3. QED
      BY <1>2, <1>3, <1>5, <2>1, <3>1, <3>2
  <2>2. ASSUME NEW p \in Props, owner'[p] = "editor" PROVE owner[p] = "editor"
    BY <1>2, <1>3, <2>2
  <2>3. CASE soap.op = "insert"
    <3>1. record' = Inserted(m)
      BY <1>2, <2>3
    <3>2. \A p \in Props : record'[p] = PropertyValues(m, actor)[p]
      BY <1>1, <3>1, Values
    <3>3. record'.title = m.title
      BY <1>1, <3>2, Values DEF Props
    <3>4. record' # NoRecord
      BY <3>3 DEF NoRecord
    <3>5. \A p \in Props : owner[p] # "editor"
      BY <1>1, <2>3 DEF SoapIs, RecordIs, Lost
    <3>6. QED
      BY <1>2, <2>1, <2>2, <3>2, <3>3, <3>4, <3>5 DEF FoundEqual
  <2>4. CASE soap.op = "update"
    <3>1. record' = Updated(m, props)
      BY <1>2, <2>4
    <3>2. \A p \in Props : record'[p] = IF p \in props THEN PropertyValues(m, actor)[p] ELSE soap.record[p]
      BY <1>1, <3>1, Values
    <3>3. soap.record.title # 0
      BY <1>1, <2>4 DEF SoapIs
    <3>4. record'.title # 0
      <4>1. "title" \in Props
        BY DEF Props
      <4>2. record'.title = IF "title" \in props THEN PropertyValues(m, actor).title ELSE soap.record.title
        BY <3>2, <4>1
      <4>3. PropertyValues(m, actor).title = m.title
        BY DEF PropertyValues
      <4>4. QED
        BY <3>3, <4>2, <4>3
    <3>5. record' # NoRecord
      BY <3>4 DEF NoRecord
    <3>6. ASSUME NEW p \in Props, owner[p] = "editor" PROVE record'[p] = edited[p]
      BY <1>1, <2>4, <3>2, <3>6 DEF EditorKeeps
    <3>7. QED
      BY <1>2, <2>1, <2>2, <3>2, <3>4, <3>5, <3>6 DEF FoundEqual
  <2>5. QED
    BY <1>3, <1>5, <2>3, <2>4
<1>6. QED
  BY <1>4, <1>5

(* What Layman wrote is found equal, what an editor wrote is not.          *)
LEMMA Found ==
    ASSUME IInv, NEW p \in Props
    PROVE  /\ owner[p] \in Actor /\ Kept(p) => Equal(p)
           /\ owner[p] = "editor" => ~Equal(p)
<1>1. Types /\ RecordIs /\ EditorKeeps
  BY DEF IInv, RecordInv
<1>2. row \in RowType /\ file \in FileType /\ Uuids(row.layers) \subseteq Layer
  BY <1>1 DEF Types, Uuids, RowType
<1>3. p \in {"title", "extent", "operates_on"}
  BY DEF Props
<1>4. ASSUME Kept(p) PROVE Equal(p)
  <2>1. CASE p = "title"
    <3>1. PropertyValues(row, owner[p])[p] = row.title /\ FileValues[p] = file.title
      BY <2>1 DEF PropertyValues, FileValues
    <3>2. QED
      BY <1>4, <2>1, <3>1 DEF Kept, Equal
  <2>2. CASE p = "extent"
    <3>1. PropertyValues(row, owner[p])[p] = row.extent /\ FileValues[p] = file.extent
      BY <2>2 DEF PropertyValues, FileValues
    <3>2. QED
      BY <1>4, <2>2, <3>1 DEF Kept, Equal
  <2>3. CASE p = "operates_on"
    <3> DEFINE u == Uuids(row.layers)
               r == ReadableBy(owner[p], u)
               there == {o[1] : o \in record.operates_on}
    <3>1. PropertyValues(row, owner[p])[p] = OperatesOn(r) /\ FileValues[p] = OperatesOn(u \cap there)
      BY <2>3 DEF PropertyValues, FileValues
    <3>2. record.operates_on = OperatesOn(r)
      BY <1>4, <2>3, <3>1 DEF Kept
    <3>3. ASSUME NEW l \in r, layer[l].exists PROVE l \in there
      <4>1. <<l, layer[l].title>> \in record.operates_on
        BY <3>2, <3>3 DEF OperatesOn
      <4>2. <<l, layer[l].title>>[1] = l
        OBVIOUS
      <4>3. QED
        BY <4>1, <4>2
    <3>4. {l \in u \cap there : layer[l].exists} = {l \in r : layer[l].exists}
      <4>1. ASSUME NEW o \in OperatesOn(r) PROVE o[1] \in r
        BY DEF OperatesOn
      <4>2. there \subseteq r
        BY <3>2, <4>1
      <4>3. r \subseteq u
        BY DEF ReadableBy
      <4>4. QED
        BY <3>3, <4>2, <4>3
    <3>5. OperatesOn(u \cap there) = OperatesOn(r)
      BY <3>4 DEF OperatesOn
    <3>6. QED
      BY <2>3, <3>1, <3>2, <3>5 DEF Equal
  <2>4. QED
    BY <1>3, <2>1, <2>2, <2>3
<1>5. ASSUME owner[p] = "editor" PROVE ~Equal(p)
  <2>1. record[p] = edited[p] /\ ByEditor(p)
    BY <1>1, <1>5 DEF EditorKeeps
  <2>2. record # NoRecord
    BY <1>1, <1>5 DEF RecordIs, Lost
  <2>3. FileValues[p] # edited[p]
    <3>1. CASE p = "title"
      <4>1. FileValues[p] = file.title /\ edited[p] = -1
        BY <2>1, <3>1 DEF FileValues, ByEditor
      <4>2. QED
        BY <1>2, <4>1 DEF FileType
    <3>2. CASE p = "extent"
      <4>1. FileValues[p] = file.extent /\ edited[p] = -1
        BY <2>1, <3>2 DEF FileValues, ByEditor
      <4>2. QED
        BY <1>2, <4>1 DEF FileType
    <3>3. CASE p = "operates_on"
      <4> DEFINE u == Uuids(row.layers) \cap {o[1] : o \in record.operates_on}
      <4>1. FileValues[p] = OperatesOn(u) /\ Foreign \in edited[p]
        BY <2>1, <3>3 DEF FileValues, ByEditor
      <4>2. u \in SUBSET Layer
        BY <1>2
      <4>3. \A o \in OperatesOn(u) : o[1] \in Layer
        BY <4>2 DEF OperatesOn
      <4>4. Foreign[1] = External
        BY DEF Foreign
      <4>5. QED
        BY <4>1, <4>3, <4>4, MapsAssumption
    <3>4. QED
      BY <1>3, <3>1, <3>2, <3>3
  <2>4. QED
    BY <2>1, <2>2, <2>3 DEF Equal
<1>6. QED
  BY <1>4, <1>5

(* Steps that neither read nor write the record.                           *)
LEMMA RecordUntouched ==
    ASSUME IInv, record' = record, owner' = owner, edited' = edited, soap' = NothingRead,
           request'.todo # PatchWrite, chain'.todo # AtWrite,
           ~row'.exists \/ request'.todo \in Removing => record = NoRecord,
           \A p \in Props : owner[p] = "editor" => p \notin request'.props \cup chain'.props,
           LaymanKeeps'
    PROVE  RecordInv'
<1>1. RecordIs /\ EditorKeeps
  BY DEF IInv, RecordInv
<1>2. NothingRead.op = "none"
  BY DEF NothingRead
<1>3. RecordIs'
  BY <1>1 DEF RecordIs
<1>4. SoapIs'
  BY <1>2 DEF SoapIs
<1>5. EditorKeeps'
  <2> SUFFICES ASSUME NEW p \in Props, owner'[p] = "editor"
               PROVE  /\ record'[p] = edited'[p] /\ ByEditor(p)'
                      /\ p \notin request'.props \cup chain'.props
                      /\ soap'.op = "update" => soap'.record[p] = edited'[p]
    BY DEF EditorKeeps
  <2>1. QED
    BY <1>1, <1>2 DEF EditorKeeps, ByEditor
<1>6. QED
  BY <1>3, <1>4, <1>5 DEF RecordInv

(* When nothing is there, nobody wrote it.                                 *)
LEMMA NobodyWrote ==
    ASSUME IInv, record = NoRecord, NEW p \in Props
    PROVE  owner[p] # "editor" /\ owner[p] \notin Actor
BY MapsAssumption DEF IInv, RecordInv, RecordIs, Lost

LEMMA RequestRecord ==
    ASSUME IInv,
           \/ \E layout \in Layouts, public \in BOOLEAN : Post(layout, public)
           \/ \E layouts \in {{}} \cup {{f} : f \in Layouts}, public \in BOOLEAN : Patch(layouts, public)
           \/ Delete
           \/ Queues \/ Compare \/ SaveFile \/ Table \/ InputFile \/ RequestReadsRecord
           \/ RequestWritesRecord \/ DeleteSource \/ RequestEnds \/ RequestFails
    PROVE  RecordInv'
<1>0. edited' = edited
  BY DEF Post, Patch, Delete, Comes, Queues, Compare, SaveFile, Table, InputFile, RequestReadsRecord,
         RequestWritesRecord, DeleteSource, RequestEnds, RequestFails, Step, Counted, inputs
<1>1. Types /\ RequestSays /\ ChainSays /\ RecordIs /\ SoapIs /\ EditorKeeps /\ LaymanKeeps
  BY DEF IInv, Control, RecordInv
<1>2. request \in [todo : Todos, new : RowType, file : FileType, props : SUBSET Props] /\ chain \in ChainType
  BY <1>1 DEF Types
<1>3. NoChain.kind = "none" /\ NoChain.todo = <<>> /\ NoChain.props = {}
      /\ FeatureChange.kind = "features" /\ FeatureChange.todo = ToRedraw /\ FeatureChange.props = {}
  BY DEF FeatureChange, NoChain, ToRedraw
<1>4. <<>> # AtWrite /\ ToRedraw # AtWrite /\ MapTasks # AtWrite
  BY ChainStages DEF Undrawn
<1>5. ASSUME NEW p \in Props, Kept(p), row' = row, file' = file, layer' = layer, record' = record, owner' = owner PROVE Kept(p)'
  BY <1>1, <1>5, KeptStays
<1>6. request.todo = <<>> => request.props = {}
  <2>1. [NoRequest EXCEPT !.todo = <<>>].props = {}
    BY DEF NoRequest
  <2>2. QED
    BY <1>1, <2>1 DEF RequestSays
<1>7. CASE \E layout \in Layouts, public \in BOOLEAN : Post(layout, public)
  <2>1. PICK layout \in Layouts, public \in BOOLEAN : Post(layout, public)
    BY <1>7
  <2>2. request'.todo = PostAll /\ chain' = NoChain /\ ~row.exists /\ request.todo = <<>> /\ chain = NoChain
        /\ UNCHANGED <<stores, layer, soap, owner>>
    BY <1>1, <2>1 DEF Post, Comes, Locked, ChainSays, PostAll
  <2>3. record = NoRecord
    BY <1>1, <2>2 DEF RecordIs
  <2>4. PostAll # PatchWrite /\ PostAll \notin Removing /\ <<>> # PatchWrite
    BY Members, RequestStages
  <2>5. soap' = NothingRead
    BY <1>1, <1>3, <1>4, <2>2, <2>4 DEF SoapIs
  <2>6. LaymanKeeps'
    BY <2>2, <2>3, NobodyWrote DEF LaymanKeeps
  <2>7. QED
    BY <1>0, <1>3, <1>4, <2>2, <2>3, <2>4, <2>5, <2>6, NobodyWrote, RecordUntouched DEF stores
<1>8. CASE \E layouts \in {{}} \cup {{f} : f \in Layouts}, public \in BOOLEAN : Patch(layouts, public)
  <2>1. PICK layouts \in {{}} \cup {{f} : f \in Layouts}, public \in BOOLEAN : Patch(layouts, public)
    BY <1>8
  <2>2. request.todo = <<>> /\ chain.kind # "publish" /\ row.exists /\ request'.props = {}
        /\ UNCHANGED <<stores, layer, soap, owner>>
    BY <2>1 DEF Patch, Comes
  <2>3. chain'.kind = chain.kind /\ chain'.todo = chain.todo /\ chain'.props = chain.props
    BY <1>2, <2>1 DEF Patch, ChainType
  <2>4. request'.todo \in Pushing \cup Comparing
    <3>1. request'.todo = (IF chain.kind # "none" THEN <<"push">> ELSE <<>>)
                              \o (IF layouts = {} THEN PlainCompare ELSE FileCompare)
      BY <2>1, PatchStepsIs DEF Patch
    <3>2. QED
      BY <3>1, Plans, Members
  <2>5. request'.todo # PatchWrite /\ request'.todo \notin Removing /\ request.todo # PatchWrite
        /\ request'.todo \notin Posting \cup {PostFile, JustEnd} \cup Compared
    BY <2>2, <2>4, Members, RequestStages
  <2>6. chain.todo # AtWrite
    BY <1>1, <1>2, <1>3, <1>4, <2>2, ChainStages DEF ChainSays, ChainType
  <2>7. soap' = NothingRead
    BY <1>1, <2>2, <2>5, <2>6 DEF SoapIs
  <2>8. LaymanKeeps'
    BY <1>1, <1>5, <2>2, <2>3, <2>5 DEF LaymanKeeps, stores
  <2>9. \A p \in Props : owner[p] = "editor" => p \notin request'.props \cup chain'.props
    BY <1>1, <2>2, <2>3 DEF EditorKeeps
  <2>10. QED
    BY <1>0, <2>2, <2>3, <2>5, <2>6, <2>7, <2>8, <2>9, RecordUntouched DEF stores
<1>9. CASE Delete
  <2>1. request'.todo = DeleteAll /\ request'.props = {} /\ request.todo = <<>> /\ row.exists
        /\ UNCHANGED <<stores, layer, soap, owner>>
    BY <1>9 DEF Delete, DeleteAll, NoRequest, Comes
  <2>2. chain'.kind = chain.kind /\ chain'.todo = chain.todo /\ chain'.props = chain.props
    BY <1>2, <1>9 DEF Delete, ChainType
  <2>3. /\ DeleteAll # PatchWrite /\ DeleteAll \notin Removing /\ <<>> # PatchWrite
        /\ DeleteAll \notin Posting \cup {PostFile, JustEnd} \cup Compared
    BY Members, RequestStages
  <2>4. LaymanKeeps'
    BY <1>1, <1>5, <2>1, <2>2, <2>3 DEF LaymanKeeps, stores
  <2>5. \A p \in Props : owner[p] = "editor" => p \notin request'.props \cup chain'.props
    BY <1>1, <2>1, <2>2 DEF EditorKeeps
  <2>6. CASE chain.todo # AtWrite
    <3>1. soap' = NothingRead
      BY <1>1, <2>1, <2>3, <2>6 DEF SoapIs
    <3>2. QED
      BY <1>0, <2>1, <2>2, <2>3, <2>4, <2>5, <2>6, <3>1, RecordUntouched DEF stores
  <2>7. CASE chain.todo = AtWrite
    <3>1. RecordIs'
      BY <1>1, <2>1, <2>3 DEF RecordIs, stores
    <3>2. SoapIs'
      BY <1>1, <2>1, <2>2, <2>3, <2>7 DEF SoapIs, stores
    <3>3. EditorKeeps'
      BY <1>0, <1>1, <2>1, <2>5 DEF EditorKeeps, ByEditor, stores
    <3>4. QED
      BY <2>4, <3>1, <3>2, <3>3 DEF RecordInv
  <2>8. QED
    BY <2>6, <2>7
(* The steps that follow have no chain beside them.                        *)
<1>10. ASSUME chain.kind = "none" PROVE chain = NoChain /\ (request.todo # PatchWrite => soap = NothingRead)
  BY <1>1, <1>3, <1>4, <1>10 DEF ChainSays, SoapIs
<1>11. ASSUME Goes
      PROVE  /\ request'.todo = Tail(request.todo) /\ request'.new = request.new
             /\ request'.file = request.file /\ request'.props = request.props
  BY <1>2, <1>11 DEF Goes
<1>12. ASSUME NEW s, Step(s)
       PROVE  request.todo \in Todos /\ request.todo # <<>> /\ Head(request.todo) = s /\ chain = NoChain
              /\ layer' = layer
  BY <1>2, <1>10, <1>12 DEF Step
<1>13. ASSUME chain = NoChain, chain' = NoChain, record' = record, owner' = owner, soap' = soap,
              request.todo # PatchWrite, request'.todo # PatchWrite,
              ~row'.exists \/ request'.todo \in Removing => record = NoRecord,
              request'.props = request.props, LaymanKeeps'
       PROVE  RecordInv'
  <2>1. soap' = NothingRead
    BY <1>3, <1>10, <1>13
  <2>2. \A p \in Props : owner[p] = "editor" => p \notin request'.props \cup chain'.props
    BY <1>1, <1>3, <1>13 DEF EditorKeeps
  <2>3. QED
    BY <1>0, <1>3, <1>4, <1>13, <2>1, <2>2, RecordUntouched
<1>14. CASE Queues
  <2>1. PICK s \in {"push", "clear"} : Step(s) /\ Goes /\ UNCHANGED <<stores, soap, chain, owner>>
    BY <1>14 DEF Queues
  <2>2. request'.todo = Tail(request.todo) /\ request'.file = request.file /\ request'.props = request.props
    BY <1>11, <2>1
  <2>3. \/ request.todo \in Pushing /\ request'.todo \in Comparing
        \/ request.todo = DeleteAll /\ request'.todo = DeleteRecord
    BY <1>12, <2>1, <2>2, RequestGoes
  <2>4. /\ request'.todo \notin Posting \cup {PostFile, JustEnd} \cup Compared
        /\ request'.todo \notin Removing /\ request.todo # PatchWrite /\ request'.todo # PatchWrite
    BY <2>3, Members, RequestStages
  <2>5. LaymanKeeps'
    BY <1>1, <1>3, <1>5, <1>12, <2>1, <2>2, <2>3, <2>4 DEF LaymanKeeps, stores
  <2>6. QED
    BY <1>1, <1>12, <1>13, <2>1, <2>2, <2>4, <2>5 DEF RecordIs, stores
<1>15. CASE Compare
  <2>1. request.todo \in Comparing /\ Tail(request.todo) \in {PatchTable, PatchClear} /\ chain = NoChain
    BY <1>12, <1>15, RequestGoes DEF Compare
  <2>2. request'.todo = Tail(request.todo) /\ request'.props = {p \in Props : Equal(p)}
    BY <1>2, <1>15 DEF Compare, SameOrMissingPropNames
  <2>3. UNCHANGED <<stores, soap, chain, owner, layer>> /\ row.exists
    BY <1>15 DEF Compare, Step, FileReadable
  <2>4. /\ request'.todo \in Compared /\ request'.todo # PatchWrite /\ request.todo # PatchWrite
        /\ request'.todo \notin {<<>>, DeleteAll, DeleteRecord} \cup Pushing \cup Comparing \cup {JustEnd}
        /\ request'.todo \notin Removing
    BY <2>1, <2>2, Members, RequestStages
  <2>5. \A p \in Props : owner[p] \in Actor => Kept(p)
    BY <1>1, <1>3, <2>1 DEF LaymanKeeps
  <2>6. LaymanKeeps'
    BY <1>3, <2>1, <2>2, <2>3, <2>4, <2>5, Found DEF LaymanKeeps
  <2>7. soap' = NothingRead
    BY <1>3, <1>10, <2>1, <2>3, <2>4
  <2>8. \A p \in Props : owner[p] = "editor" => p \notin request'.props \cup chain'.props
    BY <1>3, <2>1, <2>2, <2>3, Found
  <2>9. QED
    BY <1>0, <1>3, <1>4, <2>1, <2>3, <2>4, <2>6, <2>7, <2>8, RecordUntouched DEF stores
<1>16. CASE SaveFile \/ Table \/ InputFile
  <2>1. Goes /\ UNCHANGED <<record, soap, chain, owner>>
    BY <1>16 DEF SaveFile, Table, InputFile
  <2>2. request'.todo = Tail(request.todo) /\ request'.file = request.file /\ request'.props = request.props
    BY <1>11, <2>1
  <2>3. chain = NoChain
    BY <1>12, <1>16 DEF SaveFile, Table, InputFile
  <2>4. \/ request.todo = PatchSave /\ request'.todo = PatchTable
        \/ request.todo = PostAll /\ request'.todo = PostInsert
        \/ request.todo = PostInsert /\ request'.todo = PostFile
        \/ request.todo = PatchTable /\ request'.todo = PatchFile
        \/ request.todo = PatchFile /\ request'.todo = PatchSoap
        \/ request.todo = PostFile /\ request'.todo = JustEnd
    BY <1>12, <1>16, <2>2, RequestGoes DEF SaveFile, Table, InputFile
  <2>5. /\ request'.todo # PatchWrite /\ request.todo # PatchWrite /\ request'.todo \notin Removing
        /\ request'.todo \notin {<<>>, DeleteAll, DeleteRecord} \cup Pushing \cup Comparing
        /\ request.todo \in Posting \cup {PostFile} \cup Compared
        /\ request'.todo = JustEnd => request.todo = PostFile
    BY <2>4, Members, RequestStages
  <2>6. request'.todo = JustEnd => request'.file # NoFile
    BY <1>1, <2>2, <2>5 DEF RequestSays
  <2>7. LaymanKeeps'
    BY <1>1, <1>3, <2>1, <2>2, <2>3, <2>5, <2>6 DEF LaymanKeeps
  <2>8. ~row'.exists => record = NoRecord
    <3>1. row'.exists \/ row'.exists = row.exists
      <4>1. CASE SaveFile \/ InputFile
        BY <4>1 DEF SaveFile, InputFile
      <4>2. CASE Table
        <5>1. request.new.exists
          <6>1. request.todo \in {PostInsert, PatchTable}
            BY <1>12, <4>2, RequestGoes DEF Table
          <6>2. QED
            BY <1>1, <6>1, Members DEF RequestSays
        <5>2. row' = request.new \/ row' = [row EXCEPT !.title = request.new.title, !.public = request.new.public]
          BY <4>2 DEF Table
        <5>3. [row EXCEPT !.title = request.new.title, !.public = request.new.public].exists = row.exists
          BY <1>1 DEF Types, RowType
        <5>4. QED
          BY <5>1, <5>2, <5>3
      <4>3. QED
        BY <1>16, <4>1, <4>2
    <3>2. QED
      BY <1>1, <3>1 DEF RecordIs
  <2>9. QED
    BY <1>13, <2>1, <2>2, <2>3, <2>5, <2>7, <2>8
<1>17. CASE RequestReadsRecord
  <2>1. request.todo = PatchSoap /\ Tail(request.todo) = PatchWrite /\ chain = NoChain
    BY <1>12, <1>17, RequestGoes DEF RequestReadsRecord
  <2>2. request'.todo = PatchWrite /\ request'.props = request.props
    BY <1>11, <1>17, <2>1 DEF RequestReadsRecord
  <2>3. SoapReads(request.new, request.props) /\ row' = row /\ chain' = chain
    BY <1>17 DEF RequestReadsRecord
  <2>4. soap = NothingRead
    BY <1>3, <1>10, <2>1, Members
  <2>5. /\ record' = NoRecord => owner' = Lost
        /\ record' # NoRecord => record'.title # 0
        /\ record = NoRecord => record' = NoRecord
        /\ soap'.op = "insert" => record' = NoRecord
        /\ soap'.op = "update" => soap'.record.title # 0
        /\ soap'.op = "none" => request.props = {}
        /\ \A p \in Props : owner'[p] = "editor" =>
              owner[p] = "editor" /\ record'[p] = edited[p] /\ (soap'.op = "update" => soap'.record[p] = edited[p])
        /\ \A p \in Props : owner'[p] \in Actor => owner[p] = owner'[p]
    BY <1>2, <2>3, <2>4, Read
  <2>6. /\ PatchWrite \notin Removing /\ PatchWrite # JustEnd /\ PatchSoap \in Compared
        /\ PatchWrite \notin {<<>>, DeleteAll, DeleteRecord} \cup Pushing \cup Comparing
    BY Members, RequestStages
  <2>7. RecordIs'
    BY <1>1, <2>2, <2>3, <2>5, <2>6 DEF RecordIs
  <2>8. SoapIs'
    BY <1>3, <1>4, <2>1, <2>2, <2>3, <2>5 DEF SoapIs
  <2>9. EditorKeeps'
    BY <1>0, <1>1, <2>2, <2>3, <2>5 DEF EditorKeeps, ByEditor
  <2>10. LaymanKeeps'
    BY <1>1, <1>3, <2>1, <2>2, <2>3, <2>5, <2>6 DEF LaymanKeeps
  <2>11. QED
    BY <2>7, <2>8, <2>9, <2>10 DEF RecordInv
<1>18. CASE RequestWritesRecord
  <2>1. request.todo = PatchWrite /\ Tail(request.todo) = JustEnd /\ chain = NoChain
    BY <1>12, <1>18, RequestGoes DEF RequestWritesRecord
  <2>2. request'.todo = JustEnd /\ request'.props = request.props /\ request'.file = request.file
    BY <1>11, <1>18, <2>1 DEF RequestWritesRecord
  <2>3. SoapWrites(request.new, request.props) /\ row' = row /\ chain' = chain /\ file' = file /\ layer' = layer
    BY <1>12, <1>18 DEF RequestWritesRecord
  <2>4. /\ request.new.title # 0 /\ row.exists /\ request.new.title = row.title /\ row.title = file.title
        /\ request.new.layers = row.layers /\ request.new.extent = row.extent
    BY <1>1, <2>1, Members DEF RequestSays
  <2>5. /\ soap.op = "none" => request.props = {}
        /\ \A p \in Props : owner[p] = "editor" => p \notin request.props
        /\ \A p \in Props : owner[p] \in Actor => p \in request.props
    BY <1>1, <2>1, Members DEF SoapIs, EditorKeeps, LaymanKeeps
  <2>6. /\ soap' = NothingRead
        /\ record' = NoRecord => owner' = Lost
        /\ record' # NoRecord => record'.title # 0
        /\ \A p \in Props : owner'[p] = "editor" => owner[p] = "editor" /\ record'[p] = edited[p]
        /\ \A p \in Props : owner'[p] \in Actor =>
               /\ p \in request.props /\ owner'[p] = actor /\ record'[p] = PropertyValues(request.new, actor)[p]
               /\ p = "extent" => request.new.extent = file.extent
    BY <1>2, <2>3, <2>4, <2>5, Written
  <2>7. /\ JustEnd \notin Removing /\ JustEnd # PatchWrite
        /\ JustEnd \notin {<<>>, DeleteAll, DeleteRecord, PostFile} \cup Pushing \cup Comparing \cup Compared \cup Posting
    BY Members, RequestStages
  <2>8. RecordIs'
    BY <1>1, <2>2, <2>3, <2>4, <2>6, <2>7 DEF RecordIs
  <2>9. SoapIs'
    <3>1. NothingRead.op = "none"
      BY DEF NothingRead
    <3>2. QED
      BY <1>3, <1>4, <2>1, <2>2, <2>3, <2>6, <2>7, <3>1 DEF SoapIs
  <2>10. EditorKeeps'
    <3>1. NothingRead.op = "none"
      BY DEF NothingRead
    <3>2. QED
      BY <1>0, <1>1, <2>2, <2>3, <2>6, <3>1 DEF EditorKeeps, ByEditor
  <2>11. ASSUME NEW p \in Props, owner'[p] \in Actor PROVE Kept(p)'
    <3>1. PropertyValues(request.new, actor) = PropertyValues(row, actor)
      BY <2>4 DEF PropertyValues
    <3>2. owner'[p] = actor
      BY <2>6, <2>11
    <3>3. (PropertyValues(row, owner[p]))' = PropertyValues(row, actor)
      BY <2>3, <3>2 DEF PropertyValues, OperatesOn, ReadableBy
    <3>4. QED
      BY <2>3, <2>4, <2>6, <2>11, <3>1, <3>3 DEF Kept
  <2>12. LaymanKeeps'
    BY <1>3, <2>1, <2>2, <2>3, <2>6, <2>7, <2>11 DEF LaymanKeeps
  <2>13. QED
    BY <2>8, <2>9, <2>10, <2>12 DEF RecordInv
<1>19. CASE DeleteSource
  <2>1. PICK s \in {"delete_record", "delete_thumbnail", "delete_bbox", "delete_file", "delete_layers", "delete_row"} :
            /\ Step(s) /\ Goes
            /\ record' = IF s = "delete_record" THEN NoRecord ELSE record
            /\ owner' = IF s = "delete_record" THEN Lost ELSE owner
            /\ row' = CASE s = "delete_bbox"   -> [row EXCEPT !.extent = 0]
                        [] s = "delete_layers" -> [row EXCEPT !.layers = {}]
                        [] s = "delete_row"    -> NoRow
                        [] OTHER -> row
            /\ UNCHANGED <<soap, chain>>
    BY <1>19 DEF DeleteSource
  <2>2. request'.todo = Tail(request.todo) /\ request'.file = request.file /\ request'.props = request.props
        /\ chain = NoChain /\ chain' = NoChain
    BY <1>11, <1>12, <2>1
  <2>3. CASE request.todo = PatchClear
    <3>1. s = "delete_thumbnail" /\ request'.todo = PatchSave
      <4>1. Head(request.todo) = s
        BY <1>12, <2>1
      <4>2. QED
        BY <2>2, <2>3, <4>1, RequestTails
    <3>2. record' = record /\ owner' = owner /\ row' = row
      BY <2>1, <3>1
    <3>3. /\ PatchSave \notin Removing /\ PatchSave # JustEnd /\ PatchClear \in Compared /\ PatchSave # PatchWrite
          /\ PatchSave \notin {<<>>, DeleteAll, DeleteRecord} \cup Pushing \cup Comparing /\ PatchClear # PatchWrite
      BY Members, RequestStages
    <3>4. LaymanKeeps'
      BY <1>1, <1>3, <2>2, <2>3, <3>1, <3>2, <3>3 DEF LaymanKeeps
    <3>5. ~row'.exists \/ request'.todo \in Removing => record = NoRecord
      BY <1>1, <3>1, <3>2, <3>3 DEF RecordIs
    <3>6. QED
      BY <1>13, <2>1, <2>2, <2>3, <3>1, <3>2, <3>3, <3>4, <3>5
  <2>4. CASE request.todo # PatchClear
    <3>1. \/ s = "delete_record" /\ request.todo = DeleteRecord /\ Tail(request.todo) = DeleteThumbnail
          \/ s = "delete_thumbnail" /\ request.todo = DeleteThumbnail /\ Tail(request.todo) = DeleteBbox
          \/ s = "delete_bbox" /\ request.todo = DeleteBbox /\ Tail(request.todo) = DeleteFile
          \/ s = "delete_file" /\ request.todo = DeleteFile /\ Tail(request.todo) = DeleteLayers
          \/ s = "delete_layers" /\ request.todo = DeleteLayers /\ Tail(request.todo) = DeleteRow
          \/ s = "delete_row" /\ request.todo = DeleteRow /\ Tail(request.todo) = JustEnd
      BY <1>12, <2>1, <2>4, RequestGoes
    <3>2. record' = NoRecord /\ owner' = Lost
      <4>1. CASE s = "delete_record"
        BY <2>1, <4>1
      <4>2. CASE s # "delete_record"
        <5>1. request.todo \in Removing
          BY <3>1, <4>2, Members
        <5>2. record = NoRecord /\ owner = Lost
          BY <1>1, <5>1 DEF RecordIs
        <5>3. QED
          BY <2>1, <4>2, <5>2
      <4>3. QED
        BY <4>1, <4>2
    <3>3. /\ request.todo # PatchWrite
          /\ request'.todo # PatchWrite
      BY <2>2, <3>1, Members, RequestStages
    <3>4. soap' = NothingRead /\ NothingRead.op = "none"
      BY <1>3, <1>10, <2>1, <2>2, <3>3 DEF NothingRead
    <3>5. \A p \in Props : owner'[p] # "editor" /\ owner'[p] \notin Actor
      BY <3>2, MapsAssumption DEF Lost
    <3>6. RecordIs' /\ EditorKeeps' /\ LaymanKeeps'
      BY <3>2, <3>5 DEF RecordIs, EditorKeeps, LaymanKeeps
    <3>7. SoapIs'
      BY <1>3, <1>4, <2>2, <3>3, <3>4 DEF SoapIs
    <3>8. QED
      BY <3>6, <3>7 DEF RecordInv
  <2>5. QED
    BY <2>3, <2>4
<1>20. NoRequest.todo = <<>> /\ NoRequest.props = {}
  BY DEF NoRequest
<1>21. /\ <<>> # PatchWrite /\ <<>> \notin Removing
       /\ <<>> \notin Posting \cup {PostFile, JustEnd} \cup Compared
  BY Members, RequestStages
<1>22. CASE RequestEnds
  <2>1. request.todo = JustEnd /\ chain = NoChain
    BY <1>12, <1>22, RequestGoes DEF RequestEnds
  <2>2. request' = NoRequest /\ UNCHANGED <<stores, soap, owner, layer>>
    BY <1>22 DEF RequestEnds, Step
  <2>3. JustEnd # PatchWrite /\ JustEnd \notin Removing
    BY Members, RequestStages
  <2>4. soap' = NothingRead
    BY <1>3, <1>10, <2>1, <2>2, <2>3
  <2>5. \A p \in Props : owner[p] \in Actor => p \in request.props /\ (request.file = NoFile => Kept(p))
    BY <1>1, <2>1 DEF LaymanKeeps
  <2>6. CASE request.file # NoFile
    <3>1. chain' = Publishing(request.props)
      BY <1>22, <2>6 DEF RequestEnds
    <3>2. chain'.kind = "publish" /\ chain'.todo = MapTasks /\ chain'.props = request.props
      BY <3>1 DEF Publishing, NoChain
    <3>3. LaymanKeeps'
      BY <1>20, <1>21, <2>2, <2>5, <3>2 DEF LaymanKeeps, Unwritten, Undrawn
    <3>4. \A p \in Props : owner[p] = "editor" => p \notin request'.props \cup chain'.props
      BY <1>1, <1>20, <2>2, <3>2 DEF EditorKeeps
    <3>5. QED
      BY <1>0, <1>1, <1>4, <1>20, <1>21, <2>2, <2>4, <3>2, <3>3, <3>4, RecordUntouched DEF RecordIs, stores
  <2>7. CASE request.file = NoFile
    <3>1. chain' = NoChain \/ chain' = FeatureChange
      BY <1>22, <2>7 DEF RequestEnds, RunNext
    <3>2. LaymanKeeps'
      BY <1>3, <1>5, <1>20, <1>21, <2>2, <2>5, <2>7, <3>1 DEF LaymanKeeps, stores
    <3>3. \A p \in Props : owner[p] = "editor" => p \notin request'.props \cup chain'.props
      BY <1>3, <1>20, <2>2, <3>1
    <3>4. QED
      BY <1>0, <1>1, <1>3, <1>4, <1>20, <1>21, <2>2, <2>4, <3>1, <3>2, <3>3, RecordUntouched DEF RecordIs, stores
  <2>8. QED
    BY <2>6, <2>7
<1>23. CASE RequestFails
  <2>1. request' = NoRequest /\ soap' = NothingRead /\ owner' = Unknown(Props) /\ UNCHANGED <<stores, layer>>
    BY <1>23 DEF RequestFails
  <2>2. chain' = NoChain \/ chain' = FeatureChange
    BY <1>23 DEF RequestFails, RunNext
  <2>3. \A p \in Props : owner'[p] \notin Actor /\ (owner'[p] = "editor" => owner[p] = "editor")
    BY <2>1, MapsAssumption DEF Unknown
  <2>4. record = NoRecord => owner' = Lost
    BY <1>1, <2>1 DEF RecordIs, Unknown, Lost
  <2>5. RecordIs'
    BY <1>1, <1>20, <1>21, <2>1, <2>4 DEF RecordIs, stores
  <2>6. NothingRead.op = "none"
    BY DEF NothingRead
  <2>7. SoapIs'
    BY <1>3, <1>4, <1>20, <1>21, <2>1, <2>2, <2>6 DEF SoapIs
  <2>8. EditorKeeps'
    BY <1>0, <1>1, <1>3, <1>20, <2>1, <2>2, <2>3, <2>6 DEF EditorKeeps, ByEditor, stores
  <2>9. LaymanKeeps'
    BY <2>3 DEF LaymanKeeps
  <2>10. QED
    BY <2>5, <2>7, <2>8, <2>9 DEF RecordInv
<1>24. QED
  BY <1>7, <1>8, <1>9, <1>14, <1>15, <1>16, <1>17, <1>18, <1>19, <1>22, <1>23

LEMMA TaskRecord ==
    ASSUME IInv,
           \/ refresh_file_data \/ ensure_internal_layers \/ refresh_thumbnail \/ Draw
           \/ refresh_soap \/ WriteRecord \/ TaskEnds \/ TaskFails \/ ChainEnds
    PROVE  RecordInv'
<1>0. edited' = edited
  BY DEF refresh_file_data, ensure_internal_layers, refresh_thumbnail, Draw, refresh_soap, WriteRecord,
         TaskEnds, TaskFails, ChainEnds, Starts, Task, Counted, inputs
<1>1. Types /\ ChainSays /\ RowSays /\ RecordIs /\ SoapIs /\ EditorKeeps /\ LaymanKeeps
  BY DEF IInv, Control, RecordInv
<1>2. chain \in ChainType /\ chain.todo \in PublishTodos \cup {ToRedraw, JustDraw}
      /\ chain.props \in SUBSET Props /\ row \in RowType
  BY <1>1 DEF Types, ChainType
<1>3. chain.kind # "none" /\ request' = request
  BY DEF refresh_file_data, ensure_internal_layers, refresh_thumbnail, Draw, refresh_soap, WriteRecord,
         TaskEnds, TaskFails, ChainEnds, Starts, Task
<1>4. request.todo \in {<<>>, DeleteAll} \cup Pushing
  BY <1>1, <1>3 DEF ChainSays
<1>5. /\ request.todo # PatchWrite /\ request.todo \notin Removing
      /\ request.todo \notin Posting \cup {PostFile, JustEnd} \cup Compared
      /\ request.todo \in {<<>>, DeleteAll, DeleteRecord} \cup Pushing \cup Comparing
  BY <1>4, Members, RequestStages
<1>6. ASSUME Done PROVE chain'.kind = chain.kind /\ chain'.props = chain.props /\ chain'.todo = Tail(chain.todo)
  BY <1>2, <1>6 DEF Done, ChainType
<1>7. chain.kind = "features" => chain.todo \in {ToRedraw, JustDraw, <<>>}
  BY <1>1 DEF ChainSays
<1>8. \A x \in Unwritten \cup {AtSoapEnd} : x \notin {ToRedraw, JustDraw, <<>>}
  BY ChainStages DEF Unwritten
<1>9. chain.kind \in {"none", "publish", "features"}
  BY <1>2 DEF ChainType
<1>10. chain.todo \in Unwritten \cup {AtSoapEnd} => chain.kind = "publish"
  BY <1>3, <1>7, <1>8, <1>9
<1>11. NothingRead.op = "none"
  BY DEF NothingRead
<1>12. chain.kind = "publish" => row.exists /\ row.title = file.title
  BY <1>1 DEF ChainSays
<1>13. ASSUME NEW p \in Props, owner[p] \in Actor, chain.kind # "publish" \/ chain.todo \notin Unwritten PROVE Kept(p)
  BY <1>1, <1>5, <1>13 DEF LaymanKeeps
<1>14. ASSUME NEW p \in Props, owner[p] \in Actor, chain.kind = "publish", chain.todo \in Unwritten
       PROVE  p \in chain.props
  BY <1>1, <1>14 DEF LaymanKeeps
(* What it takes to keep to what Layman wrote.                             *)
<1>15. ASSUME \A p \in Props : owner'[p] \in Actor =>
                  /\ chain'.kind = "publish" /\ chain'.todo \in Unwritten => p \in chain'.props
                  /\ chain'.kind # "publish" \/ chain'.todo \notin Unwritten => Kept(p)'
       PROVE  LaymanKeeps'
  BY <1>3, <1>5, <1>15 DEF LaymanKeeps
<1>16. \A x \in {MapTasks, AtLayers, AtThumbnail, AtDraw, AtThumbnailEnd, AtSoap, AtWrite} : x \in Unwritten
  BY DEF Unwritten, Undrawn
<1>17. \A x \in {MapTasks, AtLayers, AtThumbnail, AtDraw, AtThumbnailEnd, AtSoap, AtSoapEnd, ToRedraw, JustDraw, <<>>} :
           x # AtWrite
  BY ChainStages DEF Undrawn
<1>18. \A x \in {AtSoapEnd, <<>>, ToRedraw, JustDraw} : x \notin Unwritten
  BY ChainStages DEF Unwritten
(* Tasks that neither read nor write the record.                           *)
<1>19. ASSUME record' = record, owner' = owner, soap' = soap, row'.exists = row.exists,
              chain.todo # AtWrite, chain'.todo # AtWrite, chain'.props \subseteq chain.props, LaymanKeeps'
       PROVE  RecordInv'
  <2>1. soap' = NothingRead
    BY <1>1, <1>5, <1>19 DEF SoapIs
  <2>2. ~row'.exists \/ request'.todo \in Removing => record = NoRecord
    BY <1>1, <1>3, <1>5, <1>19 DEF RecordIs
  <2>3. \A p \in Props : owner[p] = "editor" => p \notin request'.props \cup chain'.props
    BY <1>1, <1>3, <1>19 DEF EditorKeeps
  <2>4. QED
    BY <1>0, <1>3, <1>5, <1>19, <2>1, <2>2, <2>3, RecordUntouched
<1>20. ASSUME NEW p \in Props, Kept(p), row' = row, file' = file, layer' = layer, record' = record, owner' = owner PROVE Kept(p)'
  BY <1>1, <1>20, KeptStays
<1>21. CASE refresh_file_data
  <2>1. chain.todo = MapTasks /\ Tail(chain.todo) = AtLayers
    BY <1>2, <1>21, ChainGoes DEF refresh_file_data, Starts, Task
  <2>2. chain'.kind = "publish" /\ chain'.todo = AtLayers /\ chain'.props = chain.props /\ chain.kind = "publish"
    BY <1>6, <1>10, <1>16, <1>21, <2>1 DEF refresh_file_data
  <2>3. record' = record /\ owner' = owner /\ soap' = soap
    BY <1>21 DEF refresh_file_data
  <2>4. row'.exists = row.exists
    BY <1>2, <1>21 DEF refresh_file_data, RowType
  <2>5. LaymanKeeps'
    BY <1>14, <1>15, <1>16, <2>1, <2>2, <2>3
  <2>6. QED
    BY <1>17, <1>19, <2>1, <2>2, <2>3, <2>4, <2>5
<1>22. CASE ensure_internal_layers
  <2>1. chain.todo = AtLayers /\ Tail(chain.todo) = AtThumbnail
    BY <1>2, <1>22, ChainGoes DEF ensure_internal_layers, Task
  <2>2. Done \/ chain' = chain
    BY <1>22 DEF ensure_internal_layers
  <2>3. chain'.kind = "publish" /\ chain'.todo \in {AtLayers, AtThumbnail} /\ chain'.props = chain.props
        /\ chain.kind = "publish"
    BY <1>6, <1>10, <1>16, <2>1, <2>2
  <2>4. record' = record /\ owner' = owner /\ soap' = soap
    BY <1>22 DEF ensure_internal_layers
  <2>5. row'.exists = row.exists
    BY <1>2, <1>22 DEF ensure_internal_layers, RowType
  <2>6. LaymanKeeps'
    BY <1>14, <1>15, <1>16, <2>1, <2>3, <2>4
  <2>7. QED
    BY <1>17, <1>19, <2>1, <2>3, <2>4, <2>5, <2>6
<1>23. CASE refresh_thumbnail \/ Draw \/ TaskEnds
  <2>1. Head(chain.todo) \in {"thumbnail", "draw", "thumbnail_end", "soap_end"} /\ chain.todo # <<>>
    BY <1>23 DEF refresh_thumbnail, Draw, TaskEnds, Starts, Task
  <2>2. \/ chain.todo = AtThumbnail /\ Tail(chain.todo) = AtDraw
        \/ chain.todo = AtDraw /\ Tail(chain.todo) = AtThumbnailEnd
        \/ chain.todo = AtThumbnailEnd /\ Tail(chain.todo) = AtSoap
        \/ chain.todo = AtSoapEnd /\ Tail(chain.todo) = <<>>
        \/ chain.todo = ToRedraw /\ Tail(chain.todo) = JustDraw
        \/ chain.todo = JustDraw /\ Tail(chain.todo) = <<>>
    BY <1>2, <2>1, ChainGoes
  <2>3. chain'.kind = chain.kind /\ chain'.props = chain.props /\ chain'.todo = Tail(chain.todo)
    <3>1. CASE refresh_thumbnail
      BY <1>2, <3>1 DEF refresh_thumbnail, ChainType
    <3>2. CASE Draw \/ TaskEnds
      BY <1>6, <3>2 DEF Draw, TaskEnds
    <3>3. QED
      BY <1>23, <3>1, <3>2
  <2>4. UNCHANGED <<row, file, layer, soap>>
    BY <1>23 DEF refresh_thumbnail, Draw, TaskEnds, Starts, Task, stores
  <2>5. chain.todo # AtWrite /\ chain'.todo # AtWrite
    BY <1>17, <2>2, <2>3
  <2>6. chain.todo \in Unwritten <=> chain'.todo \in Unwritten
    BY <1>16, <1>18, <2>2, <2>3
  <2>7. CASE record' = record /\ owner' = owner
    <3>1. LaymanKeeps'
      BY <1>13, <1>14, <1>15, <1>20, <2>3, <2>4, <2>6, <2>7
    <3>2. QED
      BY <1>19, <2>3, <2>4, <2>5, <2>7, <3>1
  <2>8. CASE record' = NoRecord /\ owner' = Lost
    <3>1. \A p \in Props : owner'[p] # "editor" /\ owner'[p] \notin Actor
      BY <2>8, MapsAssumption DEF Lost
    <3>2. RecordIs' /\ EditorKeeps' /\ LaymanKeeps'
      BY <2>8, <3>1 DEF RecordIs, EditorKeeps, LaymanKeeps
    <3>3. SoapIs'
      BY <1>1, <1>3, <1>5, <1>11, <2>4, <2>5 DEF SoapIs
    <3>4. QED
      BY <3>2, <3>3 DEF RecordInv
  <2>9. (record' = record /\ owner' = owner) \/ (record' = NoRecord /\ owner' = Lost)
    BY <1>23 DEF refresh_thumbnail, Draw, TaskEnds, stores
  <2>10. QED
    BY <2>7, <2>8, <2>9
<1>24. CASE refresh_soap
  <2>1. chain.todo = AtSoap /\ Tail(chain.todo) = AtWrite
    BY <1>2, <1>24, ChainGoes DEF refresh_soap, Starts, Task
  <2>2. chain'.kind = "publish" /\ chain'.todo = AtWrite /\ chain'.props = chain.props /\ chain.kind = "publish"
    BY <1>6, <1>10, <1>16, <1>24, <2>1 DEF refresh_soap
  <2>3. SoapReads(row, chain.props) /\ row' = row
    BY <1>1, <1>12, <1>24, <2>2, LoadedIs DEF refresh_soap
  <2>4. soap = NothingRead
    BY <1>1, <1>5, <1>17, <2>1 DEF SoapIs
  <2>5. /\ record' = NoRecord => owner' = Lost
        /\ record' # NoRecord => record'.title # 0
        /\ record = NoRecord => record' = NoRecord
        /\ soap'.op = "insert" => record' = NoRecord
        /\ soap'.op = "update" => soap'.record.title # 0
        /\ soap'.op = "none" => chain.props = {}
        /\ \A p \in Props : owner'[p] = "editor" =>
              owner[p] = "editor" /\ record'[p] = edited[p] /\ (soap'.op = "update" => soap'.record[p] = edited[p])
        /\ \A p \in Props : owner'[p] \in Actor => owner[p] = owner'[p]
    BY <1>2, <2>3, <2>4, Read
  <2>6. RecordIs'
    BY <1>1, <1>3, <1>5, <2>3, <2>5 DEF RecordIs
  <2>7. SoapIs'
    BY <1>3, <1>5, <2>2, <2>5 DEF SoapIs
  <2>8. EditorKeeps'
    BY <1>0, <1>1, <1>3, <2>2, <2>5 DEF EditorKeeps, ByEditor
  <2>9. LaymanKeeps'
    BY <1>14, <1>15, <1>16, <2>1, <2>2, <2>5
  <2>10. QED
    BY <2>6, <2>7, <2>8, <2>9 DEF RecordInv
<1>25. CASE WriteRecord
  <2>1. chain.todo = AtWrite /\ Tail(chain.todo) = AtSoapEnd
    BY <1>2, <1>25, ChainGoes DEF WriteRecord, Task
  <2>2. chain'.kind = "publish" /\ chain'.todo = AtSoapEnd /\ chain'.props = chain.props /\ chain.kind = "publish"
    BY <1>6, <1>10, <1>16, <1>25, <2>1 DEF WriteRecord
  <2>3. SoapWrites(row, chain.props) /\ row' = row /\ file' = file /\ layer' = layer
    BY <1>1, <1>12, <1>25, <2>2, LoadedIs DEF WriteRecord, Task
  <2>4. row.exists /\ row.title # 0 /\ row.title = file.title
    BY <1>1, <1>12, <2>2 DEF RowSays
  <2>5. /\ soap.op = "none" => chain.props = {}
        /\ \A p \in Props : owner[p] = "editor" => p \notin chain.props
        /\ \A p \in Props : owner[p] \in Actor => p \in chain.props
    BY <1>1, <1>14, <1>16, <2>1, <2>2 DEF SoapIs, EditorKeeps
  <2>6. /\ soap' = NothingRead
        /\ record' = NoRecord => owner' = Lost
        /\ record' # NoRecord => record'.title # 0
        /\ \A p \in Props : owner'[p] = "editor" => owner[p] = "editor" /\ record'[p] = edited[p]
        /\ \A p \in Props : owner'[p] \in Actor =>
               /\ p \in chain.props /\ owner'[p] = actor /\ record'[p] = PropertyValues(row, actor)[p]
               /\ p = "extent" => row.extent = file.extent
    BY <1>2, <2>3, <2>4, <2>5, Written
  <2>7. RecordIs'
    BY <1>3, <1>5, <2>3, <2>4, <2>6 DEF RecordIs
  <2>8. SoapIs'
    BY <1>3, <1>5, <1>11, <1>17, <2>2, <2>6 DEF SoapIs
  <2>9. EditorKeeps'
    BY <1>0, <1>1, <1>3, <1>11, <2>2, <2>6 DEF EditorKeeps, ByEditor
  <2>10. ASSUME NEW p \in Props, owner'[p] \in Actor PROVE Kept(p)'
    <3>1. owner'[p] = actor
      BY <2>6, <2>10
    <3>2. (PropertyValues(row, owner[p]))' = PropertyValues(row, actor)
      BY <2>3, <3>1 DEF PropertyValues, OperatesOn, ReadableBy
    <3>3. QED
      BY <2>3, <2>4, <2>6, <2>10, <3>2 DEF Kept
  <2>11. LaymanKeeps'
    BY <1>15, <1>18, <2>2, <2>10
  <2>12. QED
    BY <2>7, <2>8, <2>9, <2>11 DEF RecordInv
<1>26. NoChain.kind = "none" /\ NoChain.todo = <<>> /\ NoChain.props = {}
       /\ FeatureChange.kind = "features" /\ FeatureChange.todo = ToRedraw /\ FeatureChange.props = {}
  BY DEF FeatureChange, NoChain, ToRedraw
(* A chain that has failed.                                                *)
<1>27. ASSUME owner' = IF chain.kind = "publish" THEN Unknown(Props) ELSE owner,
              chain' = NoChain, soap' = NothingRead, UNCHANGED <<stores, layer>>
       PROVE  RecordInv'
  <2>1. \A p \in Props : (owner'[p] \in Actor => owner[p] = owner'[p] /\ chain.kind # "publish")
                         /\ (owner'[p] = "editor" => owner[p] = "editor")
    BY <1>27, MapsAssumption DEF Unknown
  <2>2. record = NoRecord => owner' = Lost
    BY <1>1, <1>27 DEF RecordIs, Unknown, Lost
  <2>3. RecordIs'
    BY <1>1, <1>3, <1>27, <2>2 DEF RecordIs, stores
  <2>4. SoapIs'
    BY <1>3, <1>5, <1>11, <1>17, <1>26, <1>27 DEF SoapIs
  <2>5. EditorKeeps'
    BY <1>0, <1>1, <1>3, <1>11, <1>26, <1>27, <2>1 DEF EditorKeeps, ByEditor, stores
  <2>6. LaymanKeeps'
    BY <1>13, <1>15, <1>20, <1>26, <1>27, <2>1 DEF stores
  <2>7. QED
    BY <2>3, <2>4, <2>5, <2>6 DEF RecordInv
<1>28. CASE TaskFails
  BY <1>27, <1>28 DEF TaskFails
<1>29. CASE ChainEnds
  <2>1. UNCHANGED <<stores, layer, soap>>
    BY <1>29 DEF ChainEnds
  <2>2. chain.todo # AtWrite
    <3>1. Head(AtWrite) = "write" /\ AtWrite # <<>>
      BY ChainTails, ChainStages
    <3>2. chain.todo = <<>> \/ Head(chain.todo) \in {"file_data", "thumbnail", "soap"}
      BY <1>29 DEF ChainEnds, BetweenTasks
    <3>3. QED
      BY <3>1, <3>2
  <2>3. CASE ~chain.aborted
    <3>1. chain.todo = <<>> /\ owner' = owner /\ (chain' = NoChain \/ chain' = FeatureChange)
      BY <1>29, <2>3 DEF ChainEnds, RunNext
    <3>2. LaymanKeeps'
      BY <1>13, <1>15, <1>18, <1>20, <1>26, <2>1, <3>1 DEF stores
    <3>3. QED
      BY <1>17, <1>19, <1>26, <2>1, <2>2, <3>1, <3>2 DEF stores
  <2>4. CASE chain.aborted
    <3>1. chain' = NoChain /\ owner' = IF chain.kind = "publish" THEN Unknown(Props) ELSE owner
      BY <1>29, <2>4 DEF ChainEnds
    <3>2. soap' = NothingRead
      BY <1>1, <1>5, <2>1, <2>2 DEF SoapIs
    <3>3. QED
      BY <1>27, <2>1, <3>1, <3>2
  <2>5. QED
    BY <2>3, <2>4
<1>30. QED
  BY <1>21, <1>22, <1>23, <1>24, <1>25, <1>28, <1>29

LEMMA OtherRecord ==
    ASSUME IInv,
           \/ \E l \in Layer :
                  \/ ChangeFeatures(l) \/ ChangeLayer(l) \/ LayerChainEnds(l) \/ LayerChainFails(l)
                  \/ patch_after_feature_change(l) \/ push_step_to_run_after_chain(l)
           \/ \E p \in Props : EditRecord(p)
    PROVE  RecordInv'
<1> DEFINE SameLayers ==
        \A k \in Layer : /\ layer'[k].exists <=> layer[k].exists
                         /\ layer'[k].title = layer[k].title
                         /\ layer'[k].readers = layer[k].readers
<1>1. Types /\ RequestSays /\ ChainSays /\ RecordIs /\ SoapIs /\ EditorKeeps /\ LaymanKeeps
  BY DEF IInv, Control, RecordInv
<1>2. layer \in [Layer -> LayerType] /\ chain \in ChainType
  BY <1>1 DEF Types
<1>3. row' = row /\ file' = file /\ request' = request /\ soap' = soap
  BY DEF ChangeFeatures, ChangeLayer, Changes, LayerChainEnds, LayerChainFails, patch_after_feature_change,
         push_step_to_run_after_chain, EditRecord, stores
<1>4. NoChain.kind = "none" /\ NoChain.todo = <<>> /\ NoChain.props = {} /\ NothingRead.op = "none"
      /\ FeatureChange.kind = "features" /\ FeatureChange.todo = ToRedraw /\ FeatureChange.props = {}
  BY DEF FeatureChange, NoChain, ToRedraw, NothingRead
<1>5. /\ <<>> \notin {PatchWrite, AtWrite, JustEnd, PostFile} \cup Posting \cup Compared
      /\ ToRedraw # AtWrite
  BY Members, RequestStages, ChainStages
<1>6. ASSUME NEW l \in Layer, NextOfLayer(l) \/ \E c : layer' = [layer EXCEPT ![l].chain = c]
      PROVE  SameLayers
  BY <1>2, <1>6 DEF NextOfLayer, LayerType
(* Whatever happens to the layers, but for their titles.                   *)
<1>7. ASSUME record' = record, edited' = edited, \A p \in Props : owner'[p] = owner[p] \/ owner'[p] = "anyone",
             record = NoRecord => owner' = Lost,
             chain' = chain \/ (chain.kind = "none" /\ request.todo = <<>> /\ chain' = FeatureChange),
             \A p \in Props : owner'[p] \in Actor /\ p = "operates_on" => SameLayers
      PROVE  RecordInv'
  <2>0. \A p \in Props : owner'[p] \in Actor => owner'[p] = owner[p]
    BY <1>7, MapsAssumption
  <2>1. ASSUME NEW p \in Props, owner'[p] \in Actor, Kept(p) PROVE Kept(p)'
    <3>1. owner'[p] = owner[p] /\ record'[p] = record[p]
      BY <1>7, <2>0, <2>1
    <3>2. p = "operates_on" =>
              \A l \in Layer : (layer'[l].exists <=> layer[l].exists) /\ layer'[l].title = layer[l].title
                               /\ layer'[l].readers = layer[l].readers
      BY <1>7, <2>1
    <3> HIDE DEF SameLayers
    <3>3. row'.title = row.title /\ row'.extent = row.extent /\ row'.layers = row.layers
          /\ file'.title = file.title /\ file'.extent = file.extent
      BY <1>3
    <3>4. QED
      BY <1>1, <2>1, <3>1, <3>2, <3>3, KeptStays
  <2>2. CASE chain' = chain
    <3>1. RecordIs' /\ SoapIs'
      BY <1>1, <1>3, <1>7, <2>2 DEF RecordIs, SoapIs
    <3>2. EditorKeeps'
      BY <1>1, <1>3, <1>7, <2>2 DEF EditorKeeps, ByEditor
    <3>3. LaymanKeeps'
      BY <1>1, <1>3, <2>0, <2>1, <2>2 DEF LaymanKeeps
    <3>4. QED
      BY <3>1, <3>2, <3>3 DEF RecordInv
  <2>3. CASE chain.kind = "none" /\ request.todo = <<>> /\ chain' = FeatureChange
    <3>1. chain = NoChain
      BY <1>1, <2>3 DEF ChainSays
    <3>2. soap = NothingRead
      BY <1>1, <1>4, <1>5, <2>3, <3>1 DEF SoapIs
    <3>3. RecordIs' /\ SoapIs'
      BY <1>1, <1>3, <1>4, <1>5, <1>7, <2>3, <3>2 DEF RecordIs, SoapIs
    <3>4. EditorKeeps'
      BY <1>1, <1>3, <1>4, <1>7, <2>3, <3>1, <3>2 DEF EditorKeeps, ByEditor
    <3>5. LaymanKeeps'
      BY <1>1, <1>3, <1>4, <1>5, <2>0, <2>1, <2>3 DEF LaymanKeeps
    <3>6. QED
      BY <3>3, <3>4, <3>5 DEF RecordInv
  <2>4. QED
    BY <1>7, <2>2, <2>3
<1>8. ASSUME NEW l \in Layer,
             \/ ChangeFeatures(l) \/ LayerChainEnds(l) \/ LayerChainFails(l)
             \/ patch_after_feature_change(l) \/ push_step_to_run_after_chain(l)
      PROVE  RecordInv'
  <2>1. record' = record /\ owner' = owner /\ edited' = edited
    BY <1>8 DEF ChangeFeatures, Changes, LayerChainEnds, LayerChainFails, Counted, patch_after_feature_change,
                push_step_to_run_after_chain, stores, inputs
  <2>2. chain' = chain \/ (chain.kind = "none" /\ request.todo = <<>> /\ chain' = FeatureChange)
    BY <1>8 DEF ChangeFeatures, Changes, LayerChainEnds, LayerChainFails, patch_after_feature_change,
                push_step_to_run_after_chain, Locked
  <2>3. SameLayers
    <3>1. CASE ChangeFeatures(l)
      BY <1>2, <3>1 DEF ChangeFeatures, LayerType
    <3>2. CASE LayerChainFails(l)
      BY <1>2, <3>2 DEF LayerChainFails, LayerType
    <3>3. CASE LayerChainEnds(l) \/ patch_after_feature_change(l) \/ push_step_to_run_after_chain(l)
      BY <1>6, <3>3 DEF LayerChainEnds, patch_after_feature_change, StepLater, push_step_to_run_after_chain
    <3>4. QED
      BY <1>8, <3>1, <3>2, <3>3
  <2>4. record = NoRecord => owner' = Lost
    BY <1>1, <2>1 DEF RecordIs
  <2>5. QED
    BY <1>7, <2>1, <2>2, <2>3, <2>4
<1>9. ASSUME NEW l \in Layer, ChangeLayer(l) PROVE RecordInv'
  <2>1. record' = record /\ edited' = edited /\ owner' = Unknown({"operates_on"}) /\ chain' = chain
    BY <1>9 DEF ChangeLayer, Changes, stores
  <2>2. \A p \in Props : /\ owner'[p] = owner[p] \/ owner'[p] = "anyone"
                         /\ p = "operates_on" => owner'[p] \notin Actor
    BY <2>1, MapsAssumption DEF Unknown
  <2>3. record = NoRecord => owner' = Lost
    BY <1>1, <2>1 DEF RecordIs, Unknown, Lost
  <2>4. QED
    BY <1>7, <2>1, <2>2, <2>3
<1>10. ASSUME NEW p \in Props, EditRecord(p) PROVE RecordInv'
  <2>0. PICK value \in Edits(p) :
            /\ record' = [record EXCEPT ![p] = value]
            /\ IF request.todo = <<>> /\ chain.kind # "publish" /\ Noticed(p, value)
               THEN owner' = [owner EXCEPT ![p] = "editor"] /\ edited' = [edited EXCEPT ![p] = value]
               ELSE owner' = [owner EXCEPT ![p] = "anyone"] /\ edited' = edited
    BY <1>10 DEF EditRecord
  <2>1. record # NoRecord /\ chain' = chain /\ layer' = layer
    BY <1>10 DEF EditRecord
  <2>2. /\ \A q \in Props : q \in DOMAIN record /\ q \in DOMAIN edited /\ q \in DOMAIN owner
        /\ "title" \in Props
    BY <1>1 DEF Types, RecordType, Props
  <2>3. /\ record'[p] = value
        /\ \A q \in Props \ {p} : record'[q] = record[q] /\ owner'[q] = owner[q] /\ edited'[q] = edited[q]
    BY <2>0, <2>2
  <2>4. \/ owner'[p] = "anyone"
        \/ /\ request.todo = <<>> /\ chain.kind # "publish" /\ owner'[p] = "editor"
           /\ edited'[p] = value /\ Noticed(p, value)
    BY <2>0, <2>2
  <2>5. record'.title # 0
    <3>1. CASE p = "title"
      <4>1. value = -1
        BY <2>0, <3>1 DEF Edits
      <4>2. QED
        BY <2>3, <3>1, <4>1
    <3>2. CASE p # "title"
      BY <1>1, <2>1, <2>2, <2>3, <3>2 DEF RecordIs
    <3>3. QED
      BY <3>1, <3>2
  <2>6. record' # NoRecord
    BY <2>5 DEF NoRecord
  <2>7. RecordIs'
    BY <1>1, <1>3, <2>1, <2>5, <2>6 DEF RecordIs
  <2>8. SoapIs'
    BY <1>1, <1>3, <2>1 DEF SoapIs
  <2>9. owner'[p] = "editor" => request.props = {} /\ chain.props = {} /\ soap.op # "update"
    <3> SUFFICES ASSUME owner'[p] = "editor" PROVE request.props = {} /\ chain.props = {} /\ soap.op # "update"
      OBVIOUS
    <3>1. request.todo = <<>> /\ chain.kind # "publish"
      BY <2>4
    <3>2. request.props = {}
      <4>1. [NoRequest EXCEPT !.todo = <<>>].props = {}
        BY DEF NoRequest
      <4>2. QED
        BY <1>1, <3>1, <4>1 DEF RequestSays
    <3>3. chain.props = {} /\ chain.todo # AtWrite
      BY <1>1, <1>2, <1>4, <1>5, <3>1, ChainStages DEF ChainSays, ChainType
    <3>4. soap = NothingRead
      BY <1>1, <1>5, <3>1, <3>3 DEF SoapIs
    <3>5. QED
      BY <1>4, <3>2, <3>3, <3>4
  <2>10. EditorKeeps'
    <3> SUFFICES ASSUME NEW q \in Props, owner'[q] = "editor"
                 PROVE  /\ record'[q] = edited'[q] /\ ByEditor(q)'
                        /\ q \notin request'.props \cup chain'.props
                        /\ soap'.op = "update" => soap'.record[q] = edited'[q]
      BY DEF EditorKeeps
    <3>1. CASE q = p
      <4>1. edited'[p] = value /\ Noticed(p, value)
        BY <2>4, <3>1
      <4>2. ByEditor(p)'
        BY <2>0, <4>1 DEF ByEditor, Noticed, Edits
      <4>3. QED
        BY <1>3, <2>1, <2>3, <2>9, <3>1, <4>1, <4>2
    <3>2. CASE q # p
      <4>1. owner[q] = "editor" /\ edited'[q] = edited[q] /\ record'[q] = record[q]
        BY <2>3, <3>2
      <4>2. QED
        BY <1>1, <1>3, <2>1, <4>1 DEF EditorKeeps, ByEditor
    <3>3. QED
      BY <3>1, <3>2
  <2>11. owner'[p] \notin Actor
    BY <2>4, MapsAssumption
  <2>12. ASSUME NEW q \in Props, owner'[q] \in Actor PROVE q # p /\ owner[q] \in Actor /\ (Kept(q) => Kept(q)')
    <3>1. q # p /\ owner'[q] = owner[q] /\ record'[q] = record[q]
      BY <2>3, <2>11, <2>12
    <3>2. QED
      BY <1>1, <1>3, <2>1, <2>12, <3>1, KeptStays
  <2>13. LaymanKeeps'
    BY <1>1, <1>3, <2>1, <2>12 DEF LaymanKeeps
  <2>14. QED
    BY <2>7, <2>8, <2>10, <2>13 DEF RecordInv
<1>11. QED
  BY <1>8, <1>9, <1>10
-----------------------------------------------------------------------------
(* The invariant, and what follows from it.                                *)
LEMMA StepKeeps ==
    ASSUME IInv, [Next]_vars
    PROVE  IInv'
<1>1. CASE UNCHANGED vars
  <2>1. Types'
    BY <1>1 DEF IInv, vars, stores, inputs, Types
  <2>2. Control'
    BY <1>1 DEF IInv, vars, stores, Control, RequestSays, ChainSays, RowSays
  <2>3. ThumbnailInv'
    BY <1>1 DEF IInv, vars, stores, ThumbnailInv, ChainRead, MapShown, WillPublish, WillRedraw, Deleting,
                RowsMatch, LayersOf, Good, Uuids
  <2>4. RecordIs' /\ SoapIs' /\ EditorKeeps'
    BY <1>1 DEF IInv, vars, stores, inputs, RecordInv, RecordIs, SoapIs, EditorKeeps, ByEditor
  <2>5. ASSUME NEW p \in Props, Kept(p) PROVE Kept(p)'
    BY <1>1, <2>5, KeptStays DEF IInv, vars, stores
  <2>6. LaymanKeeps'
    BY <1>1, <2>5 DEF IInv, vars, RecordInv, LaymanKeeps, stores
  <2>7. QED
    BY <2>1, <2>2, <2>3, <2>4, <2>6 DEF IInv, RecordInv
<1>2. CASE \/ \E layout \in Layouts, public \in BOOLEAN : Post(layout, public)
           \/ \E layouts \in {{}} \cup {{f} : f \in Layouts}, public \in BOOLEAN : Patch(layouts, public)
           \/ Delete
           \/ Queues \/ Compare \/ SaveFile \/ Table \/ InputFile \/ RequestReadsRecord
           \/ RequestWritesRecord \/ DeleteSource \/ RequestEnds \/ RequestFails
  BY <1>2, RequestTypes, RequestControl, RequestChain, RequestRead, RequestShown, RequestRecord
     DEF IInv, Control, ThumbnailInv
<1>3. CASE \/ refresh_file_data \/ ensure_internal_layers \/ refresh_thumbnail \/ Draw
           \/ refresh_soap \/ WriteRecord \/ TaskEnds \/ TaskFails \/ ChainEnds
  BY <1>3, TaskTypes, TaskControl, TaskRead, TaskShown, TaskRecord DEF IInv, ThumbnailInv
<1>4. CASE \/ \E l \in Layer :
                  \/ ChangeFeatures(l) \/ ChangeLayer(l) \/ LayerChainEnds(l) \/ LayerChainFails(l)
                  \/ patch_after_feature_change(l) \/ push_step_to_run_after_chain(l)
           \/ \E p \in Props : EditRecord(p)
  BY <1>4, OtherTypes, OtherControl, OtherRead, OtherShown, OtherRecord DEF IInv, ThumbnailInv
<1>5. QED
  BY <1>1, <1>2, <1>3, <1>4 DEF Next

LEMMA Invariant == Spec => []IInv
<1>1. Init => IInv
  BY InitTypes, InitRecord DEF IInv
<1>2. QED
  BY <1>1, StepKeeps, PTL DEF Spec

(* However requests, the chains of a map and those of its layers meet, the *)
(* thumbnail ends up showing the map and its layers as they are            *)
(* (layman/map, layman/publication_relation, layman/util.py).              *)
THEOREM ThumbnailsHold == Spec => []ThumbnailCurrent
<1>1. ASSUME IInv PROVE ThumbnailCurrent
  <2> SUFFICES ASSUME row.exists, ~Locked, ~later, ~broken, \A l \in Layer : layer[l].chain = "none"
               PROVE  /\ thumbnail.extent = file.extent
                      /\ \A l \in Uuids(LayersOf(file)) :
                             layer[l].exists => thumbnail.features[l] = layer[l].features
    BY DEF ThumbnailCurrent
  <2>1. Types /\ RequestSays /\ ChainSays /\ MapShown
    BY <1>1 DEF IInv, Control, ThumbnailInv
  <2>2. request.todo = <<>> /\ chain = NoChain
    BY <2>1 DEF Locked, ChainSays
  <2>3. NoChain.kind = "none" /\ NoChain.todo = <<>>
    BY DEF NoChain
  <2>4. request.file = NoFile
    <3>1. [NoRequest EXCEPT !.todo = <<>>].file = NoFile
      BY DEF NoRequest
    <3>2. QED
      BY <2>1, <2>2, <3>1 DEF RequestSays
  <2>5. ~WillRedraw
    BY <2>2, <2>3, <2>4, RequestStages DEF WillRedraw, WillPublish, Deleting
  <2>6. NoChain.todo \notin {AtDraw, JustDraw}
    BY <2>3, ChainStages
  <2>7. Good(thumbnail)
    BY <2>1, <2>2, <2>5, <2>6 DEF MapShown
  <2>8. Uuids(LayersOf(file)) \subseteq Layer
    BY <2>1 DEF Types, Uuids, LayersOf, FileType
  <2>9. QED
    BY <2>7, <2>8 DEF Good
<1>2. QED
  BY <1>1, Invariant, PTL

(* What an editor wrote into the record is never overwritten, unless he    *)
(* only took layers out of it, and what Layman wrote is what the map has,  *)
(* as far as the user it was written for may read (layman/map/util.py,     *)
(* layman/common/metadata.py, layman/map/micka).                           *)
THEOREM RecordsHold == Spec => []RecordKept
<1>1. ASSUME IInv PROVE RecordKept
  <2>1. ChainSays /\ RecordIs /\ EditorKeeps /\ LaymanKeeps
    BY <1>1 DEF IInv, Control, RecordInv
  <2>2. ASSUME NEW p \in Props, owner[p] = "editor" PROVE record[p] = edited[p]
    BY <2>1, <2>2 DEF EditorKeeps
  <2>3. ASSUME NEW p \in Props, owner[p] \in Actor, ~Locked
        PROVE  record # NoRecord /\ record[p] = PropertyValues(row, owner[p])[p]
    <3>1. request.todo = <<>> /\ chain.kind # "publish"
      BY <2>3 DEF Locked
    <3>2. Kept(p)
      BY <2>1, <2>3, <3>1 DEF LaymanKeeps
    <3>3. record # NoRecord
      BY <2>1, <2>3, MapsAssumption DEF RecordIs, Lost
    <3>4. QED
      BY <3>2, <3>3 DEF Kept
  <2>4. QED
    BY <2>2, <2>3 DEF RecordKept
<1>2. QED
  BY <1>1, Invariant, PTL

=============================================================================
