-------------------------------- MODULE Maps --------------------------------
(***************************************************************************)
(* A map: its row and its relation to layers in the prime DB schema, its   *)
(* file, its thumbnail and its record in the catalogue (layman/map), kept  *)
(* in agreement by requests, by the chain of tasks that follows them and   *)
(* by the chains of the layers the map shows                               *)
(* (layman/publication_relation, layman/util.py), while users edit the     *)
(* record in the catalogue.                                                *)
(*                                                                         *)
(* A request begins when no other one is handled: what two requests do to  *)
(* one lock is the matter of LayerChain.  Titles, extents and features are *)
(* the number of the request or change that gave them; 0 is none.          *)
(***************************************************************************)
EXTENDS Integers, Sequences, FiniteSets

CONSTANTS
    Actor,        \* users who may edit the map
    Layer,        \* layers of Layman
    External,     \* a layer of a map that Layman does not know
    Layouts,      \* layers of the files that clients send, in their order
    MaxRequests, MaxChanges, MaxEdits, MaxFailures   \* bounds of each

ASSUME MapsAssumption ==
    /\ {"anyone", "editor"} \cap Actor = {}
    /\ External \notin Layer /\ Layouts \subseteq Seq(Layer \cup {External})
    /\ {MaxRequests, MaxChanges, MaxEdits, MaxFailures} \subseteq Nat

VARIABLES
    row,        \* the map in publications, and its rows of map_layer
    file,       \* the file of the map
    thumbnail,  \* what the thumbnail shows
    record,     \* the record in the catalogue
    layer,      \* layer[l]: its title, readers and features, its chain
    request,    \* the request that edits the map
    actor,      \* who sent the request that edits the map, or did so last
    soap,       \* what a request or task has read of the record to write it
    chain,      \* the chain of tasks of the map
    later,      \* is patch_after_feature_change queued behind the chain?
    owner,      \* history: owner[p]: who gave property p of the record its value:
                \* an editor of the catalogue, or Layman, for an actor
    edited,     \* history: what they wrote
    broken,     \* history: a chain or request failed after the file was last published
    requests, changes, edits, failures

stores == <<row, file, thumbnail, record>>
inputs == <<actor, edited, requests, changes, edits, failures>>
vars == <<stores, layer, request, soap, chain, later, owner, broken, inputs>>

Props == {"title", "extent", "operates_on"}

NoRow       == [exists |-> FALSE, title |-> 0, public |-> FALSE, extent |-> 0, layers |-> {}]
NoFile      == [title |-> 0, extent |-> 0, layers |-> <<>>]
NoThumbnail == [extent |-> 0, features |-> [l \in Layer |-> 0]]
NoRecord    == [title |-> 0, extent |-> 0, operates_on |-> {}, public |-> FALSE]
NoRequest   == [todo |-> <<>>, new |-> NoRow, file |-> NoFile, props |-> {}]
NoChain     == [kind |-> "none", todo |-> <<>>, props |-> {}, shown |-> NoThumbnail, aborted |-> FALSE]

(* A layer that an editor adds to operates_on; Layman never does.          *)
Foreign == <<External, 0>>

Locked == request.todo # <<>> \/ chain.kind # "none"
-----------------------------------------------------------------------------
(* Values.                                                                 *)

(* get_layers_from_json                                                    *)
LayersOf(f) == {<<f.layers[i], i>> : i \in {j \in DOMAIN f.layers : f.layers[j] \in Layer}}

Uuids(mapLayers) == {ml[1] : ml \in mapLayers}

(* map_to_operates_on: layers that are there, with their titles now.       *)
OperatesOn(uuids) == {<<l, layer[l].title>> : l \in {m \in uuids : layer[m].exists}}

(* With an editor: of these, those that user may read.                     *)
ReadableBy(user, uuids) == {l \in uuids : user \in layer[l].readers}

(* Map(uuid): the row, with the title the file has.                        *)
Loaded == [row EXCEPT !.title = IF file = NoFile THEN @ ELSE file.title]

(* get_template_path_and_values, for a map as the request or task sees it, *)
(* and the user who sent the request.                                      *)
PropertyValues(m, user) ==
    [title |-> m.title, extent |-> m.extent,
     operates_on |-> OperatesOn(ReadableBy(user, Uuids(m.layers)))]

(* CRSDefinitions[None] raises.                                            *)
HasValues(m) == m.extent # 0

(* get_map_file_json looks the layers of the row up in the file.           *)
FileReadable == row.exists /\ file # NoFile /\ \A ml \in row.layers : ml[2] <= Len(file.layers)

(* map_file_to_metadata_properties: of the layers, those the record has,   *)
(* whoever may read them.                                                  *)
FileValues ==
    [title |-> file.title, extent |-> file.extent,
     operates_on |-> OperatesOn(Uuids(row.layers) \cap {o[1] : o \in record.operates_on})]

(* get_same_or_missing_prop_names; all of them (faulty).                   *)
AllPropNames == Props

(* The title of the map is that of its file, too; what is in one place     *)
(* only is equal.                                                          *)
Equal(p) == record = NoRecord \/ record[p] = FileValues[p]

SameOrMissingPropNames == {p \in Props : Equal(p)}
-----------------------------------------------------------------------------
(* Chains of the map.                                                      *)

(* Order of the sources of a map; the record before the data it is made of *)
(* (faulty).                                                               *)
RecordFirst ==
    << "soap", "write", "soap_end", "file_data", "layers", "thumbnail", "draw", "thumbnail_end" >>

MapTasks ==
    << "file_data", "layers", "thumbnail", "draw", "thumbnail_end", "soap", "write", "soap_end" >>

Publishing(props) == [NoChain EXCEPT !.kind = "publish", !.todo = MapTasks, !.props = props]

FeatureChange == [NoChain EXCEPT !.kind = "features", !.todo = <<"thumbnail", "draw">>]

(* run_next_chain, when the lock has been released.                        *)
RunNext == chain' = (IF later THEN FeatureChange ELSE NoChain) /\ later' = FALSE

(* Nobody knows any more; what an editor wrote stays.                      *)
Unknown(props) == [p \in Props |-> IF p \in props /\ owner[p] \in Actor THEN "anyone" ELSE owner[p]]

Lost == [p \in Props |-> "anyone"]

csw_delete == record' = NoRecord /\ owner' = Lost

(* is_soap_visibility_change_needed                                        *)
VisibilityChanges(m) == record.public # m.public

NothingRead == [op |-> "none", record |-> NoRecord]

(* patch_publication_by_soap: what is to be done to the record; one that   *)
(* is to be seen by others than before is deleted first.                   *)
SoapReads(m, props) ==
    IF record = NoRecord \/ VisibilityChanges(m)
    THEN soap' = [op |-> "insert", record |-> NoRecord] /\ csw_delete
    ELSE /\ soap' = IF props = {} THEN NothingRead ELSE [op |-> "update", record |-> record]
         /\ UNCHANGED <<record, owner>>

(* soap_insert                                                             *)
Inserted(m) ==
    [p \in DOMAIN NoRecord |-> IF p = "public" THEN m.public ELSE PropertyValues(m, actor)[p]]

(* csw.patch_map: the record as it was read, with new values.              *)
Updated(m, props) ==
    [p \in DOMAIN NoRecord |-> IF p \in props THEN PropertyValues(m, actor)[p] ELSE soap.record[p]]

(* The next comparison finds the extent that is written equal to that of   *)
(* the file, unless the row has not got it yet or never got it.            *)
FoundEqual(m, p) == p = "extent" => m.extent = file.extent

SoapWrites(m, props) ==
    /\ soap.op # "none" => HasValues(m)
    /\ record' = CASE soap.op = "none"   -> record
                   [] soap.op = "insert" -> Inserted(m)
                   [] soap.op = "update" -> Updated(m, props)
    /\ owner' = [p \in Props |->
                     IF soap.op = "none" \/ p \notin props \/ owner[p] = "editor" THEN owner[p]
                     ELSE IF FoundEqual(m, p) THEN actor ELSE "anyone"]
    /\ soap' = NothingRead
-----------------------------------------------------------------------------
(* Requests.                                                               *)

Init ==
    /\ row = NoRow /\ file = NoFile /\ thumbnail = NoThumbnail /\ record = NoRecord
    /\ layer = [l \in Layer |-> [exists |-> TRUE, title |-> 1, readers |-> Actor, features |-> 1,
                                 chain |-> "none", again |-> FALSE]]
    /\ request = NoRequest /\ actor \in Actor /\ edited = NoRecord /\ soap = NothingRead
    /\ chain = NoChain /\ later = FALSE /\ owner = Lost /\ broken = FALSE
    /\ requests = 0 /\ changes = 0 /\ edits = 0 /\ failures = 0

Comes ==
    /\ request.todo = <<>> /\ requests < MaxRequests /\ requests' = requests + 1
    /\ actor' \in Actor
    /\ UNCHANGED <<stores, layer, soap, later, owner, broken, edited, changes, edits, failures>>

(* The new row gets its title and access rights; a file what it is sent    *)
(* with.                                                                   *)
New(m, public)  == [m EXCEPT !.exists = TRUE, !.title = requests + 1, !.public = public]
NewFile(layout) == [title |-> requests + 1, extent |-> requests + 1, layers |-> layout]

Post(layout, public) ==
    /\ Comes /\ ~row.exists /\ ~Locked
    /\ request' = [todo |-> <<"save", "insert", "input_file", "end">>, new |-> New(NoRow, public),
                   file |-> NewFile(layout), props |-> Props]
    /\ UNCHANGED chain

(* What PATCH does; layouts has the file it is sent with, if any.          *)
PatchSteps(layouts) ==
    IF layouts = {} THEN <<"compare", "table", "input_file", "soap", "write", "end">>
    ELSE <<"compare", "delete_thumbnail", "save", "table", "input_file", "soap", "write", "end">>

(* A chain of patch_after_feature_change is aborted, and queued again.     *)
Patch(layouts, public) ==
    /\ Comes /\ row.exists /\ chain.kind # "publish"
    /\ chain' = [chain EXCEPT !.aborted = chain.kind # "none"]
    /\ request' =
        [todo |-> (IF chain.kind # "none" THEN <<"push">> ELSE <<>>) \o PatchSteps(layouts),
         new |-> New(NoRow, public),
         file |-> IF layouts = {} THEN NoFile ELSE NewFile(CHOOSE f \in layouts : TRUE), props |-> {}]

Delete ==
    /\ Comes /\ row.exists
    /\ chain' = [chain EXCEPT !.aborted = chain.kind # "none"]
    /\ request' = [NoRequest EXCEPT !.todo =
        <<"clear", "delete_record", "delete_thumbnail", "delete_bbox", "delete_file",
          "delete_layers", "delete_row", "end">>]

(* The step of the request that is next, when the chain it aborts has      *)
(* ended.                                                                  *)
Step(s) ==
    /\ request.todo # <<>> /\ Head(request.todo) = s /\ chain.kind = "none"
    /\ UNCHANGED <<layer, inputs>>

Goes == request' = [request EXCEPT !.todo = Tail(@)]

(* Steps of solve_locks and abort_publication_chain.                       *)
Queues ==
    \E s \in {"push", "clear"} :
        /\ Step(s) /\ Goes /\ later' = (s = "push")
        /\ UNCHANGED <<stores, soap, chain, owner, broken>>

(* Map(uuid) is loaded, and compared with its file and record.             *)
Compare ==
    /\ Step("compare") /\ FileReadable
    /\ request' = [request EXCEPT !.todo = Tail(@), !.props = SameOrMissingPropNames,
                                  !.new = [row EXCEPT !.title = request.new.title,
                                                      !.public = request.new.public]]
    /\ UNCHANGED <<stores, soap, chain, later, owner, broken>>

SaveFile ==
    /\ Step("save") /\ Goes /\ file' = request.file
    /\ UNCHANGED <<row, thumbnail, record, soap, chain, later, owner, broken>>

Table ==
    \E s \in {"insert", "table"} :
        /\ Step(s) /\ Goes
        /\ row' = IF s = "insert" THEN request.new
                  ELSE [row EXCEPT !.title = request.new.title, !.public = request.new.public]
        /\ UNCHANGED <<file, thumbnail, record, soap, chain, later, owner, broken>>

InputFile ==
    /\ Step("input_file") /\ Goes /\ file # NoFile
    /\ file' = [file EXCEPT !.title = request.new.title]
    /\ UNCHANGED <<row, thumbnail, record, soap, chain, later, owner, broken>>

(* The clone has the layers and the extent the map had when it was loaded. *)
RequestReadsRecord ==
    /\ Step("soap") /\ Goes /\ SoapReads(request.new, request.props)
    /\ UNCHANGED <<row, file, thumbnail, chain, later, broken>>

RequestWritesRecord ==
    /\ Step("write") /\ Goes /\ SoapWrites(request.new, request.props)
    /\ UNCHANGED <<row, file, thumbnail, chain, later, broken>>

DeleteSource ==
    \E s \in {"delete_record", "delete_thumbnail", "delete_bbox", "delete_file", "delete_layers", "delete_row"} :
        /\ Step(s) /\ Goes
        /\ record' = IF s = "delete_record" THEN NoRecord ELSE record
        /\ owner' = IF s = "delete_record" THEN Lost ELSE owner
        /\ thumbnail' = IF s = "delete_thumbnail" THEN NoThumbnail ELSE thumbnail
        /\ file' = IF s = "delete_file" THEN NoFile ELSE file
        /\ row' = CASE s = "delete_bbox"   -> [row EXCEPT !.extent = 0]
                    [] s = "delete_layers" -> [row EXCEPT !.layers = {}]
                    [] s = "delete_row"    -> NoRow
                    [] OTHER -> row
        /\ UNCHANGED <<soap, chain, later, broken>>

(* The chain is sent; without one, the map is unlocked.                    *)
RequestEnds ==
    /\ Step("end") /\ request' = NoRequest
    /\ IF request.file # NoFile
       THEN chain' = Publishing(request.props) /\ UNCHANGED later
       ELSE RunNext
    /\ UNCHANGED <<stores, soap, owner, broken>>

(* Something raises: the failures there may be, and those there must be.   *)
Raises(must) == must \/ failures < MaxFailures
Counted(must) ==
    /\ failures' = IF must THEN failures ELSE failures + 1
    /\ UNCHANGED <<actor, edited, requests, changes, edits>>

RequestMustRaise ==
    CASE Head(request.todo) = "compare"    -> ~FileReadable
      [] Head(request.todo) = "input_file" -> file = NoFile
      [] Head(request.todo) = "write"      -> soap.op # "none" /\ ~HasValues(request.new)
      [] OTHER -> FALSE

RequestFails ==
    /\ request.todo # <<>> /\ chain.kind = "none"
    /\ Raises(RequestMustRaise) /\ Counted(RequestMustRaise)
    /\ request' = NoRequest /\ RunNext
    /\ soap' = NothingRead
    /\ owner' = Unknown(Props) /\ broken' = TRUE
    /\ UNCHANGED <<stores, layer>>
-----------------------------------------------------------------------------
(* Tasks.                                                                  *)

Task(s) ==
    /\ chain.kind # "none" /\ chain.todo # <<>> /\ Head(chain.todo) = s
    /\ UNCHANGED <<request, later, layer, inputs>>

Done == chain' = [chain EXCEPT !.todo = Tail(@)]

(* A task looks whether it is aborted when it starts.                      *)
Starts(s) == Task(s) /\ ~chain.aborted

refresh_file_data ==
    /\ Starts("file_data") /\ Done /\ row' = [row EXCEPT !.extent = file.extent]
    /\ UNCHANGED <<file, thumbnail, record, soap, owner, broken>>

(* ensure_internal_layers, one row at a time.                              *)
ensure_internal_layers ==
    /\ Task("layers")
    /\ IF LayersOf(file) \subseteq row.layers
       THEN IF row.layers \subseteq LayersOf(file) THEN Done /\ UNCHANGED row
            ELSE /\ \E ml \in row.layers \ LayersOf(file) : row' = [row EXCEPT !.layers = @ \ {ml}]
                 /\ UNCHANGED chain
       ELSE /\ \E ml \in LayersOf(file) \ row.layers : row' = [row EXCEPT !.layers = @ \cup {ml}]
            /\ UNCHANGED chain
    /\ UNCHANGED <<file, thumbnail, record, soap, owner, broken>>

Drawable == FileReadable /\ \A l \in Uuids(LayersOf(file)) : layer[l].exists

Features == [l \in Layer |-> IF l \in Uuids(LayersOf(file)) THEN layer[l].features ELSE 0]

(* generate_map_thumbnail: the browser reads the file and draws the        *)
(* layers; the picture is written.                                         *)
refresh_thumbnail ==
    /\ Starts("thumbnail") /\ Drawable
    /\ chain' = [chain EXCEPT !.todo = Tail(@),
                              !.shown = [extent |-> file.extent, features |-> Features]]
    /\ broken' = (broken /\ chain.kind # "publish")
    /\ UNCHANGED <<stores, soap, owner>>

Draw ==
    /\ Task("draw") /\ Done /\ thumbnail' = chain.shown
    /\ UNCHANGED <<row, file, record, soap, owner, broken>>

(* After POST there is no record, and one is inserted.                     *)
refresh_soap ==
    /\ Starts("soap") /\ Done /\ SoapReads(Loaded, chain.props)
    /\ UNCHANGED <<row, file, thumbnail, broken>>

WriteRecord ==
    /\ Task("write") /\ Done /\ SoapWrites(Loaded, chain.props)
    /\ UNCHANGED <<row, file, thumbnail, broken>>

TaskEnds ==
    \E s \in {"thumbnail_end", "soap_end"} :
        /\ Task(s) /\ Done
        /\ thumbnail' = IF s = "thumbnail_end" /\ chain.aborted THEN NoThumbnail ELSE thumbnail
        /\ record' = IF s = "soap_end" /\ chain.aborted THEN NoRecord ELSE record
        /\ owner' = IF s = "soap_end" /\ chain.aborted THEN Lost ELSE owner
        /\ UNCHANGED <<row, file, soap, broken>>

TaskMustRaise ==
    CASE Head(chain.todo) = "thumbnail" -> ~Drawable
      [] Head(chain.todo) = "write"     -> soap.op # "none" /\ ~HasValues(Loaded)
      [] OTHER -> FALSE

(* A failure drops the steps that are queued, too.                         *)
TaskFails ==
    /\ chain.kind # "none" /\ chain.todo # <<>> /\ ~chain.aborted
    /\ Raises(TaskMustRaise) /\ Counted(TaskMustRaise)
    /\ chain' = NoChain /\ later' = FALSE
    /\ soap' = NothingRead
    /\ owner' = IF chain.kind = "publish" THEN Unknown(Props) ELSE owner
    /\ broken' = TRUE
    /\ UNCHANGED <<stores, layer, request>>

BetweenTasks == IF chain.todo = <<>> THEN TRUE ELSE Head(chain.todo) \in {"file_data", "thumbnail", "soap"}

(* An aborted chain stops at the start of a task, and runs nothing next.   *)
ChainEnds ==
    /\ chain.kind # "none"
    /\ \/ chain.todo = <<>> /\ ~chain.aborted /\ RunNext /\ UNCHANGED <<broken, owner>>
       \/ /\ chain.aborted /\ BetweenTasks
          /\ chain' = NoChain /\ UNCHANGED later
          /\ IF chain.kind = "publish" THEN broken' = TRUE /\ owner' = Unknown(Props)
             ELSE UNCHANGED <<broken, owner>>
    /\ UNCHANGED <<stores, layer, request, soap, inputs>>
-----------------------------------------------------------------------------
(* Layers and the catalogue.                                               *)

Changes ==
    /\ changes < MaxChanges /\ changes' = changes + 1
    /\ UNCHANGED <<stores, request, soap, chain, later, broken, actor, edited, requests, edits, failures>>

(* WFS-T: a chain of the layer, or one more after it.                      *)
ChangeFeatures(l) ==
    /\ Changes /\ layer[l].exists
    /\ layer' = [layer EXCEPT ![l].features = @ + 1, ![l].again = layer[l].chain # "none",
                              ![l].chain = IF @ = "none" THEN "running" ELSE @]
    /\ UNCHANGED owner

(* PATCH of the title and the access rights, or DELETE.                    *)
ChangeLayer(l) ==
    /\ Changes /\ layer[l].exists /\ layer[l].chain = "none"
    /\ \/ \E readers \in SUBSET Actor :
               layer' = [layer EXCEPT ![l].title = @ + 1, ![l].readers = readers]
       \/ layer' = [layer EXCEPT ![l].exists = FALSE]
    /\ owner' = Unknown({"operates_on"})

NextOfLayer(l) ==
    layer' = [layer EXCEPT ![l].chain = IF layer[l].again THEN "running" ELSE "none",
                           ![l].again = FALSE]

(* used_in_maps                                                            *)
UsedInMap(l) == l \in Uuids(row.layers)

LayerChainEnds(l) ==
    /\ layer[l].chain = "running"
    /\ IF UsedInMap(l) THEN layer' = [layer EXCEPT ![l].chain = "notify"] ELSE NextOfLayer(l)
    /\ UNCHANGED <<stores, request, soap, chain, later, owner, broken, inputs>>

LayerChainFails(l) ==
    /\ layer[l].chain = "running" /\ Raises(FALSE) /\ Counted(FALSE)
    /\ layer' = [layer EXCEPT ![l].chain = "none", ![l].again = FALSE]
    /\ broken' = TRUE
    /\ UNCHANGED <<stores, request, soap, chain, later, owner>>

(* patch_after_feature_change of the map, when the map is locked; the step *)
(* is dropped (faulty).                                                    *)
StepDropped(l) == NextOfLayer(l)

StepLater(l) == layer' = [layer EXCEPT ![l].chain = "push"]

patch_after_feature_change(l) ==
    /\ layer[l].chain = "notify"
    /\ IF Locked THEN StepLater(l) /\ UNCHANGED chain
       ELSE chain' = FeatureChange /\ NextOfLayer(l)
    /\ UNCHANGED <<stores, request, soap, later, owner, broken, inputs>>

(* The map may have been unlocked since.                                   *)
push_step_to_run_after_chain(l) ==
    /\ layer[l].chain = "push" /\ later' = TRUE /\ NextOfLayer(l)
    /\ UNCHANGED <<stores, request, soap, chain, owner, broken, inputs>>

(* What an editor of the catalogue makes of a property: another title or   *)
(* extent; one entry of operates_on more, or less.                         *)
Edits(p) ==
    IF p = "operates_on"
    THEN {record[p] \cup {Foreign}} \cup {record[p] \ {entry} : entry \in record[p]}
    ELSE {-1}

(* The entries of the map's layers that are missing are not missed.        *)
Noticed(p, value) == p = "operates_on" => Foreign \in value

EditRecord(p) ==
    /\ edits < MaxEdits /\ edits' = edits + 1 /\ record # NoRecord
    /\ \E value \in Edits(p) :
           /\ record' = [record EXCEPT ![p] = value]
           /\ IF request.todo = <<>> /\ chain.kind # "publish" /\ Noticed(p, value)
              THEN owner' = [owner EXCEPT ![p] = "editor"] /\ edited' = [edited EXCEPT ![p] = value]
              ELSE owner' = [owner EXCEPT ![p] = "anyone"] /\ UNCHANGED edited
    /\ UNCHANGED <<row, file, thumbnail, layer, request, soap, chain, later, broken,
                   actor, requests, changes, failures>>

Next ==
    \/ \E layout \in Layouts, public \in BOOLEAN : Post(layout, public)
    \/ \E layouts \in {{}} \cup {{f} : f \in Layouts}, public \in BOOLEAN : Patch(layouts, public)
    \/ Delete
    \/ Queues \/ Compare \/ SaveFile \/ Table \/ InputFile \/ RequestReadsRecord
    \/ RequestWritesRecord \/ DeleteSource \/ RequestEnds \/ RequestFails
    \/ refresh_file_data \/ ensure_internal_layers \/ refresh_thumbnail \/ Draw
    \/ refresh_soap \/ WriteRecord \/ TaskEnds \/ TaskFails \/ ChainEnds
    \/ \E l \in Layer :
           \/ ChangeFeatures(l) \/ ChangeLayer(l) \/ LayerChainEnds(l) \/ LayerChainFails(l)
           \/ patch_after_feature_change(l) \/ push_step_to_run_after_chain(l)
    \/ \E p \in Props : EditRecord(p)

Spec == Init /\ [][Next]_vars
-----------------------------------------------------------------------------
(* When neither the map nor its layers are worked on, nothing is queued,   *)
(* and nothing has failed since the map was published, the thumbnail shows *)
(* the map file and the features of its layers as they are now: every      *)
(* change of a layer reaches the maps that show it, however it meets their *)
(* requests and chains.                                                    *)
ThumbnailCurrent ==
    row.exists /\ ~Locked /\ ~later /\ ~broken /\ (\A l \in Layer : layer[l].chain = "none") =>
        /\ thumbnail.extent = file.extent
        /\ \A l \in Uuids(LayersOf(file)) : layer[l].exists => thumbnail.features[l] = layer[l].features

(* What an editor of the catalogue wrote into the record while the map was *)
(* not worked on stays as it is, whatever is done to the map, as long as   *)
(* the record is not made anew; but for an editor who only takes layers    *)
(* out of operates_on: that is not noticed, and they are written again.  A *)
(* property that Layman wrote last, in a request or chain that succeeded,  *)
(* has the value the map has now in the prime DB schema, of operates_on    *)
(* the layers that the user of that request may read, unless a layer was   *)
(* changed or deleted, or the extent was written while the row had not     *)
(* that of the file.                                                       *)
RecordKept ==
    \A p \in Props :
        /\ owner[p] = "editor" => record[p] = edited[p]
        /\ owner[p] \in Actor /\ ~Locked =>
               /\ record # NoRecord
               /\ record[p] = PropertyValues(row, owner[p])[p]
=============================================================================
