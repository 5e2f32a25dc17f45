---------------------------- MODULE LayerSources ----------------------------
(***************************************************************************)
(* What the requests and tasks of one layer do to its internal sources     *)
(* (layman/layer/__init__.py): the row of the prime DB schema, files, the  *)
(* table, layers and styles of GeoServer and QGIS Server, the thumbnail    *)
(* and the record of Micka.  The sources are ordered: each is made from    *)
(* those before it.  POST makes them in order, DELETE deletes them in      *)
(* reverse order, PATCH deletes them in reverse order down to the first    *)
(* one that is to change, and makes them again.                            *)
(*                                                                         *)
(* One request edits the layer at a time (LayerChain is about what happens *)
(* otherwise); WFS-T comes at any time.  A step is one source handled by a *)
(* request, or one task.  Data, titles and styles are versions, numbered   *)
(* by "clock"; what a source was made from is recorded by version.         *)
(***************************************************************************)
EXTENDS Integers, Sequences, SequencesExt

CONSTANTS
    None,
    MaxClock,     \* bound of the number of requests
    MayRaise,     \* who may fail: a subset of {"post", "patch", "delete", "task"}
    MayOutlive    \* whether a task that waits for a server may outlive its abortion

ASSUME MaxClockAssumption == MaxClock \in Nat \ {0}
ASSUME MayRaiseAssumption == MayRaise \subseteq {"post", "patch", "delete", "task"}
ASSUME MayOutliveAssumption == MayOutlive \in BOOLEAN

VARIABLES
    row,        \* the row of the layer in the prime DB schema
    made,       \* what each other source was made from
    external,   \* version of the data of the external table
    req,        \* the request that edits the layer, with the steps it has left
    chain,      \* the last chain of tasks, with the tasks it has left
    again,      \* patch_after_feature_change is queued behind the chain
    clock,      \* number of requests so far
    survivor,   \* a task that still runs although it was aborted
    broken,     \* history: has a request or a task of the layer failed?
    outlived    \* history: has a task of the layer outlived its abortion?

vars == <<row, made, external, req, chain, again, clock, survivor, broken, outlived>>

-----------------------------------------------------------------------------
(* Sources and what they are made from.                                    *)

Order == << "row", "input_chunk", "input_file", "input_style", "gdal", "table", "file_data",
              "qgis", "wfs", "wms", "sld", "status", "thumbnail", "soap" >>

Sources == ToSet(Order)

(* The sources that are not columns of the row. *)
Products == Sources \ {"row", "file_data", "status"}

(* Faulty: without the thumbnail. *)
RefreshableButThumbnail == Sources \ {"row", "input_file", "input_style", "thumbnail"}

(* The sources with a task "refresh". *)
Refreshable == Sources \ {"row", "input_file", "input_style"}

From(s) == {Order[i] : i \in {j \in DOMAIN Order : \E k \in 1 .. j : Order[k] = s}}

Before(s) == Sources \ From(s)

(* The first member of a set in an order of its members.                   *)
First(order, S) == order[CHOOSE i \in DOMAIN order : order[i] \in S /\ \A j \in 1 .. i - 1 : order[j] \notin S]

Versions == 1 .. MaxClock

FileKinds == {"vector", "gray", "rgb"}

GeodataOf(kind) == IF kind = "vector" THEN "vector" ELSE "raster"

(* Styles are sent by users, or made by Layman for grayscale rasters, or   *)
(* the generic style of GeoServer.                                         *)
UserStyle(lang, v) == [lang |-> lang, by |-> "user", v |-> v]
LaymanStyle(v)     == [lang |-> "sld", by |-> "layman", v |-> v]
GenericStyle       == [lang |-> "sld", by |-> "geoserver", v |-> 0]

(* The type of a layer without a style is SLD, too. *)
Lang(style) == IF style = None THEN "sld" ELSE style.lang

NothingMade == [s \in Products |-> None]

NoBbox == 0

HasTable == row.source = "TABLE" \/ made["table"] # None

(* The data that GeoServer and QGIS Server render now, and their extent. *)
Data == IF row.source = "TABLE" THEN external
        ELSE IF row.geodata = "vector" THEN made["table"] ELSE made["gdal"]

(* The style in use: that of the QGIS project, or that of GeoServer. *)
StyleInUse == IF made["qgis"] # None THEN made["qgis"].style ELSE made["sld"]

DbStore == IF row.source = "TABLE" THEN "external" ELSE "internal"

(* The store from which WMS is published. *)
WmsStore == IF row.geodata = "raster" THEN "coverage"
            ELSE IF row.style = "qml" THEN "qgis" ELSE DbStore

Published(store) == [store |-> store, title |-> row.title, bbox |-> row.bbox]

(* Properties of the metadata record that are kept in sync.                *)
Props == {"title", "extent"}

Value(r, prop) == IF prop = "title" THEN r.title ELSE r.bbox

InSync(prop) == made["soap"][prop] = Value(row, prop)

-----------------------------------------------------------------------------
(* Chains.                                                                 *)

Running == chain.state = "running"

NoChain == [state |-> "none", how |-> "publish", tasks |-> {}, refresh |-> {}, whole |-> FALSE]

PublishingChain(how, start, refresh) ==
    [state |-> "running", how |-> how,
     tasks |-> From(start) \cap Refreshable,
     refresh |-> refresh, whole |-> start \in {"input_chunk", "input_file"}]

(* The tasks patch_after_feature_change, of the sources that have one. *)
FeaturesChain ==
    [state |-> "running", how |-> "features",
     tasks |-> {"file_data", "qgis", "wfs", "wms", "thumbnail", "soap"},
     refresh |-> {"extent"}, whole |-> FALSE]

(* Faulty: the queue is not looked at. *)
ForgetQueued(finished) == finished

(* The chain after one that has finished: the queued step, if there is one. *)
ThenQueued(finished) == IF again THEN FeaturesChain ELSE finished

(* The task the chain has come to. *)
Task == First(Order, chain.tasks)

-----------------------------------------------------------------------------
(* Tasks.  What a task does is given as the set of the states it may leave *)
(* the layer in; the set is empty if the task raises an exception.         *)

State(r, m) == [row |-> r, made |-> m]

Unchanged == State(row, made)

Making(s, x) == State(row, [made EXCEPT ![s] = x])

Setting(r) == State(r, made)

(* The state, if what the task needs is there. *)
Given(needed, state) == IF needed THEN {state} ELSE {}

(* All chunks of the file are there, and are put together... *)
ChunksMerged == State(row, [made EXCEPT !["input_chunk"] = None, !["input_file"] = made["input_chunk"]])

(* ... and the file is checked. *)
RefreshInputChunk ==
    LET file == made["input_chunk"] IN
    Given(file # None /\ ~(GeodataOf(file.kind) = "raster" /\ row.style = "qml"), ChunksMerged)

FileIs(geodata) == made["input_file"] # None /\ GeodataOf(made["input_file"].kind) = geodata

RefreshGdal ==
    IF row.source = "TABLE" \/ FileIs("vector")
    THEN {Unchanged}
    ELSE Given(FileIs("raster"), Making("gdal", made["input_file"].v))

RefreshTable ==
    IF row.source = "TABLE" \/ FileIs("raster")
    THEN {Unchanged}
    ELSE Given(FileIs("vector"), Making("table", made["input_file"].v))

(* The type of a zipped file is known when it is there. *)
RefreshFileData ==
    LET geodata == IF row.geodata # "unknown" THEN row.geodata
                   ELSE GeodataOf(made["input_file"].kind)
        data == IF row.source = "TABLE" THEN external
                ELSE IF geodata = "vector" THEN made["table"] ELSE made["gdal"] IN
    Given(data # None, Setting([row EXCEPT !.geodata = geodata, !.bbox = data]))

(* save_qgs_file *)
QgisProject == [style |-> made["input_style"], title |-> row.title, bbox |-> row.bbox, store |-> DbStore]

SaveQgis ==
    IF row.style # "qml"
    THEN {Unchanged}
    ELSE Given(HasTable /\ row.bbox # NoBbox /\ Lang(made["input_style"]) = "qml",
               Making("qgis", QgisProject))

(* Faulty: the extent of the layer may be missing. *)
RefreshWfsAnyExtent ==
    IF row.geodata = "raster"
    THEN {Unchanged}
    ELSE Given(row.geodata = "vector" /\ HasTable /\ made["wfs"] = None,
               Making("wfs", Published(DbStore)))

RefreshWfs ==
    IF row.geodata = "raster"
    THEN {Unchanged}
    ELSE Given(row.geodata = "vector" /\ HasTable /\ row.bbox # NoBbox /\ made["wfs"] = None,
               Making("wfs", Published(DbStore)))

RefreshWms ==
    Given(/\ row.bbox # NoBbox
          /\ row.geodata # "unknown"
          /\ made["wms"] = None
          /\ row.geodata = "raster" => made["gdal"] # None
          /\ row.geodata = "vector" => HasTable
          /\ WmsStore = "qgis" => made["qgis"] # None,
          Making("wms", Published(WmsStore)))

(* ensure_custom_sld_file_if_needed: Layman makes a style of its own for a *)
(* grayscale raster without a style.                                       *)
GeneratesStyle ==
    /\ made["input_style"] = None
    /\ row.geodata = "raster"
    /\ made["input_file"].kind = "gray"

RefreshSld ==
    LET saved == IF GeneratesStyle THEN LaymanStyle(made["gdal"]) ELSE made["input_style"] IN
    IF row.style = "qml"
    THEN {Unchanged}
    ELSE Given(made["sld"] = None /\ made["wms"] # None,
               State(row, [made EXCEPT !["input_style"] = saved,
                                       !["sld"] = IF saved = None THEN GenericStyle ELSE saved]))

RefreshStatus == {Setting([row EXCEPT !.status = "AVAILABLE"])}

(* generate_layer_thumbnail asks GeoServer for a picture of the layer. *)
MakeThumbnail ==
    Given(made["wms"] # None, Making("thumbnail", [data |-> Data, style |-> StyleInUse]))

Record(r) == [prop \in Props |-> Value(r, prop)]

(* csw.patch_layer of a layer whose row was r; without a record, one is    *)
(* inserted.                                                               *)
PatchedRecord(r, refresh) ==
    IF made["soap"] = None THEN Record(r)
    ELSE [prop \in Props |-> IF prop \in refresh THEN Value(r, prop) ELSE made["soap"][prop]]

(* get_template_path_and_values *)
HasValues == made["wms"] # None /\ row.bbox # NoBbox /\ row.geodata # "unknown"

(* If access rights were sent, others than before may have to see the      *)
(* record: it is deleted and made anew.                                    *)
MadeAnew == IF chain.how = "publish" THEN Given(HasValues, Making("soap", Record(row))) ELSE {}

(* patch_publication_by_soap *)
RefreshSoap ==
    MadeAnew \cup
    IF made["soap"] # None /\ chain.refresh = {} THEN {Unchanged}
    ELSE Given(HasValues, Making("soap", PatchedRecord(row, chain.refresh)))

(* Tasks refresh of the sources. *)
Refresh(s) ==
    CASE s = "input_chunk" -> RefreshInputChunk
      [] s = "gdal"        -> RefreshGdal
      [] s = "table"       -> RefreshTable
      [] s = "file_data"   -> RefreshFileData
      [] s = "qgis"        -> SaveQgis
      [] s = "wfs"         -> RefreshWfs
      [] s = "wms"         -> RefreshWms
      [] s = "sld"         -> RefreshSld
      [] s = "status"      -> RefreshStatus
      [] s = "thumbnail"   -> MakeThumbnail
      [] s = "soap"        -> RefreshSoap

(* patch_feature_type, or patch_wms_layer: new extent of a layer that is   *)
(* published from the store.                                               *)
Extended(s, store) ==
    Given(made[s] # None /\ made[s].store = store, Making(s, [made[s] EXCEPT !.bbox = row.bbox]))

(* Tasks patch_after_feature_change of the sources. *)
FeaturesChanged(s) ==
    CASE s = "file_data" -> Given(row.geodata = "vector" /\ Data # None,
                                  Setting([row EXCEPT !.bbox = Data]))
      [] s = "qgis"      -> SaveQgis
      [] s = "wfs"       -> IF row.geodata = "raster" THEN {Unchanged} ELSE Extended(s, DbStore)
      [] s = "wms"       -> IF row.geodata = "vector" THEN Extended(s, WmsStore) ELSE {}
      [] s = "thumbnail" -> MakeThumbnail
      [] s = "soap"      -> RefreshSoap

Results(s) == IF chain.how = "features" THEN FeaturesChanged(s) ELSE Refresh(s)

-----------------------------------------------------------------------------
(* Requests.                                                               *)

Step(do, s) == [do |-> do, on |-> s]

Steps(do, sources) == {Step(do, s) : s \in sources}

(* Faulty: sources are deleted in the order they are made. *)
DeletesForward == [i \in DOMAIN Order |-> Step("delete", Order[i])]

(* delete_layer *)
Deletes == [i \in DOMAIN Order |-> Step("delete", Order[Len(Order) + 1 - i])]

(* The order of the steps of any request: sources are deleted, files are   *)
(* saved, sources posted or patched, the chain started.                    *)
Schedule == Deletes \o << Step("save", "row"), Step("post", "row"), Step("patch", "row"),
                          Step("patch", "wfs"), Step("patch", "wms"), Step("start", "row") >>

(* Data that a client may send: a file, in the request or in chunks after  *)
(* it (the type of a zipped one is not known before), or an external table.*)
Table == [source |-> "TABLE", file |-> None, late |-> FALSE, geodata |-> "vector"]

SentFiles(v) ==
    { [source |-> "FILE", file |-> [kind |-> kind, v |-> v], late |-> late, geodata |-> geodata] :
      kind \in FileKinds, late \in BOOLEAN, geodata \in {"vector", "raster", "unknown"} }

Files(v) ==
    { data \in SentFiles(v) :
        \/ data.geodata = GeodataOf(data.file.kind)
        \/ data.late /\ data.geodata = "unknown" }

SentStyles(v) == {None} \cup {UserStyle(lang, v) : lang \in {"sld", "qml"}}

(* style: that was sent; kept: that was deleted with its source; inUse is  *)
(* history: the style in use when the request came.                        *)
Request(how, data, style, todo, refresh, start) ==
    [how |-> how, todo |-> todo, title |-> clock + 1, data |-> data, style |-> style,
     kept |-> None, inUse |-> IF row = None THEN None ELSE StyleInUse,
     refresh |-> refresh, start |-> start]

IsAllowed(data, styleType) == ~(data.geodata = "raster" /\ styleType = "qml")

Tick == clock < MaxClock /\ clock' = clock + 1

Start(data, from) == IF data.late THEN "input_chunk" ELSE from

(* post of rest_layers.py; the layer gets a uuid that nothing has been     *)
(* made for.                                                               *)
Post ==
    /\ row = None /\ req = None /\ ~Running /\ survivor = None
    /\ Tick
    /\ \E data \in Files(clock + 1) \cup {Table}, style \in SentStyles(clock + 1) :
         /\ IsAllowed(data, Lang(style))
         /\ req' = Request("post", data, style,
                           {Step("save", "row"), Step("post", "row"), Step("start", "row")},
                           Props, Start(data, "input_file"))
    /\ made' = NothingMade
    /\ chain' = NoChain
    /\ broken' = FALSE
    /\ outlived' = FALSE
    /\ UNCHANGED <<row, external, again, survivor>>

(* What a PATCH of the layer deletes from, if it deletes: a layer of an    *)
(* external table is always made again.                                    *)
PatchFrom(data, style) ==
    IF data.file # None \/ data.source = "TABLE" THEN "input_file"
    ELSE IF style # None THEN "qgis" ELSE "soap"

(* get_metadata_comparison: the values of GeoServer, of Micka if it has a  *)
(* record, and, of title only, that of the row.                            *)
PublishedValue(s, prop) == IF made[s] = None THEN None ELSE Value(made[s], prop)

Compared(prop) ==
    (IF prop = "title" THEN {row.title} ELSE {})
      \cup {PublishedValue("wms", prop)}
      \cup (IF row.geodata = "vector" THEN {PublishedValue("wfs", prop)} ELSE {})
      \cup (IF made["soap"] # None THEN {made["soap"][prop]} ELSE {})

(* get_same_or_missing_prop_names *)
SameOrMissing == {prop \in Props : \A a, b \in Compared(prop) : a = b}

(* The record of Micka is not deleted by PATCH (patch_mode.NO_DELETE).     *)
StepsOfPatch(from) ==
    (IF from # "soap" THEN Steps("delete", From(from) \ {"soap"}) \cup {Step("save", "row")} ELSE {})
      \cup Steps("patch", Before(from) \cap {"row", "wfs", "wms"}) \cup {Step("start", "row")}

(* States an aborted chain may leave the layer in: its first unfinished    *)
(* task did not start, did all, or noticed and deleted what it had made.   *)
Aborting ==
    IF ~Running THEN {Unchanged}
    ELSE LET s == Task IN
         {Unchanged} \cup Results(s)
           \cup (IF chain.how # "features" /\ s \in Products
                 THEN {Making(IF s = "input_chunk" THEN "input_file" ELSE s, None)}
                 ELSE {})

(* The aborted task of Micka may be waiting for the server, and then it    *)
(* goes on, with the row it has read.                                      *)
Survivors ==
    {survivor} \cup
    (IF MayOutlive /\ Running /\ chain.how = "features" /\ Task = "soap"
     THEN {[row |-> row, wrote |-> FALSE]}
     ELSE {})

Abort ==
    /\ \E state \in Aborting : row' = state.row /\ made' = state.made
    /\ chain' = IF Running THEN [chain EXCEPT !.state = "aborted"] ELSE chain
    /\ survivor' \in Survivors
    /\ survivor' # survivor => made' = made
    /\ outlived' = (outlived \/ survivor' # survivor)

(* patch of rest_layer.py; a running patch_after_feature_change is aborted *)
(* and queued by the lock.  Every PATCH sends a title.                     *)
Patch ==
    /\ row # None /\ req = None
    /\ Running => chain.how = "features"
    /\ Tick
    /\ Abort
    /\ again' = (again \/ Running)
    /\ \E data \in Files(clock + 1)
                     \cup {Table, [source |-> row.source, file |-> None, late |-> FALSE,
                                   geodata |-> row.geodata]},
          style \in SentStyles(clock + 1) :
         LET from == PatchFrom(data, style) IN
         /\ IsAllowed(data, IF style # None THEN style.lang ELSE row.style)
         /\ req' = Request("patch", data, style, StepsOfPatch(from), SameOrMissing',
                           Start(data, from))
    /\ UNCHANGED <<external, broken>>

(* Faulty: the record of Micka is left out, like in PATCH. *)
DeleteWithoutSoap ==
    /\ row # None /\ req = None
    /\ Tick
    /\ Abort
    /\ again' = FALSE
    /\ req' = Request("delete", None, None, Steps("delete", Sources \ {"soap"}), {}, None)
    /\ UNCHANGED <<external, broken>>

(* delete_layer of rest_layer.py *)
Delete ==
    /\ row # None /\ req = None
    /\ Tick
    /\ Abort
    /\ again' = FALSE
    /\ req' = Request("delete", None, None, Steps("delete", Sources), {}, None)
    /\ UNCHANGED <<external, broken>>

(* The request does the step whose turn it is, and is over after the last. *)
NextStep == First(Schedule, req.todo)

Doing(do) == req # None /\ NextStep.do = do

On == NextStep.on

Done(r) == IF r.todo = {NextStep} THEN None ELSE [r EXCEPT !.todo = @ \ {NextStep}]

(* Faulty: QGIS Server forgets the style. *)
KeptOnlySld(s) ==
    IF s = "sld" /\ made["sld"] # None THEN made["sld"] ELSE req.kept

(* delete_layer of sld returns the style of GeoServer; that of qgis.wms,   *)
(* which comes later, the file it was made from.                           *)
Kept(s) ==
    CASE s = "sld"  /\ made["sld"] # None         -> made["sld"]
      [] s = "qgis" /\ made["input_style"] # None -> made["input_style"]
      [] OTHER                                    -> req.kept

(* delete_layer of one source. *)
DeleteSource ==
    /\ Doing("delete")
    /\ row' = CASE On = "row"       -> None
                [] On = "file_data" -> [row EXCEPT !.bbox = NoBbox,
                                                   !.geodata = IF row.source = "FILE" THEN "unknown" ELSE @]
                [] OTHER            -> row
    /\ made' = IF On \in Products THEN [made EXCEPT ![On] = None] ELSE made
    /\ req' = Done([req EXCEPT !.kept = Kept(On)])
    /\ UNCHANGED <<external, chain, again, clock, survivor, broken, outlived>>

StyleToSave == IF req.style # None THEN req.style ELSE req.kept

(* The directory of chunks cannot be made if that of an upload that failed *)
(* is there: PATCH does not delete it.                                     *)
CanSave == ~(req.data.late /\ made["input_chunk"] # None)

(* save_layer_file of the style, save_layer_files or save_layer_files_str; *)
(* PATCH then sets the status.                                             *)
Save ==
    /\ Doing("save")
    /\ CanSave
    /\ made' = [made EXCEPT
                  !["input_style"] = StyleToSave,
                  !["input_chunk"] = IF req.data.late THEN req.data.file ELSE @,
                  !["input_file"]  = IF req.data.file = None \/ req.data.late THEN @ ELSE req.data.file]
    /\ row' = IF req.how = "patch" THEN [row EXCEPT !.status = "PREPARING"] ELSE row
    /\ req' = Done(req)
    /\ UNCHANGED <<external, chain, again, clock, survivor, broken, outlived>>

(* What follows when a request raises: the lock is released and the queued *)
(* step is run.                                                            *)
Raised ==
    /\ req' = None
    /\ chain' = ThenQueued(chain)
    /\ again' = FALSE
    /\ broken' = TRUE
    /\ UNCHANGED <<external, clock, survivor, outlived>>

(* The style is saved by then. *)
SaveRaises ==
    /\ Doing("save")
    /\ ~CanSave
    /\ made' = [made EXCEPT !["input_style"] = StyleToSave]
    /\ Raised
    /\ UNCHANGED row

(* post_layer: the row. *)
PostRow ==
    /\ Doing("post")
    /\ row' = [title |-> req.title, style |-> Lang(made["input_style"]), source |-> req.data.source,
               geodata |-> req.data.geodata, bbox |-> NoBbox, status |-> "PREPARING"]
    /\ req' = Done(req)
    /\ UNCHANGED <<made, external, chain, again, clock, survivor, broken, outlived>>

(* patch_layer of the row, of file_data. *)
PatchRow ==
    /\ Doing("patch") /\ On = "row"
    /\ row' = [row EXCEPT !.title = req.title,
                          !.style = IF req.start = "soap" THEN @ ELSE Lang(made["input_style"]),
                          !.source = req.data.source,
                          !.geodata = req.data.geodata]
    /\ req' = Done(req)
    /\ UNCHANGED <<made, external, chain, again, clock, survivor, broken, outlived>>

(* patch_layer of wfs and wms; it raises if GeoServer has the layer in     *)
(* another store.                                                          *)
CanPatchGeoServer ==
    made[On] # None =>
        /\ row.geodata # "unknown"
        /\ made[On].store = IF On = "wfs" THEN DbStore ELSE WmsStore

PatchGeoServer ==
    /\ Doing("patch") /\ On \in {"wfs", "wms"}
    /\ CanPatchGeoServer
    /\ made' = IF made[On] = None THEN made ELSE [made EXCEPT ![On].title = row.title]
    /\ req' = Done(req)
    /\ UNCHANGED <<row, external, chain, again, clock, survivor, broken, outlived>>

(* The chain starts, the request ends. *)
StartChain ==
    /\ Doing("start")
    /\ chain' = PublishingChain("publish", req.start, req.refresh)
    /\ req' = Done(req)
    /\ UNCHANGED <<row, made, external, again, clock, survivor, broken, outlived>>

(* The request raises an exception between two steps. *)
Raise ==
    /\ req # None
    /\ \/ req.how \in MayRaise
       \/ Doing("patch") /\ On \in {"wfs", "wms"} /\ ~CanPatchGeoServer
    /\ Raised
    /\ UNCHANGED <<row, made>>

-----------------------------------------------------------------------------
(* Tasks of the chain, and what happens when it ends.                      *)

Left == chain.tasks \ {Task}

RunTask ==
    /\ Running
    /\ \E state \in Results(Task) : row' = state.row /\ made' = state.made
    /\ chain' = IF Left # {} THEN [chain EXCEPT !.tasks = Left]
                ELSE ThenQueued([chain EXCEPT !.tasks = {}, !.state = "done"])
    /\ again' = (again /\ Left # {})
    /\ UNCHANGED <<external, req, clock, survivor, broken, outlived>>

(* set_wfs_wms_status_after_fail: the status after a failure. *)
StatusAfterFail(state) ==
    IF /\ state.made["wms"] # None
       /\ state.made["sld"] # None \/ state.made["qgis"] # None
       /\ state.row.geodata = "raster" \/ state.made["wfs"] # None
    THEN "AVAILABLE" ELSE "NOT_AVAILABLE"

(* The effects after which a task may raise; chunks are put together       *)
(* before the file is found to be wrong, a record that is made anew is     *)
(* deleted before its values are looked for.                               *)
Effects(s) ==
    {Unchanged} \cup (IF s = "input_chunk" THEN {ChunksMerged} ELSE Results(s))
      \cup (IF s = "soap" /\ chain.how = "publish" THEN {Making("soap", None)} ELSE {})

(* A task raises an exception, because it lacks something or in any other  *)
(* case, before or after its effect.                                       *)
FailTask ==
    /\ Running
    /\ \/ "task" \in MayRaise \/ Results(Task) = {}
       \/ Task = "soap" /\ chain.how = "publish" /\ ~HasValues
    /\ \E state \in Effects(Task) :
         /\ row' = [state.row EXCEPT !.status = StatusAfterFail(state)]
         /\ made' = state.made
    /\ chain' = [chain EXCEPT !.state = "failed"]
    /\ again' = FALSE
    /\ broken' = TRUE
    /\ UNCHANGED <<external, req, clock, survivor, outlived>>

(* A WFS-T changes the data and then asks for patch_after_feature_change:  *)
(* at once, or after what is going on with the layer.                      *)
Transaction ==
    /\ row # None /\ row.geodata = "vector" /\ made["wfs"] # None
    /\ req # None => req.how # "delete"
    /\ Tick
    /\ IF made["wfs"].store = "external"
       THEN external' = clock + 1 /\ made' = made
       ELSE made' = [made EXCEPT !["table"] = clock + 1] /\ external' = external
    /\ IF req # None \/ Running
       THEN again' = TRUE /\ chain' = chain
       ELSE chain' = FeaturesChain /\ again' = again
    /\ UNCHANGED <<row, req, survivor, broken, outlived>>

(* The aborted task writes the record, from the row it has read...         *)
SurvivorWrites ==
    /\ survivor # None /\ ~survivor.wrote
    /\ IF made["wms"] = None
       THEN made' = made /\ survivor' = None
       ELSE /\ made' = [made EXCEPT !["soap"] = PatchedRecord(survivor.row, {"extent"})]
            /\ survivor' = [survivor EXCEPT !.wrote = TRUE]
    /\ UNCHANGED <<row, external, req, chain, again, clock, broken, outlived>>

(* ... and deletes it if the layer does not exist any more.                *)
SurvivorChecks ==
    /\ survivor # None /\ survivor.wrote
    /\ made' = IF row = None THEN [made EXCEPT !["soap"] = None] ELSE made
    /\ survivor' = None
    /\ UNCHANGED <<row, external, req, chain, again, clock, broken, outlived>>

-----------------------------------------------------------------------------
(* Specification.                                                          *)

Init ==
    /\ row = None
    /\ made = NothingMade
    /\ external = 1
    /\ req = None
    /\ chain = NoChain
    /\ again = FALSE
    /\ clock = 1
    /\ survivor = None
    /\ broken = FALSE
    /\ outlived = FALSE

(* A step of the request; what kind it is of is looked at once.            *)
Work ==
    /\ req # None
    /\ \E do \in {NextStep.do} :
         \/ do = "delete" /\ DeleteSource
         \/ do = "save"   /\ (Save \/ SaveRaises)
         \/ do = "post"   /\ PostRow
         \/ do = "patch"  /\ (PatchRow \/ PatchGeoServer)
         \/ do = "start"  /\ StartChain

Next ==
    \/ Post \/ Patch \/ Delete
    \/ Work \/ Raise
    \/ RunTask \/ FailTask
    \/ Transaction
    \/ SurvivorWrites \/ SurvivorChecks

Spec == Init /\ [][Next]_vars

-----------------------------------------------------------------------------
(* Properties.                                                             *)

InputFiles == [kind : FileKinds, v : Versions]

Styles == [lang : {"sld", "qml"}, by : {"user", "layman", "geoserver"}, v : 0 .. MaxClock]

Rows == [title : Versions, style : {"sld", "qml"}, source : {"FILE", "TABLE"},
         geodata : {"vector", "raster", "unknown"}, bbox : 0 .. MaxClock,
         status : {"PREPARING", "AVAILABLE", "NOT_AVAILABLE"}]

Projects == [style : Styles, title : Versions, bbox : Versions, store : {"internal", "external"}]

Layers == [store : {"internal", "external", "qgis", "coverage"}, title : Versions, bbox : Versions]

Thumbnails == [data : Versions, style : {None} \cup Styles]

Records == [title : Versions, extent : Versions]

Datas == [source : {"FILE", "TABLE"}, file : {None} \cup InputFiles, late : BOOLEAN,
          geodata : {"vector", "raster", "unknown"}]

Requests == [how : {"post", "patch", "delete"}, todo : SUBSET ToSet(Schedule), title : Versions,
             data : {None} \cup Datas, style : {None} \cup Styles, kept : {None} \cup Styles,
             inUse : {None} \cup Styles, refresh : SUBSET Props,
             start : {None, "input_chunk", "input_file", "qgis", "soap"}]

Chains == [state : {"none", "running", "done", "failed", "aborted"}, how : {"publish", "features"},
           tasks : SUBSET Refreshable, refresh : SUBSET Props, whole : BOOLEAN]

SurvivingTasks == [row : {r \in Rows : r.bbox # NoBbox}, wrote : BOOLEAN]

ASSUME NoneAssumption ==
    /\ None \notin Nat \cup {"input_chunk", "input_file", "qgis", "soap"}
    /\ None \notin InputFiles /\ None \notin Styles /\ None \notin Rows
    /\ None \notin Projects /\ None \notin Layers /\ None \notin Thumbnails /\ None \notin Records
    /\ None \notin Datas /\ None \notin Requests /\ None \notin SurvivingTasks

ProductsOfType ==
    /\ \A s \in {"input_chunk", "input_file"} : made[s] \in {None} \cup InputFiles
    /\ \A s \in {"input_style", "sld"} : made[s] \in {None} \cup Styles
    /\ \A s \in {"gdal", "table"} : made[s] \in {None} \cup Versions
    /\ made["qgis"] \in {None} \cup Projects
    /\ \A s \in {"wfs", "wms"} : made[s] \in {None} \cup Layers
    /\ made["thumbnail"] \in {None} \cup Thumbnails
    /\ made["soap"] \in {None} \cup Records

(* Every source keeps values of its type: no task and no request leaves a  *)
(* column or a source with a value that the code reading it cannot take,   *)
(* such as a record or a layer of GeoServer made from an empty extent.     *)
TypeOK ==
    /\ row \in {None} \cup Rows
    /\ DOMAIN made = Products
    /\ ProductsOfType
    /\ external \in Versions
    /\ req \in {None} \cup Requests
    /\ chain \in Chains
    /\ survivor \in {None} \cup SurvivingTasks
    /\ clock \in Versions
    /\ again \in BOOLEAN /\ broken \in BOOLEAN /\ outlived \in BOOLEAN

(* The project of QGIS, but for its title, which a PATCH of the title      *)
(* leaves: GeoServer shows its own.                                        *)
ProjectReflects ==
    /\ made["qgis"] # None
    /\ made["qgis"].style = made["input_style"] /\ made["qgis"].bbox = row.bbox
    /\ made["qgis"].store = DbStore

(* All sources reflect the row, and the data and the style as they are.    *)
SourcesReflect ==
    /\ row.status = "AVAILABLE"
    /\ row.bbox = Data
    /\ made["wfs"] = IF row.geodata = "vector" THEN Published(DbStore) ELSE None
    /\ made["wms"] = Published(WmsStore)
    /\ IF row.style = "qml" THEN ProjectReflects ELSE made["qgis"] = None
    /\ made["sld"] = None <=> row.style = "qml"
    /\ made["sld"] # None /\ made["sld"] # GenericStyle => made["sld"] = made["input_style"]
    /\ made["thumbnail"] = [data |-> Data, style |-> StyleInUse]
    /\ row.geodata = "raster" => made["gdal"] = made["input_file"].v

(* When nothing goes on with a layer that nothing has failed for since its *)
(* POST, all its sources reflect its data, style and title, and those of   *)
(* PATCH and WFS-T requests in any order: nobody gets a thumbnail, extent, *)
(* or metadata of data that is not there any more.                         *)
Consistent ==
    row # None /\ req = None /\ ~Running /\ survivor = None /\ ~broken /\ ~outlived
    => SourcesReflect /\ \A prop \in Props : InSync(prop)

(* A chain that starts from the input file and succeeds repairs the layer, *)
(* however its former requests and chains have failed; only metadata that  *)
(* differed before may go on to differ.                                    *)
Repairs ==
    [][ Running /\ chain'.state = "done" /\ chain.whole => SourcesReflect' ]_vars

(* What is made from a source exists only while the source does, whatever  *)
(* fails or is aborted: GeoServer and QGIS Server never serve a layer      *)
(* whose table, file or project is gone.                                   *)
InOrder ==
    /\ made["wfs"] # None => HasTable
    /\ made["wms"] # None =>
         CASE made["wms"].store = "coverage" -> made["gdal"] # None
           [] made["wms"].store = "internal" -> made["table"] # None
           [] made["wms"].store = "qgis"     -> made["qgis"] # None
           [] made["wms"].store = "external" -> row.source = "TABLE"
    /\ made["qgis"] # None => HasTable /\ Lang(made["input_style"]) = "qml"
    /\ made["table"] # None \/ made["gdal"] # None => made["input_file"] # None
    /\ made["thumbnail"] # None \/ made["sld"] # None => made["wms"] # None

(* When the row of a layer is deleted, nothing of the layer is left.       *)
DeletedWhole == [][ row # None /\ row' = None /\ ~outlived => made' = NothingMade ]_vars

(* PATCH that makes the layer again and sends no style keeps the one in    *)
(* use: it is deleted with its source, and saved again.                    *)
StyleKept ==
    [][ Save /\ req.how = "patch" /\ req.style = None /\ req.inUse # None
        => made'["input_style"] = req.inUse ]_vars

(* file_data_tasks.py: patch_after_feature_change asserts that it runs for *)
(* vector layers.  Not so if the step was queued before a PATCH that made  *)
(* the layer raster: the chain fails.                                      *)
FeaturesOfVector ==
    chain.how = "features" /\ Running /\ Task = "file_data" => row.geodata = "vector"

(* soap_tasks.py: the aborted task that keeps running deletes the record   *)
(* if the layer was deleted.  Not so if the rest of DELETE is slower than  *)
(* the task, as the row is deleted last.                                   *)
NoOrphanRecord == row = None /\ req = None /\ survivor = None /\ ~broken => made["soap"] = None
=============================================================================
