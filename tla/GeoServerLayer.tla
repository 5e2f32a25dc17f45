--------------------------- MODULE GeoServerLayer ---------------------------
(***************************************************************************)
(* What Layman does to GeoServer for one layer, call by call of the REST   *)
(* API (src/geoserver/util.py): the stores, layers and rules in the        *)
(* workspaces of WFS and WMS and the style, when the layer is published,   *)
(* changed to another kind of data or style, renamed, edited by WFS-T and  *)
(* deleted (layman/layer/geoserver).  LayerSources has each of wfs, wms    *)
(* and sld as one step; here a step is one call.                           *)
(*                                                                         *)
(* A call may be refused, it may be lost, and its answer may be lost after *)
(* it was done: Layman sees an exception each time.                        *)
(***************************************************************************)
EXTENDS Integers, Sequences, SequencesExt

CONSTANTS
    Rows,         \* what a request may ask for: records [kind, style]
    MaxRequests,  \* bound of requests
    MaxFailures   \* bound of calls that fail though GeoServer would do them

Kinds == {"file", "table", "geotiff", "image_mosaic"}

ASSUME RowsAssumption == \A r \in Rows : r.kind \in Kinds /\ r.style \in {"sld", "qml"}

None == [kind |-> "none", style |-> "none", title |-> 0]

VARIABLES
    gs,        \* gs[o]: 0 if there is no object o, else what it was given
    row,       \* the layer in the prime DB schema
    request,   \* the request that edits the layer: the calls it has to make
    chain,     \* the chain of tasks: the calls it has to make
    restyled,  \* history: PATCH of the style alone was the last to publish
    broken,    \* history: a request or a task has failed since the last publication
    requests, failures

vars == <<gs, row, request, chain, restyled, broken, requests, failures>>

Layer(ws, store) == <<ws, "layer", store>>
Store(ws, store) == <<ws, "store", store>>
Rule(ws, type)   == <<ws, "rule", type>>
Style            == <<"wms", "style", "sld">>
DefaultStyle     == <<"wms", "default", "sld">>

StoresOf(ws) == {"external_db"} \cup IF ws = "wms" THEN {"qgis", "geotiff", "image_mosaic"} ELSE {}

Workspaces == {"wfs", "wms"}

(* The store "postgresql" of each workspace is made when Layman starts.    *)
Layers == UNION {{Layer(ws, s) : s \in StoresOf(ws) \cup {"postgresql"}} : ws \in Workspaces}

Objects ==
    Layers \cup (UNION {{Store(ws, s) : s \in StoresOf(ws)} : ws \in Workspaces})
           \cup {Rule(ws, type) : ws \in Workspaces, type \in {"r", "w"}} \cup {Style, DefaultStyle}

LayersIn(ws) == {o \in Layers : o[1] = ws /\ gs[o] # 0}
-----------------------------------------------------------------------------
(* GeoServer, as src/geoserver/util.py uses it.                            *)

POST(o, value) == [method |-> "POST", on |-> o, to |-> value]
PUT(o, value)  == [method |-> "PUT", on |-> o, to |-> value]
DELETE(o)      == [method |-> "DELETE", on |-> o, to |-> 0]

(* delete_coverage_store is recursive.                                     *)
IsCoverage(store) == store \in {"geotiff", "image_mosaic"}

(* Whether GeoServer does it.  Names of layers are unique in a workspace.  *)
(* A DELETE of what is not there is no error for Layman.                   *)
Accepts(c) ==
    CASE c.method = "POST" ->
            /\ gs[c.on] = 0
            /\ c.on[2] = "layer" => /\ LayersIn(c.on[1]) = {}
                                    /\ c.on[3] # "postgresql" => gs[Store(c.on[1], c.on[3])] # 0
      [] c.method = "PUT" -> IF c.on = DefaultStyle THEN LayersIn("wms") # {} ELSE gs[c.on] # 0
      [] c.method = "DELETE" ->
            c.on[2] = "store" /\ ~IsCoverage(c.on[3]) => gs[Layer(c.on[1], c.on[3])] = 0

(* With an object goes what cannot be without it.                          *)
GoesWith(o) ==
    {o} \cup IF o[2] = "store" /\ IsCoverage(o[3]) THEN {Layer("wms", o[3])} ELSE {}

After(c) ==
    IF c.method # "DELETE" THEN [gs EXCEPT ![c.on] = c.to]
    ELSE LET left == [o \in Objects |-> IF o \in GoesWith(c.on) THEN 0 ELSE gs[o]]
         IN  IF left[Style] = 0 \/ \A o \in Layers : o[1] = "wms" => left[o] = 0
             THEN [left EXCEPT ![DefaultStyle] = 0] ELSE left
-----------------------------------------------------------------------------
(* Calls of each function of layman/layer/geoserver.                       *)

(* get_db_store_name                                                       *)
DbStore(r) == IF r.kind = "table" THEN "external_db" ELSE "postgresql"

IsVector(r) == r.kind \in {"file", "table"}

WmsStore(r) == IF ~IsVector(r) THEN r.kind ELSE IF r.style = "qml" THEN "qgis" ELSE DbStore(r)

(* Functions of src/geoserver/util.py, the calls of each.                  *)
post_feature_type(ws, store, title) == POST(Layer(ws, store), title)
post_wms_layer(title)               == POST(Layer("wms", "qgis"), title)
publish_coverage(store, title)      == POST(Layer("wms", store), title)

patch_feature_type(ws, store, title) == PUT(Layer(ws, store), title)
patch_wms_layer(title)               == PUT(Layer("wms", "qgis"), title)
patch_coverage(store, title)         == PUT(Layer("wms", store), title)

delete_feature_type(ws, store) == DELETE(Layer(ws, store))
delete_wms_layer               == DELETE(Layer("wms", "qgis"))

create_db_store(ws)          == POST(Store(ws, "external_db"), 1)
create_wms_store             == POST(Store("wms", "qgis"), 1)
create_coverage_store(store) == POST(Store("wms", store), 1)

delete_db_store(ws)          == DELETE(Store(ws, "external_db"))
delete_wms_store             == DELETE(Store("wms", "qgis"))
delete_coverage_store(store) == DELETE(Store("wms", store))

post_workspace_sld_style == <<POST(Style, 1), PUT(DefaultStyle, 1)>>
delete_workspace_style   == DELETE(Style)

delete_security_roles(ws, type) == DELETE(Rule(ws, type))

(* The rule is deleted and made again.                                     *)
ensure_security_roles(ws, type, roles) ==
    <<delete_security_roles(ws, type), POST(Rule(ws, type), roles)>>

(* Faulty: the rule of writing is left as it is.                           *)
SetReadRule(ws, roles) == ensure_security_roles(ws, "r", roles)

set_security_rules(ws, roles) ==
    ensure_security_roles(ws, "r", roles) \o ensure_security_roles(ws, "w", roles)

publish_layer_from_db(ws, r) ==
    (IF r.kind = "table" THEN <<create_db_store(ws)>> ELSE <<>>)
        \o <<post_feature_type(ws, DbStore(r), r.title)>>

publish_layer_from_qgis(r) == <<create_wms_store, post_wms_layer(r.title)>>

refresh_wfs(r) ==
    IF IsVector(r) THEN publish_layer_from_db("wfs", r) \o set_security_rules("wfs", r.title) ELSE <<>>

refresh_wms(r) ==
    (IF ~IsVector(r) THEN <<create_coverage_store(r.kind), publish_coverage(r.kind, r.title)>>
     ELSE IF r.style = "qml" THEN publish_layer_from_qgis(r)
     ELSE publish_layer_from_db("wms", r)) \o set_security_rules("wms", r.title)

refresh_sld(r) == IF r.style = "sld" THEN post_workspace_sld_style ELSE <<>>

DeleteRules(ws) == <<delete_security_roles(ws, "r"), delete_security_roles(ws, "w")>>

delete_wfs ==
    << delete_feature_type("wfs", "postgresql"), delete_feature_type("wfs", "external_db"),
       delete_db_store("wfs") >> \o DeleteRules("wfs")

(* Faulty: stores of image mosaics are forgotten.                          *)
delete_wms_but_mosaic ==
    << delete_feature_type("wms", "postgresql"), delete_feature_type("wms", "external_db"),
       delete_wms_layer, delete_wms_store, delete_coverage_store("geotiff"),
       delete_db_store("wms") >> \o DeleteRules("wms")

(* Faulty: rules are forgotten.                                            *)
delete_wms_but_rules ==
    << delete_feature_type("wms", "postgresql"), delete_feature_type("wms", "external_db"),
       delete_wms_layer, delete_wms_store, delete_coverage_store("geotiff"),
       delete_coverage_store("image_mosaic"), delete_db_store("wms") >>

delete_wms == delete_wms_but_rules \o DeleteRules("wms")

delete_sld == <<delete_workspace_style>>

(* Layers are patched only if they are there.                              *)
patch_wfs(r) ==
    IF gs[Layer("wfs", DbStore(r))] = 0 THEN <<>>
    ELSE <<patch_feature_type("wfs", DbStore(r), r.title)>> \o set_security_rules("wfs", r.title)

PatchLayer(r, title) ==
    CASE ~IsVector(r) -> patch_coverage(r.kind, title)
      [] IsVector(r) /\ r.style = "qml" -> patch_wms_layer(title)
      [] IsVector(r) /\ r.style # "qml" -> patch_feature_type("wms", DbStore(r), title)

patch_wms(r) ==
    IF LayersIn("wms") = {} THEN <<>>
    ELSE <<PatchLayer(r, r.title)>> \o set_security_rules("wms", r.title)

(* patch_after_feature_change: the extent only, whether or not the layer   *)
(* is there.                                                               *)
wfs_feature_change(r) ==
    IF IsVector(r) THEN <<patch_feature_type("wfs", DbStore(r), gs[Layer("wfs", DbStore(r))])>> ELSE <<>>

wms_feature_change(r) ==
    IF IsVector(r) THEN <<PatchLayer(r, gs[Layer("wms", WmsStore(r))])>> ELSE <<>>
-----------------------------------------------------------------------------
(* Chains: a task looks twice whether it is aborted.                       *)

Task(calls, undo) ==
    <<[method |-> "start", undo |-> <<>>]>> \o calls \o <<[method |-> "end", undo |-> undo]>>

Idle == [state |-> "none", publishes |-> FALSE, aborted |-> FALSE, todo |-> <<>>]

PublishingChain(r) ==
    [state |-> "running", publishes |-> TRUE, aborted |-> FALSE,
     todo |-> Task(refresh_wfs(r), delete_wfs) \o Task(refresh_wms(r), delete_wms)
              \o Task(refresh_sld(r), delete_sld)]

FeaturesChain(r) ==
    [state |-> "running", publishes |-> FALSE, aborted |-> FALSE,
     todo |-> Task(wfs_feature_change(r), <<>>) \o Task(wms_feature_change(r), <<>>)]

NoRequest == [what |-> "none", todo |-> <<>>, row |-> None]

Deletes == delete_sld \o delete_wms \o delete_wfs

(* PATCH without data gives image_mosaic = None, and refresh_wms asks that *)
(* parameter and not the row.                                              *)
WithoutMosaic(r) == [r EXCEPT !.kind = IF @ = "image_mosaic" THEN "geotiff" ELSE @]

Init ==
    /\ gs = [o \in Objects |-> 0] /\ row = None
    /\ request = NoRequest /\ chain = Idle
    /\ restyled = FALSE /\ broken = FALSE /\ requests = 0 /\ failures = 0

Comes == request = NoRequest /\ requests < MaxRequests /\ requests' = requests + 1

(* Titles and access rights are those of the last request.                 *)
Asked(r) == [kind |-> r.kind, style |-> r.style, title |-> requests + 1]

Post(r) ==
    /\ Comes /\ row = None
    /\ row' = Asked(r) /\ chain' = PublishingChain(row') /\ restyled' = FALSE /\ broken' = FALSE
    /\ UNCHANGED <<gs, request, failures>>

(* PATCH of data, of style, and DELETE, abort the chain and wait for it.   *)
Patch(r) ==
    /\ Comes /\ row # None
    /\ request' = [what |-> "patch", todo |-> Deletes, row |-> Asked(r)]
    /\ chain' = [chain EXCEPT !.aborted = chain.state = "running"]
    /\ UNCHANGED <<gs, row, restyled, broken, failures>>

PatchStyle(r) ==
    /\ Comes /\ row # None /\ r.kind = row.kind
    /\ request' = [what |-> "style", todo |-> Deletes, row |-> Asked(r)]
    /\ chain' = [chain EXCEPT !.aborted = chain.state = "running"]
    /\ UNCHANGED <<gs, row, restyled, broken, failures>>

Delete ==
    /\ Comes /\ row # None
    /\ request' = [what |-> "delete", todo |-> Deletes, row |-> None]
    /\ chain' = [chain EXCEPT !.aborted = chain.state = "running"]
    /\ UNCHANGED <<gs, row, restyled, broken, failures>>

(* PATCH of the title or of access rights.                                 *)
PatchMetadata ==
    /\ Comes /\ row # None /\ chain.state # "running"
    /\ row' = Asked(row)
    /\ request' = [what |-> "metadata", todo |-> patch_wfs(row') \o patch_wms(row'), row |-> row']
    /\ UNCHANGED <<gs, chain, restyled, broken, failures>>

(* WFS-T of a layer that GeoServer has.                                    *)
FeatureChange ==
    /\ Comes /\ row # None /\ chain.state # "running"
    /\ IsVector(row) /\ LayersIn("wfs") # {}
    /\ chain' = FeaturesChain(row)
    /\ UNCHANGED <<gs, row, request, restyled, broken, failures>>

RequestCall ==
    /\ chain.state # "running" /\ request.todo # <<>> /\ Accepts(Head(request.todo))
    /\ gs' = After(Head(request.todo))
    /\ request' = [request EXCEPT !.todo = Tail(@)]
    /\ UNCHANGED <<row, chain, restyled, broken, requests, failures>>

(* Refused, lost, or done without an answer.                               *)
Fails(c) ==
    \/ ~Accepts(c) /\ UNCHANGED <<gs, failures>>
    \/ /\ Accepts(c) /\ failures < MaxFailures /\ failures' = failures + 1
       /\ gs' \in {gs, After(c)}

RequestFails ==
    /\ chain.state # "running" /\ request.todo # <<>> /\ Fails(Head(request.todo))
    /\ request' = NoRequest /\ broken' = TRUE
    /\ UNCHANGED <<row, chain, restyled, requests>>

RequestEnds ==
    /\ chain.state # "running" /\ request # NoRequest /\ request.todo = <<>>
    /\ row' = request.row
    /\ chain' = CASE request.what = "patch"    -> PublishingChain(request.row)
                  [] request.what = "style"    -> PublishingChain(WithoutMosaic(request.row))
                  [] request.what = "delete"   -> Idle
                  [] request.what = "metadata" -> chain
    /\ restyled' = IF request.what = "metadata" THEN restyled ELSE request.what = "style"
    /\ broken' = (broken /\ request.what = "metadata")
    /\ request' = NoRequest
    /\ UNCHANGED <<gs, requests, failures>>

IsCall(c) == c.method \notin {"start", "end"}

TaskCall ==
    /\ chain.state = "running" /\ chain.todo # <<>> /\ IsCall(Head(chain.todo)) /\ Accepts(Head(chain.todo))
    /\ gs' = After(Head(chain.todo))
    /\ chain' = [chain EXCEPT !.todo = Tail(@)]
    /\ UNCHANGED <<row, request, restyled, broken, requests, failures>>

TaskFails ==
    /\ chain.state = "running" /\ chain.todo # <<>> /\ IsCall(Head(chain.todo)) /\ Fails(Head(chain.todo))
    /\ chain' = [chain EXCEPT !.state = "failed", !.todo = <<>>] /\ broken' = TRUE
    /\ UNCHANGED <<row, request, restyled, requests>>

(* is_aborted: nothing but what the task does to undo itself is left.      *)
LooksAborted ==
    /\ chain.state = "running" /\ chain.todo # <<>> /\ ~IsCall(Head(chain.todo))
    /\ chain' = [chain EXCEPT !.todo = IF chain.aborted THEN Head(@).undo ELSE Tail(@)]
    /\ UNCHANGED <<gs, row, request, restyled, broken, requests, failures>>

ChainEnds ==
    /\ chain.state = "running" /\ chain.todo = <<>>
    /\ chain' = [chain EXCEPT !.state = IF chain.aborted THEN "aborted" ELSE "done"]
    /\ broken' = (chain.aborted \/ (broken /\ ~chain.publishes))
    /\ UNCHANGED <<gs, row, request, restyled, requests, failures>>

Next ==
    \/ \E r \in Rows : Post(r) \/ Patch(r) \/ PatchStyle(r)
    \/ Delete \/ PatchMetadata \/ FeatureChange
    \/ RequestCall \/ RequestFails \/ RequestEnds
    \/ TaskCall \/ TaskFails \/ LooksAborted \/ ChainEnds

Spec == Init /\ [][Next]_vars
-----------------------------------------------------------------------------
(* Whatever was published before, whatever calls failed or were aborted on *)
(* the way: a task finds free the place of each object it makes, and the   *)
(* store it makes a layer in; a DELETE of a store finds the store empty.   *)
(* So a publication can always be tried again with PATCH.                  *)
CreatesFresh ==
    \A todo \in {chain.todo, request.todo} :
        todo # <<>> /\ Head(todo).method \in {"POST", "DELETE"} => Accepts(Head(todo))

Expected(r) ==
    [o \in Objects |->
        CASE o = Layer("wms", WmsStore(r)) -> r.title
          [] o = Layer("wfs", DbStore(r)) /\ IsVector(r) -> r.title
          [] o = Store("wms", WmsStore(r)) -> 1
          [] o = Store("wfs", DbStore(r)) /\ IsVector(r) -> 1
          [] o[2] = "rule" /\ (o[1] = "wms" \/ IsVector(r)) -> r.title
          [] o \in {Style, DefaultStyle} /\ r.style = "sld" -> 1
          [] OTHER -> 0]

Quiet == row # None /\ request = NoRequest /\ chain.state # "running" /\ ~broken

(* What the row says, but for a mosaic that was given another style.       *)
Published == IF restyled THEN WithoutMosaic(row) ELSE row

(* When the requests and tasks of a layer have succeeded, GeoServer has    *)
(* exactly the stores, layers, rules and style of its kind of data and     *)
(* style, with its current title and access rights, and nothing of what it *)
(* was before.  The one exception is a mosaic whose style was changed: all *)
(* of it is there, with a store of GeoTIFF.                                *)
ExactlyPublished == Quiet => gs = Expected(Published)

(* doc/data-storage.md:124: "If layer is timeseries, Coverage Store is     *)
(* ImageMosaic".  It is not after PATCH of the style                       *)
(* (geoserver_mosaic.cfg).                                                 *)
MosaicStays == Quiet /\ row.kind = "image_mosaic" => gs[Store("wms", "image_mosaic")] # 0

(* A layer that Layman has not got any more left nothing in GeoServer, nor *)
(* a rule a layer of the same name would inherit, even when tasks or       *)
(* earlier requests failed.                                                *)
DeletedFromGeoServer == row = None => \A o \in Objects : gs[o] = 0
=============================================================================
