------------------------------- MODULE Start -------------------------------
(***************************************************************************)
(* Start of Layman: layman_flush_redis.py, wait_for_deps.py, then the      *)
(* processes of gunicorn that import layman and elect, by one key of       *)
(* Redis, the one that adjusts the dependencies; wait_for_layman.py and    *)
(* the Celery worker; the standalone upgrade; the initialisation of the    *)
(* prime DB schema and its migrations (src/layman/upgrade).                *)
(*                                                                         *)
(* What a function of the upgrade does to the database and to GeoServer is *)
(* a record: the objects it needs, those that must not be there, those it  *)
(* makes and drops, the versions it sets, what it drops when it raises.    *)
(***************************************************************************)
EXTENDS Integers, Sequences

CONSTANTS
    Flask,        \* processes of gunicorn
    Celery,       \* Celery workers
    Upgrader,     \* the process of standalone_upgrade.py
    MaxAttempts,  \* MAX_ATTEMPTS of wait_for_deps.py
    MayFail,      \* a service may fail when it is called
    MaxLaunches,  \* bound of launches
    MaxKills      \* bound of timeouts of gunicorn in one launch

ASSUME UpgraderApart == Upgrader \notin Flask \cup Celery /\ Flask \cap Celery = {}

Processes == Flask \cup Celery \cup {Upgrader}

VARIABLES
    key,       \* LAYMAN_DEPS_ADJUSTED_KEY: "none", "processing", "done"
    written,   \* processes whose watched key has been written since WATCH
    pc,        \* pc[p]: where the process is
    todo,      \* todo[p]: the calls it has still to make
    made,      \* objects in the prime DB schema and in GeoServer
    version,   \* the rows of data_version, by migration type
    loaded,    \* what has been read into Redis, or settled, since the launch
    deps,      \* wait_for_deps.py: the service it waits for, the attempt
    release,   \* the release that was installed before the first launch
    launches, kills

startVars == <<key, written, pc, todo, made, version, loaded, deps, release, launches, kills>>
-----------------------------------------------------------------------------
(* What the functions of src/layman/upgrade do.                            *)

Call(needs, forbids, makes, drops) ==
    [kind |-> "call", needs |-> needs, forbids |-> forbids, makes |-> makes, drops |-> drops,
     sets |-> <<>>, undo |-> {}]

PrimeSchema ==
    {"schema", "right_types", "publication_types", "workspaces", "workspaces.name", "users",
     "users_issuer_sub_key", "publications", "rights", "rights_type_fkey"}

(* upgrade_1_8: the schema and then its codelists, or neither.             *)
create_schema == [Call({}, {"schema"}, PrimeSchema, {}) EXCEPT !.undo = PrimeSchema]

setup_codelists_data ==
    [Call({"right_types", "publication_types"}, {}, {"codelists"}, {}) EXCEPT
        !.undo = PrimeSchema \cup {"codelists"}]

initialize_data_versioning == Call({"schema"}, {"data_version"}, {"data_version"}, {})

alter_schema == Call({"publications"}, {}, {"style_type"}, {})

update_style_type_in_db == Call({"style_type"}, {}, {"con_style_type"}, {})

(* The row there was becomes the one of schema; the one of data is -1.     *)
adjust_db_for_schema_migrations ==
    [Call({"data_version"}, {}, {"migration_type"}, {}) EXCEPT !.sets =
        [schema |-> <<1, 9, 0, 0>>, data |-> <<-1, -1, -1, -1>>]]

adjust_prime_db_schema_for_fulltext_search == Call({"publications"}, {}, {"title_tsv_idx"}, {})

adjust_prime_db_schema_for_last_change_search == Call({"publications"}, {}, {"updated_at"}, {})

adjust_prime_db_schema_for_bbox_search == Call({"publications"}, {}, {"bbox"}, {})

adjust_db_for_srid == Call({"publications"}, {}, {"srid"}, {})

adjust_db_for_file_type == Call({"publications"}, {}, {"file_type"}, {})

adjust_db_for_image_mosaic ==
    Call({"publications", "file_type"}, {"image_mosaic_check"}, {"image_mosaic", "image_mosaic_check"}, {})

adjust_db_for_table_uri ==
    Call({"publications", "file_type"}, {"table_uri_check"}, {"external_table_uri", "table_uri_check"}, {})

rename_file_type_to_geodata_type == Call({"file_type"}, {"geodata_type"}, {"geodata_type"}, {"file_type"})

adjust_db_for_wfs_wms_status ==
    Call({"publications"}, {"wfs_wms_status_check"}, {"wfs_wms_status", "wfs_wms_status_check"}, {})

create_map_layer_relation_table ==
    Call({"publications"}, {"map_layer"}, {"map_layer", "map_layer.layer_name"}, {})

adjust_db_for_roles == Call({"rights"}, {"role_xor_user"}, {"role_name", "role_xor_user"}, {})

RoleViews == {"bussiness_roles", "layman_users_roles", "admin_roles"}

(* The type of a column that a view reads cannot be altered.               *)
restrict_workspace_name_length == Call({"workspaces.name"}, RoleViews, {"short_names"}, {})

create_role_service_schema ==
    Call({"role_service_schema", "workspaces.name", "users"}, RoleViews, RoleViews, {})

remove_right_types_table ==
    Call({"right_types", "rights_type_fkey"}, {"rights_type"}, {"rights_type"}, {"rights_type_fkey", "right_types"})

adjust_db_publication_srid_constraint ==
    Call({"bbox", "srid"}, {"bbox_with_crs"}, {"bbox_with_crs"}, {})

adjust_db_publication_file_type_constraint ==
    Call({"geodata_type"}, {"geodata_type_check"}, {"geodata_type_check"}, {})

ensure_sub_uniqueness ==
    Call({"users_issuer_sub_key"}, {"users_sub_key"}, {"users_sub_key"}, {"users_issuer_sub_key"})

ensure_issuer_sub_uniqueness ==
    Call({"users_sub_key"}, {"users_issuer_sub_key"}, {"users_issuer_sub_key"}, {"users_sub_key"})

adjust_db_for_description == Call({"publications"}, {}, {"description"}, {})

adjust_db_for_map_layer_relation ==
    Call({"map_layer", "map_layer.layer_name"}, {}, {"map_layer.layer_uuid"}, {})

adjust_db_for_created_at == Call({"publications"}, {}, {"created_at"}, {})

ensure_gs_workspaces_and_stores ==
    Call({"gs_user"}, {"layman_workspace", "layman_wms_workspace"},
         {"layman_workspace", "layman_wms_workspace", "postgresql_stores"}, {})

ensure_layers_db_schema == Call({}, {}, {"layers_schema"}, {})

adjust_publications_created_at == Call({"created_at"}, {}, {"created_at_not_null"}, {})

adjust_map_layer_data ==
    Call({"map_layer.layer_name", "map_layer.layer_uuid"}, {}, {}, {"map_layer.layer_name"})

set_current_migration_version(type, to) ==
    [Call({"migration_type"}, {}, {}, {}) EXCEPT !.sets = [t \in {type} |-> to]]

MIN_UPGRADEABLE_VERSION == [schema |-> <<2, 0, 0, 0>>, data |-> <<2, 0, 0, 0>>]

(* Faulty: the views of roles before the name they read is restricted.     *)
InitRolesFirst ==
    <<create_schema, setup_codelists_data, initialize_data_versioning, alter_schema, update_style_type_in_db,
      adjust_db_for_schema_migrations, adjust_db_for_roles, create_role_service_schema,
      restrict_workspace_name_length>>

run_db_init ==
    <<create_schema, setup_codelists_data, initialize_data_versioning, alter_schema, update_style_type_in_db,
      adjust_db_for_schema_migrations, adjust_prime_db_schema_for_fulltext_search,
      adjust_prime_db_schema_for_last_change_search, adjust_prime_db_schema_for_bbox_search,
      adjust_db_for_srid, adjust_db_for_file_type, adjust_db_for_image_mosaic,
      adjust_db_for_table_uri, rename_file_type_to_geodata_type, adjust_db_for_wfs_wms_status,
      create_map_layer_relation_table, adjust_db_for_roles, restrict_workspace_name_length,
      create_role_service_schema, remove_right_types_table,
      adjust_db_publication_srid_constraint, adjust_db_publication_file_type_constraint,
      ensure_sub_uniqueness, ensure_issuer_sub_uniqueness,
      adjust_db_for_description, adjust_db_for_map_layer_relation, adjust_db_for_created_at,
      ensure_gs_workspaces_and_stores, ensure_layers_db_schema, adjust_publications_created_at,
      adjust_map_layer_data,
      set_current_migration_version("schema", MIN_UPGRADEABLE_VERSION.schema),
      set_current_migration_version("data", MIN_UPGRADEABLE_VERSION.data)>>

(* Records of Micka that exist are patched; an error of one is logged.     *)
migrate_metadata_urls(urls) == Call({"schema"}, {}, {urls}, {})

MIGRATIONS ==
    [schema |-> << <<<<3, 0, 0, 0>>, Call({}, {}, {}, {})>> >>,
     data   |-> << <<<<3, 0, 0, 0>>, migrate_metadata_urls("map_urls")>>,
                   <<<<3, 0, 0, 1>>, migrate_metadata_urls("layer_urls")>> >>]

Later(v, w) == \E i \in DOMAIN v : v[i] > w[i] /\ \A j \in 1..(i - 1) : v[j] = w[j]

get_max_data_version(type) == MIGRATIONS[type][Len(MIGRATIONS[type])][1]

(* A migration later than the version, and the record that it has run.     *)
Migration(type, i) ==
    LET m == MIGRATIONS[type][i]
    IN  IF Later(m[1], version[type]) THEN <<m[2], set_current_migration_version(type, m[1])>> ELSE <<>>

(* run_migrations: those that are later, and the assertion at the end.     *)
PendingMigrations(type) ==
    (IF type = "schema" THEN Migration(type, 1) ELSE Migration(type, 1) \o Migration(type, 2))
    \o <<[kind |-> "final_version", type |-> type]>>

upgrade ==
    <<[kind |-> "is_new_installation"], [kind |-> "check_version_upgradeability"],
      [kind |-> "run_migrations", type |-> "schema"], [kind |-> "run_migrations", type |-> "data"]>>
-----------------------------------------------------------------------------
(* What the elected process calls.                                         *)

ensure_user == Call({"role_service_schema"}, {}, {"gs_user"}, {})

ensure_proxy_base_url == Call({"gs_user"}, {}, {"proxy_base_url"}, {})

ensure_srs_lists == Call({"gs_user"}, {}, {"srs_lists"}, {})

Load(what, needs) == [kind |-> "load", what |-> what, needs |-> needs, forbids |-> {}]

import_uuids_to_redis == Load("uuids", {"publications", "geodata_type", "wfs_wms_status"})

import_authn_to_redis == Load("authn", {"users", "workspaces"})

ensure_output_srs_for_all == Call({"style_type", "srs_lists"}, {}, {"qgis_srs"}, {})

ensure_srid_definitions == Call({}, {}, {"srid_definitions"}, {})

set_after_restart == Load("statuses", {"wfs_wms_status"})

validate_role_service == Load("roles", {"role_service_schema", "layman_users_roles"})

Adjustment(p) ==
    <<ensure_user, ensure_proxy_base_url>> \o
    IF p = Upgrader THEN <<>>
    ELSE <<ensure_srs_lists>> \o upgrade \o
         <<import_uuids_to_redis, import_authn_to_redis, ensure_output_srs_for_all,
           ensure_srid_definitions, set_after_restart, validate_role_service>>
-----------------------------------------------------------------------------
Services == <<"redis", "postgresql", "role_service", "qgis", "geoserver", "client", "micka">>

(* What setup_geoserver.py leaves before GeoServer starts.                 *)
setup_geoserver == {"role_service_schema"}

(* What the calls of the initialisation before the k-th one have made.     *)
MadeBefore(k) ==
    UNION {run_db_init[i].makes \ UNION {run_db_init[j].drops : j \in (i + 1)..(k - 1)} : i \in 1..(k - 1)}

(* What the installation of release 2.0 leaves.                            *)
Installed2 ==
    setup_geoserver \cup {"gs_user", "proxy_base_url", "srs_lists"} \cup MadeBefore(Len(run_db_init) + 1)

InitStart ==
    /\ key = "none" /\ written = {} /\ loaded = {}
    /\ pc = [p \in Processes |-> "off"] /\ todo = [p \in Processes |-> <<>>]
    /\ release \in {"none", "1.23", "2.0"}
    /\ made = IF release = "none" THEN setup_geoserver ELSE Installed2
    /\ version = CASE release = "none" -> [schema |-> <<>>, data |-> <<>>]
                   [] release = "1.23" -> [schema |-> <<1, 23, 0, 3>>, data |-> <<1, 23, 0, 0>>]
                   [] release = "2.0"  -> MIN_UPGRADEABLE_VERSION
    /\ deps = [mode |-> "none", at |-> 1, attempt |-> 1]
    /\ launches = 0 /\ kills = 0

(* Everything of Layman is stopped, whatever it was doing; Redis is        *)
(* flushed.  mode: the server with its workers, or the standalone upgrade. *)
Launch(mode) ==
    /\ launches < MaxLaunches
    /\ launches' = launches + 1 /\ kills' = 0
    /\ key' = "none" /\ loaded' = {} /\ written' = {}
    /\ pc' = [p \in Processes |-> "off"] /\ todo' = [p \in Processes |-> <<>>]
    /\ deps' = [mode |-> mode, at |-> 1, attempt |-> 1]
    /\ UNCHANGED <<made, version, release>>

(* The number of attempts is not reset from a service to the next one. *)
ServiceAnswers ==
    /\ deps.mode # "none"
    /\ deps' = IF deps.at < Len(Services) THEN [deps EXCEPT !.at = @ + 1]
               ELSE [mode |-> "none", at |-> 1, attempt |-> 1]
    /\ pc' = IF deps.at < Len(Services) THEN pc
             ELSE [p \in Processes |-> CASE p \in Flask  /\ deps.mode = "server"  -> "import"
                                         [] p \in Celery /\ deps.mode = "server"  -> "wait_for_layman"
                                         [] p = Upgrader /\ deps.mode = "upgrade" -> "import"
                                         [] OTHER -> "off"]
    /\ UNCHANGED <<key, written, todo, made, version, loaded, release, launches, kills>>

(* The service cannot be reached, or QGIS Server answers with an error. *)
ServiceSilent ==
    /\ deps.mode # "none" /\ Services[deps.at] # "role_service"
    /\ deps' = IF deps.attempt >= MaxAttempts THEN [mode |-> "none", at |-> 1, attempt |-> 1]
               ELSE [deps EXCEPT !.attempt = @ + 1]
    /\ UNCHANGED <<key, written, pc, todo, made, version, loaded, release, launches, kills>>

(* An error of any other service that is asked by HTTP, a wrong version of *)
(* Micka, or anything wrong with the role service, ends the program.       *)
(* (QGIS Server is asked again, without counting, when it says anything    *)
(* else than expected: nothing changes.)                                   *)
ServiceRefuses ==
    /\ deps.mode # "none"
    /\ Services[deps.at] \in {"role_service", "geoserver", "client", "micka"}
    /\ deps' = [mode |-> "none", at |-> 1, attempt |-> 1]
    /\ UNCHANGED <<key, written, pc, todo, made, version, loaded, release, launches, kills>>

(* wait_for_layman.py: the worker is started when a server answers, and    *)
(* not at all when none does in the attempts it has.                       *)
WaitForLayman(c) ==
    /\ pc[c] = "wait_for_layman"
    /\ \/ \E p \in Flask : pc[p] = "up" /\ pc' = [pc EXCEPT ![c] = "import"]
       \/ (\A p \in Flask : pc[p] # "up") /\ pc' = [pc EXCEPT ![c] = "failed"]
    /\ UNCHANGED <<key, written, todo, made, version, loaded, deps, release, launches, kills>>
-----------------------------------------------------------------------------
(* The election, in layman/__init__.py.                                    *)

WatchKey(p) ==
    /\ pc[p] = "import"
    /\ pc' = [pc EXCEPT ![p] = "watched"] /\ written' = written \ {p}
    /\ UNCHANGED <<key, todo, made, version, loaded, deps, release, launches, kills>>

(* Faulty: whatever the key is set to is taken for done.                   *)
FirstGetIsSet(p) ==
    /\ pc[p] = "watched"
    /\ pc' = [pc EXCEPT ![p] = IF key # "none" THEN "up" ELSE "not_done"]
    /\ UNCHANGED <<key, written, todo, made, version, loaded, deps, release, launches, kills>>

FirstGet(p) ==
    /\ pc[p] = "watched"
    /\ pc' = [pc EXCEPT ![p] = IF key # "done" THEN "not_done"
                               ELSE IF p = Upgrader THEN "upgrade" ELSE "up"]
    /\ todo' = [todo EXCEPT ![p] = IF key = "done" /\ p = Upgrader THEN upgrade ELSE <<>>]
    /\ UNCHANGED <<key, written, made, version, loaded, deps, release, launches, kills>>

SecondGet(p) ==
    /\ pc[p] = "not_done"
    /\ pc' = [pc EXCEPT ![p] = IF key = "none" /\ p \notin Celery THEN "claim" ELSE "wait"]
    /\ UNCHANGED <<key, written, todo, made, version, loaded, deps, release, launches, kills>>

(* Faulty: SET without WATCH.                                              *)
ClaimAnyway(p) ==
    /\ pc[p] = "claim"
    /\ key' = "processing" /\ written' = Processes \ {p}
    /\ pc' = [pc EXCEPT ![p] = "adjust"]
    /\ todo' = [todo EXCEPT ![p] = Adjustment(p)]
    /\ UNCHANGED <<made, version, loaded, deps, release, launches, kills>>

(* MULTI, SET, EXEC: fails when the key was written since WATCH.           *)
Claim(p) ==
    /\ pc[p] = "claim"
    /\ \/ /\ p \notin written
          /\ key' = "processing" /\ written' = Processes \ {p}
          /\ pc' = [pc EXCEPT ![p] = "adjust"]
          /\ todo' = [todo EXCEPT ![p] = Adjustment(p)]
       \/ /\ p \in written
          /\ pc' = [pc EXCEPT ![p] = "wait"]
          /\ UNCHANGED <<key, written, todo>>
    /\ UNCHANGED <<made, version, loaded, deps, release, launches, kills>>

(* Faulty: the key stays as it was.                                        *)
DoneSilently(p) ==
    /\ pc[p] = "adjust" /\ todo[p] = <<>>
    /\ pc' = [pc EXCEPT ![p] = "up"]
    /\ UNCHANGED <<key, written, todo, made, version, loaded, deps, release, launches, kills>>

(* Nothing is watched any more: the key is set whatever it is.             *)
Done(p) ==
    /\ pc[p] = "adjust" /\ todo[p] = <<>>
    /\ key' = "done" /\ written' = Processes \ {p}
    /\ pc' = [pc EXCEPT ![p] = IF p = Upgrader THEN "upgrade" ELSE "up"]
    /\ todo' = [todo EXCEPT ![p] = IF p = Upgrader THEN upgrade ELSE <<>>]
    /\ UNCHANGED <<made, version, loaded, deps, release, launches, kills>>

Wait(p) ==
    /\ pc[p] = "wait" /\ key = "done"
    /\ pc' = [pc EXCEPT ![p] = IF p = Upgrader THEN "upgrade" ELSE "up"]
    /\ todo' = [todo EXCEPT ![p] = IF p = Upgrader THEN upgrade ELSE <<>>]
    /\ UNCHANGED <<key, written, made, version, loaded, deps, release, launches, kills>>
-----------------------------------------------------------------------------
(* The calls of the elected process and of the standalone upgrade.         *)

Calls(p) == pc[p] \in {"adjust", "upgrade"} /\ todo[p] # <<>>

(* get_current_version raises when there is no such row.                   *)
Known(type) == "migration_type" \in made

Ready(c) ==
    CASE c.kind \in {"call", "load"} -> c.needs \subseteq made /\ c.forbids \cap made = {}
      [] c.kind = "check_version_upgradeability" ->
            \A t \in {"schema", "data"} :
                Known(t) /\ ~Later(MIN_UPGRADEABLE_VERSION[t], version[t])
      [] c.kind = "final_version" -> version[c.type] = get_max_data_version(c.type)
      [] OTHER -> TRUE

Does(p) ==
    /\ Calls(p) /\ Ready(Head(todo[p]))
    /\ LET c == Head(todo[p])
       IN  /\ todo' = [todo EXCEPT ![p] =
                 (CASE c.kind = "is_new_installation" /\ "schema" \notin made -> run_db_init
                    [] c.kind = "run_migrations" -> PendingMigrations(c.type)
                    [] OTHER -> <<>>) \o Tail(@)]
           /\ made' = IF c.kind = "call" THEN (made \ c.drops) \cup c.makes ELSE made
           /\ version' = IF c.kind = "call"
                         THEN [t \in {"schema", "data"} |-> IF t \in DOMAIN c.sets THEN c.sets[t] ELSE version[t]]
                         ELSE version
           /\ loaded' = IF c.kind = "load" THEN loaded \cup {c.what} ELSE loaded
    /\ UNCHANGED <<key, written, pc, deps, release, launches, kills>>

(* The standalone upgrade ends.                                            *)
Ends(p) ==
    /\ pc[p] = "upgrade" /\ todo[p] = <<>>
    /\ pc' = [pc EXCEPT ![p] = "off"]
    /\ UNCHANGED <<key, written, todo, made, version, loaded, deps, release, launches, kills>>

(* A call raises: what it needs is not there, or a service fails.  gunicorn *)
(* halts when a worker fails to boot.  The creation of the prime schema is  *)
(* undone.                                                                  *)
Raises(p) ==
    /\ Calls(p)
    /\ MayFail \/ ~Ready(Head(todo[p]))
    /\ pc' = [q \in Processes |-> IF p = q \/ ({p, q} \subseteq Flask) THEN "failed" ELSE pc[q]]
    /\ todo' = [todo EXCEPT ![p] = <<>>]
    /\ made' = IF Head(todo[p]).kind = "call" THEN made \ Head(todo[p]).undo ELSE made
    /\ UNCHANGED <<key, written, version, loaded, deps, release, launches, kills>>

(* gunicorn kills a process that loads longer than its timeout, and forks  *)
(* another one; Redis is not flushed.                                      *)
Kill(p) ==
    /\ p \in Flask /\ kills < MaxKills
    /\ pc[p] \in {"watched", "not_done", "claim", "adjust", "wait"}
    /\ pc' = [pc EXCEPT ![p] = "import"] /\ todo' = [todo EXCEPT ![p] = <<>>]
    /\ kills' = kills + 1
    /\ UNCHANGED <<key, written, made, version, loaded, deps, release, launches>>

Steps(p) ==
    \/ WatchKey(p) \/ FirstGet(p) \/ SecondGet(p) \/ Claim(p) \/ Done(p) \/ Wait(p)
    \/ Does(p) \/ Ends(p)

NextStart ==
    \/ \E mode \in {"server", "upgrade"} : Launch(mode)
    \/ ServiceAnswers \/ ServiceSilent \/ ServiceRefuses
    \/ \E p \in Processes : Steps(p) \/ Raises(p) \/ Kill(p)
    \/ \E c \in Celery : WaitForLayman(c)

SpecStart == InitStart /\ [][NextStart]_startVars

(* A process that runs goes on, or raises; a service may be silent for     *)
(* ever, and nobody need launch anything.                                  *)
FairStart ==
    /\ SpecStart
    /\ \A p \in Processes : WF_startVars(Steps(p) \/ Raises(p))
    /\ \A c \in Celery : WF_startVars(WaitForLayman(c))
-----------------------------------------------------------------------------
(* The order of the initialisation and of the migrations, and what an      *)
(* interrupted one leaves: whoever adjusts finds at every step what the    *)
(* step alters or reads, and never makes what is there already.  Only the  *)
(* check of the version may refuse an installation.                        *)
StepsFind ==
    \A p \in Processes :
        Calls(p) /\ Head(todo[p]).kind # "check_version_upgradeability" => Ready(Head(todo[p]))

(* No process of the server answers requests, and no worker takes tasks,   *)
(* before the prime schema is complete, every migration has run and Redis  *)
(* is loaded since it was flushed: whichever process was elected, however  *)
(* often earlier launches were interrupted.                                *)
StartsComplete ==
    \A p \in Flask \cup Celery : pc[p] = "up" =>
        /\ Installed2 \cup {"map_urls", "layer_urls"} \subseteq made
        /\ \A t \in {"schema", "data"} : version[t] = get_max_data_version(t)
        /\ {"uuids", "authn", "statuses", "roles"} \subseteq loaded

(* The key of Redis elects one process: Start implements Election.         *)
Elected == INSTANCE Election WITH
    Procs <- Processes, phase <- key,
    adjusting <- {p \in Processes : pc[p] = "adjust"}, started <- {p \in Processes : pc[p] = "up"}

ElectsOne == Elected!Spec

(* A process that imports layman does not wait for ever: it serves, or it  *)
(* fails, unless gunicorn has killed a process meanwhile (the key is then  *)
(* left "processing" and all wait until the next launch).                  *)
ComesUp ==
    \A p \in Processes : pc[p] = "watched" ~> pc[p] \in {"up", "failed", "off"} \/ kills > 0

(* An installation that Layman itself has begun passes the check of the    *)
(* version when it is launched again ("run make upgrade-after-timeout to   *)
(* finish upgrade", README.md).  Not so: an initialisation that stops      *)
(* after it has made the schema is never taken for a new one again, and    *)
(* its version is set last.                                                *)
UpgradeFinishes ==
    \A p \in Processes :
        Calls(p) /\ Head(todo[p]).kind = "check_version_upgradeability" /\ release # "1.23"
            => Ready(Head(todo[p]))
=============================================================================
