# Layman in TLA+

Layman publishes geospatial data: a client posts a file or names a table, and Layman makes of it a layer of
GeoServer and QGIS Server, with a style, a thumbnail, a metadata record in Micka and a row in the prime DB schema.
REST requests are handled by several Flask processes, the slow part of publication by chains of Celery tasks. The
two meet in Redis (locks, chains, uuids), in PostgreSQL and in the file system.

Here are models of what is hard about that: who may change a layer when, and who lets go of it; that names and
uuids are taken once; that a dozen sources of one layer or map, made one from another by requests and tasks that fail and
are aborted, end up telling the same; that uploads in chunks come out as the files that were sent; that GeoServer, told call by
call, ends up with what Layman thinks it has; that rights and users are changed statement by statement and stay usable; that
readers who take no lock are told the truth; that of the processes that start at once, one prepares the ground for all. TLC
checks the models on small instances, TLAPS proves for instances of any size what is most important of eight of them, and that
one implements an abstract one.

Paths below are relative to `src/layman/` of the repository unless they start with `doc/`.

## 1. Inventory

| component | state | operations | hard about it |
|---|---|---|---|
| lock of a publication, `common/redis.py` | hash `PUBLICATION_LOCKS` | `create_lock`, `solve_locks`, the decorator around PATCH and DELETE, `unlock_publication` | released by others than take it: by the decorator, by `task_postrun`, by the exception path |
| chains of Celery tasks, `celery.py`, `make_celery.py`, `common/tasks.py` | hashes of chain infos, of last tasks, of steps to run after the chain; results in Celery's backend | `set_publication_chain_info`, `task_postrun`, `abort_publication_chain`, `run_next_chain` | abortion waits only for a time; a task may outlive it; `task_postrun` comes after the result |
| requests that change a layer, `layer/rest_layers.py`, `layer/rest_layer.py`, `layer/util.py`, `util.py` | none of their own | POST, PATCH, DELETE, deletion of all layers, `patch_after_feature_change` | synchronous and asynchronous halves, exceptions in between |
| sources of a layer, `layer/__init__.py` and the modules it names | row, files, table, GeoServer, QGIS Server, thumbnail, Micka | `post_layer`, `patch_layer`, `delete_layer`, tasks `refresh` and `patch_after_feature_change` of each | order of the sources; each reads those before it |
| registry of uuids, `uuid.py` | set of uuids, metadata of each, names of each workspace | `register_publication_uuid_to_redis`, `delete_publication_uuid_from_redis`, import at start | optimistic transaction against deletion command by command |
| upload by chunks, `layer/rest_layer_chunk.py`, `layer/filesystem/input_chunk.py`, `refresh_input_chunk` | directory of chunks, `info.json`, number of chunks in Redis, input files | POST and GET of a chunk, the task that waits | requests in any number and order against a polling task, its time-out and abortion |
| requests that change a map, `map/` | row, file, thumbnail, Micka | POST, PATCH, DELETE, their tasks | the record is written by requests, tasks and people |
| relation of layers and maps, `publication_relation/`, `map/prime_db_schema/` | table of map layers | update of maps after a layer has changed | called from `task_postrun` |
| proxy to GeoServer, `geoserver_proxy.py` | none | WFS-T is forwarded, then each layer it edits is refreshed | data change before Layman knows |
| access rights, `authz/`, `common/prime_db_schema/publications.py`, `rights.py` | tables of rights | checks of requests, rights of GeoServer roles | who may give or lose what |
| users and authentication, `authn/`, `user/` | tables of users and roles, Redis | reserving a user name, deletion of a user | deletion patches and deletes publications of others |
| start and upgrade, `__init__.py`, `upgrade/` | key `LAYMAN_DEPS_ADJUSTED`, table of migrations | one process adjusts the dependencies, the others wait | election in Redis |
| listing, `common/rest.py`, `common/prime_db_schema/publications.py` | none of their own | GET of publications with filter, order, limit, offset | pages of a list that changes |
| GET of a publication, `util.py`, `layer/util.py` | none | answers with the data of each source and the states of tasks | takes no lock, reads a dozen places one after another |
| cache of capabilities, `cache/` | memory of the process, Redis | documents fetched once for all processes, by tests only | validity is shared, contents are not |

Correctness, component by component:

- *lock and chains*: a layer is changed by one request or chain at a time; whoever takes the lock, somebody is there
  to release it; a chain that ended is recorded as ended; a queued step is run; nobody waits for ever.
- *sources*: when all is quiet, all sources say the same; nothing is served whose ground is gone; new data repair
  whatever was broken; DELETE leaves nothing.
- *registry*: a name and a uuid are registered once, as long as the publication lives, and not longer.
- *chunks*: what the task accepts is what was sent; the client is told of nothing that is not there; the task
  gives up, but not while chunks come.
- *maps*: when all is quiet, the thumbnail shows the map and its layers as they are; what people wrote into the record stays,
  the rest follows the map.
- *GeoServer*: what a layer was before is never in the way of what it becomes; a successful publication is exact; DELETE leaves
  nothing.
- *rights and users*: rights end as they were asked for, with somebody who can write; a deleted user leaves nothing.
- *listing*: who goes through all the pages misses nothing that was there all the time.
- *GET*: an answer that does not say UPDATING is what the publication has.
- *start*: one process adjusts the dependencies, each step of the initialisation finds what it needs, nobody serves before
  everything is done, and nobody waits for ever.
- *cache*: not modelled, see section 6.

`PROJECT.json` lists the hazards, each at its line, with the properties that watch it.

## 2. Modules

| module | models | proofs |
|---|---|---|
| `LayerChain` (`MCLayerChain`) | lock, chain and queue of one layer, with all the requests that take the lock | `LayerChainProofs` |
| `UuidRegistry` | the registry with POST and DELETE of layers and maps around it | `RedisProofs` |
| `LayerSources` | the sources of one layer, and what requests and tasks do to them | `LayerSourcesProofs` |
| `ChunkUpload` (`MCChunkUpload`) | one layer's uploads by chunks | `ChunkUploadProofs` |
| `GeoServerLayer` (`MCGeoServerLayer`) | stores, layers, styles and rules of one layer in GeoServer, call by call | `GeoServerLayerProofs` |
| `Maps` (`MCMaps`) | one map: its sources, requests, tasks, the changes of its layers | `MapsProofs` |
| `AccessRights` (`MCAccessRights`) | users, workspaces and rights in the database, statement by statement; reservation and deletion of users | `AccessRightsProofs` |
| `Listing` (`MCListing`) | GET of publications page by page while they change | `ReadingProofs` |
| `CompleteInfo` | GET of one publication, read by read, while it changes | `ReadingProofs` |
| `Start` (`MCStart`) | flush, waiting for services, election, initialisation, migrations, workers, standalone upgrade | `RedisProofs` |
| `Election` | what the key in Redis promises; `Start` implements it | |

The modules share no variables. Each takes from the others what the code guarantees there, and says so: `LayerSources`,
`GeoServerLayer` and `Maps` have one editing request at a time, which `LayerChain` checks as `EditedAlone`; `ChunkUpload` refuses PATCH while the
task is active, which is `Patch` of `LayerChain` with the lock `post` or `patch`; `LayerSources` takes the upload of
chunks as one task, whose inside is `ChunkUpload`, and each source of GeoServer as one step, whose inside is `GeoServerLayer`;
`UuidRegistry` keeps of the lock what POST and DELETE do with it; `CompleteInfo` takes what a request does before its chain as
one step, and the recording of the chain as another.

Definitions that are commented as *faulty* are variants of the definition after them with a plausible bug. No
specification uses them; put in place of the right one, each makes a property fail, and `PROJECT.json` lists which.

### LayerChain

Variables are the Redis hashes (`lock`, `info`, `lastTasks`, `runAfter`), the chains in broker, workers and backend
(`chain`), two columns of the row (`exists`, `status`) and the Flask processes (`proc`).

*Grain.* A step is what a process or worker does between two waits: for a task, for another server, for the client.
So `Patch` is `solve_locks` and taking the lock, `PatchData` is the synchronous part of PATCH up to the recorded
chain, `Epilogue` is what the decorator does after the function has returned. `task_postrun` has two halves
(`PostrunOfLast` then `PostrunRunNext`; `PostrunOfOther` then `PostrunSetStatus`), since GeoServer and the maps are asked in between. Interleaving of single
Redis commands within such a step is not modelled (hazard at `common/redis.py:12`).

*Chains.* `publish` chains run `ChainLen` tasks, the last but one of which sets the status; the chain `metadata` of a PATCH of mere
properties has one task; `refresh` is the chain of `patch_after_feature_change`. Ids of chains are used again when
nothing refers to them, so that behaviours are not bounded by the number of ids but by that of chains alive at once.

*Faults.* `MayTimeOut` lets every wait for a task end early (2 s for a started task, 21 rounds in `wait_for_abort`,
the wait for a consistent chain info). `MayRaise` lets every synchronous part raise, and the assertion of `abort_task_chain` fail: the task that was
aborted in the queue may be started before its state is asserted (`AbortPending`, `AssertAborted`). `Restart` flushes Redis.

### UuidRegistry

The three keys, the row, and of lock and chain what POST and DELETE do with them. WATCH/MULTI/EXEC is modelled by a
flag `dirty` that any change of a watched key sets: the set of uuids, the metadata of this uuid, and the names of the same
type in the workspace. Deletion is three steps (`Srem`, `Del`, `Hdel`). POST of a layer registers before it locks, POST of a map after.
PATCH does not touch the registry; its lock, which could keep POST of the same name from starting, is left out.

### LayerSources

`made` says of every source what it was made from: file, table and style by version, a layer of GeoServer by store,
title and extent, the thumbnail by data and style, the record of Micka by title and extent. A request is a set of
steps, one per source (`StepsOfPatch`), of which it does the one that is next in `Schedule`, the order in which the code goes through sources (`call_modules_fn`): deletions in
reverse order, files, rows, chain. So the tasks of a chain are a set, of which the first in `Order` runs. A task is one step, and what it does is
a set of possible states, which is empty if the task raises for lack of what it needs.

Abstractions: one request that edits the layer at a time; a WFS-T changes the data and asks for the refresh in one step;
every PATCH sends a title, and a new one, and may send access rights that make others see the record, which is deleted and made anew then (`MadeAnew`);
the project of QGIS keeps its title, as PATCH of the title alone does not save it again (`ProjectReflects`); a POST starts when the last survivor of a deleted layer has ended; the task that may outlive its abortion
is that of Micka, of which the code's comment tells; no restart; no security rules, time series, or contents of files,
styles and capabilities.

### ChunkUpload

A step is one command on the directory, on Redis or on an input file; reading `info.json` and storing the number of chunks
are one step, as are the deletion of the directory and of the hash. `input` tells of each file the chunks it was put
together from, and from which upload they are. Saving a chunk is three steps, opening its part, which cuts the file, writing it, and
moving it; `cut` has the files that are not written to their end, and a part that another request moves while it is written becomes a chunk of which the task reads
less than was sent. The time of inactivity is counted in rounds of the task. One chunk may be
sent twice in the life of a layer, as by a client that lost the connection. What follows in the chain after the task is left out.

### GeoServerLayer

`gs` has every object of GeoServer that a layer may have: its layer in each store of the two workspaces, the stores, the rules to read and
write, the style; its value is the title it was given. A request or task is the list of the calls it makes (`refresh_wms`, `delete_wfs`...),
in the order of `layer/geoserver` and of `src/geoserver/util.py`; after POST or PATCH the tasks `refresh_wfs`, `refresh_wms` and `refresh_sld` follow.
What a call needs and does (`Accepts`, `After`) is GeoServer's side, modelled from how the code answers its status codes. A call is done,
refused, lost, or done with its answer lost. `refresh_wms` looks at its abortion at the end, and undoes its calls then.
PATCH of the style alone (`PatchStyle`) publishes without `image_mosaic`, whatever the row says: `restyled` remembers it, and `Published` is
what GeoServer is expected to have.

Abstractions: title and rights are one value, the time regexes and the texts of styles are left out; a call that timed out is done at once or never.

### Maps

`row` has the columns and the rows of `map_layer`; `file`, `thumbnail` and `record` are the other sources; `layer` the layers a map may
show, with the chain each may have. A request is a list of steps, a task one or two: those that read the record and write
it later are two. A change of a layer ends with `LayerChainEnds`, which is the end of the layer's chain and the call
of `update_related_publications_after_change`; its notification finds the map locked or not, and queues its step later.
Editors of the catalogue change properties of the record at any time: another title or extent, an entry of `operates_on` more or less (`Edits`). Which of the map's
layers a record names depends on who sent the request (`ReadableBy`), so requests have an `actor`, and layers have readers, whom a change of the layer may
exchange. Layman compares only those entries of `operates_on` that the record has with those of the map, so that it does not notice what an editor has taken out (`Noticed`).

Abstractions: one request at a time; every PATCH gives a new title, or a new file.

### AccessRights

A step is one statement to the database, one command to Redis or one call to GeoServer; the rows of rights of one type are one step,
as are the workspace and the row of a publication, where nobody reads in between. A call of GeoServer may fail (`AccountFails`), done or not, which ends
the request: `reserve_username` cleans up after a `LaymanError`, and neither `requests` nor `psycopg2` raises one. A request is its step at the publication it has locked
(`now`), the publications it has to patch and to delete, and the list of its steps about a user that come after them (`later`), with
the values it has read before (`ToRemove` is read with the old rights, `PublicPublications` are those that DELETE of a user
starts from). `Given` is the list of rights that the axioms are checked for, which is what was sent, or what is stored, for each type apart.

### Listing and CompleteInfo

Both are about readers that take no lock. In `Listing` the reader is a client who asks for page after page, following `Content-Range` as
the documentation tells; a page is one statement, the total of an empty page another; writers are `insert_publication`, `update_publication`,
`set_bbox` and `delete_publication`, each statement apart. Order and filters are those of the SQL; similarity of texts is a constant, boxes
are sets of cells.

In `CompleteInfo` the reader is GET of a layer: chain info, then lock, then every source, chain info again, the state of every task, and chain info and
lock again; the writers are one request or WFS-T at a time and its chain, with the results of the tasks in Celery's backend, which Celery forgets.
PATCH takes the publication over from a chain of WFS-T, and DELETE from any chain: it marks what is not ready as ABORTED (`Abort`), waits until the chain, which goes
on as far as its tasks do, is recorded as finished, records it as ABORTED, and has the lock (`AbortEnds`); then it sends a chain of its own or fails. Aborting the tasks
is one step, the request waits as long as it takes, nobody else begins meanwhile, and the end of a chain, state and lock, is one step for it; what comes of it otherwise
is the matter of `LayerChain`. A DELETE that succeeds is not modelled here, as nothing is left to GET.

### Start and Election

A function of `upgrade/` is a record: the objects of the database and of GeoServer it needs, those that must not be there, those it makes and
drops, the versions it sets. `run_db_init`, `upgrade` and `Adjustment` are the lists of calls of the code. `Launch` flushes Redis and stops all processes
in whatever they do, so that each launch meets what the former one left. A call may raise at any time (`MayFail`), gunicorn may kill a process that takes too long. Before, `wait_for_deps.py` asks each service in turn: one that cannot be
reached is asked again (`ServiceSilent`), a wrong answer of most ends the program (`ServiceRefuses`).

`Election` is what the key promises: at most one process adjusts, others serve only when it has finished; if it is lost, nobody is elected until the next
launch. `Elected` instantiates it with the key as `phase`, the processes at `adjust` as `adjusting` and those at `up` as `started`; `ElectsOne`
is its specification.

## 3. Runs

| run | question | bounds | what is checked, size |
|---|---|---|---|
| `layer_one_editor` | does a chain run alone, is Redis consistent, is every queued step awaited? | 2 processes: one sends all the edits one after another, both POST and WFS-T; 3 chain ids, chains of 3 tasks; no faults | all safety properties of `LayerChain` but `LockOwned` |
| `layer_liveness` | are requests answered, chains finished, does the layer settle? | as above, 2 chain ids, chains of 2 tasks | liveness, under fairness |
| `layer_faults` | is the lock ever left behind? | 2 processes: one sends POST, PATCH, the PATCH of the deletion of a user and DELETE, the other DELETE; 2 chain ids, chains of 2 tasks; time-outs and exceptions everywhere | `LockOwned`, proved for any number too; 2.5 million states |
| `uuid_registry` | are names and uuids registered once and for as long as the publication lives? | a layer and a map, 2 uuids, 3 processes, one sent DELETE; exceptions | safety, and `RequestsEnd` |
| `sources` | do sources agree, come in order, recover, go away? | POST and any two of PATCH, DELETE, WFS-T; files of three kinds, of known and unknown type, at once or in chunks; external tables; three kinds of styles; exceptions anywhere | safety and action properties; 2.7 million states |
| `chunk_upload` | are files what was sent? | 2 files of 2 chunks and 1, 2 uploads, 2 processes, one chunk sent twice, DELETE, restart | safety, and `GivesUpLate`; 2.8 million states (a task that outlives DELETE, another 5 million, is left to the proofs) |
| `geoserver` | can a layer become any kind from any other, after any failure? | files, tables, GeoTIFFs and mosaics, SLD and QML; 4 requests; 2 failing calls | safety; 560 thousand states |
| `maps` | do thumbnail and record follow the map and its layers, and keep what people wrote? | one map of two users who see other layers, a layer that comes and goes, a foreign layer; 3 requests, a change of the layer, an edit of the record, one failure | `ThumbnailCurrent`, `RecordKept`; 1.5 million states |
| `rights` | do rights end as asked for, and users go away whole? | 2 users with their workspaces, a public workspace, a role; 3 requests, 2 at a time | safety; 660 thousand states up to exchange of clients |
| `listing` | do the pages miss anything? | 3 publications, 2 titles, 2 boxes, every order, filter and invalid combination; 2 changes, each of up to 3 statements | `ListedWhole`; 1.3 million states |
| `complete` | is what GET answers true? | 2 sources, 2 requests with their chains, any number of GETs | `AnswerHolds`; 680 thousand states |
| `start` | is one elected, does each step find what it needs, does Layman come up? | 2 workers of gunicorn, a Celery worker, the standalone upgrade; a new installation, release 2.0, release 1.23; 3 launches, one kill in each, failures anywhere | safety, `ElectsOne`, and `ComesUp` under fairness; 125 thousand states |

All of them pass. Thirteen more configurations are kept, each with one property that a document, a comment or an assertion states and that the
program does not keep; TLC finds a counterexample to each in seconds:

| configuration (module), property | what TLC finds |
|---|---|
| `layer_patch_again` (`MCLayerChain`), `EditedAlone` | PATCH ends by unlocking the layer *by name* if the recorded chain is ready. If that chain fails before the response is prepared, the next PATCH may hold the lock by then; it is released, and a third PATCH edits the layer beside the second one's chain (`common/redis.py:59`). |
| `layer_user_deletion` (`MCLayerChain`), `StepAwaited` | deleting a user patches public layers synchronously; the aborted step of a WFS-T is queued, and the lock released without running it (`util.py:561`). |
| `layer_abort` (`MCLayerChain`), `AbortAsserted` | a worker starts a task between its abortion and the assertion that it is aborted or has finished: the DELETE fails, and the chain goes on (`celery.py:281`). |
| `uuid_locked_name` (`UuidRegistry`), `NothingLeft` | POST of a layer registers the uuid, then fails on the lock of a DELETE in its last moment, and the uuid and the name stay registered until Layman is restarted (`layer/rest_layers.py:223`). |
| `sources_raster` (`LayerSources`), `FeaturesOfVector` | WFS-T queued during a PATCH that makes the layer raster: the chain asserts that the layer is vector, and fails (`layer/prime_db_schema/file_data_tasks.py:29`). |
| `sources_orphan` (`LayerSources`), `NoOrphanRecord` | an aborted task of Micka that ends before DELETE reaches the row finds that the layer still exists and leaves the record it wrote (`layer/micka/soap_tasks.py:34`). |
| `geoserver_mosaic` (`MCGeoServerLayer`), `MosaicStays` | PATCH of the style of a timeseries layer publishes it as a GeoTIFF, while the row keeps `image_mosaic` (`layer/rest_layer.py:193`). |
| `chunk_endpoint` (`MCChunkUpload`), `EndpointActive` | after the time-out the endpoint still takes chunks, and PATCH with file names raises, since the directory is there (`layer/filesystem/tasks.py:44`, `input_chunk.py:73`). |
| `start_after_timeout` (`MCStart`), `UpgradeFinishes` | an initialisation that stops after it made the schema, as by a timeout of GeoServer, is not taken for a new installation at the next launch, which fails in the check of the version for ever, `upgrade-after-timeout` too (`upgrade/__init__.py:135`). |
| `rights_user_deletion` (`MCAccessRights`), `UserIsWhole` | DELETE of a user who has rights to what others publish in personal workspaces, or writes to a public publication that EVERYONE reads, fails at the row of the user, after his username, roles and publications are gone (`user/util.py:147`). |
| `rights_account_left` (`MCAccessRights`), `AccountOfWorkspace` | DELETE of a user deletes his rows first, the call of GeoServer fails: his account stays, and a repeated DELETE finds no such user (`util.py:234`). |
| `complete_between` (`CompleteInfo`), `CompleteIsUpToDate` | an update that begins and ends between the two looks at whether there is one goes unnoticed: the answer says COMPLETE and shows what is gone (`util.py:742`). |
| `complete_aborted` (`CompleteInfo`), `StatusesFinal` | a DELETE aborts the chain and fails; once Celery has forgotten the results, the answer says of every source, for ever, that it is PENDING (`celery.py:309`). |

### Why the bounds are enough

- *`LayerChain`*: a lock, one recorded chain and one kind of queued step: what two requests can do to each other, a third
  cannot make worse but as the one that profits; with edits one at a time, two processes give all pairs of an edit with a WFS-T
  or POST, and three chains are the most that are alive at once (one that is given up, one that is recorded, one that is started).
  Chains of three tasks have a first, a status and a last task.
- *`layer_faults`* adds a second DELETE, which loses the layer while it waits, to edits of every kind; WFS-T with faults, and
  more processes, are covered by the proof of `LockOwned`. Likewise the bounds of `layer_one_editor`, `uuid_registry`, `sources`, `geoserver`, `chunk_upload`, `maps`, `listing` and `complete`
  only matter to what section 4 does not prove; the runs show that the properties are no accident of a proof about something else, and that a bug breaks them.
- *`UuidRegistry`*: a transaction can be disturbed by another one of the same name, of the same uuid, or of neither, and by a
  deletion; three processes and two uuids have all of these at once.
- *`LayerSources`*: PATCH reads what one earlier request and chain left, whole, failed or aborted, and WFS-T may fall
  at any point of it; three requests after the first version of the table give each pair. Longer histories meet the
  same states, since versions are only compared for equality with those of now.
- *`ChunkUpload`*: one file of many chunks and one of a single chunk are the two cases of merging; two uploads, that what the first one left meets
  the second; two processes, that a chunk is sent twice at once; one round of inactivity, that the count of each
  round decides.
- *`GeoServerLayer`*: what was published is the kind before the last one at most, as every PATCH deletes by names of its own; two
  failing calls leave what neither of two requests had foreseen.
- *`Maps`*: a map shows a layer or not; a change of it meets the map idle, in a request, in its chain or in the next one. The thumbnail knows nothing of
  users and of edits of the record; for the record, two users are one who may read the layer and one who may not. A layer that is changed twice while one request
  of the map runs has ten million states, which pass too in five minutes, and is left to `MapsProofs`.
- *`AccessRights`*: every pair of POST, PATCH, DELETE of a publication, reservation and deletion of a user, after one of them; two users are
  one who is deleted and one who is not.
- *`Listing`*: three publications are the one that is missed, the one that moves, and the one that is given twice; pages of one and of two.
- *`CompleteInfo`*: two sources are one that is read before a change and one after; two requests are one that GET has seen and one that it has not.
- *`Start`*: two processes race; three launches are an interrupted one, an interrupted upgrade and the one that is judged.

`CHECK_DEADLOCK FALSE` is in the configurations of `LayerSources`, whose clock is bounded, of `ChunkUpload`, where a
deleted layer is the end, and of the modules whose requests, changes or launches are bounded. `SYMMETRY` is over ids of chains, over the
processes of `ChunkUpload` and the clients of `AccessRights`, in safety runs only.

### Fairness

`LayerChain`: `WF` of each chain's tasks, since workers take every message and tasks end; `SF` of each process's
handling of its request, since it polls for what it waits for, and what it waits for can be true, false and true again
while it sleeps. Clients owe nothing: no request has to come. `UuidRegistry`: `WF` of each process. Waits in the code are bounded by
rounds, so that `RequestEnds` without time-outs, as checked, says that the answer comes for a reason.
`Settles` and `RequestsEnd` are about what happens once no more requests come. `Start`: `WF` of each process that imports Layman, whose next
call returns or raises, and of the Celery worker that waits; services may be silent for ever, and nobody need launch anything. After
gunicorn has killed the elected process the others wait for ever, since the key says `processing` (`ComesUp` leaves that out).

## 4. Proofs

TLAPS checks all obligations of eight modules, about 27 500:

| module | about | hypotheses beside the assumption on constants | obligations |
|---|---|---|---|
| `LayerChainProofs` | `TypeOK`, `LockOwned`; `ChainUnderLock`, `EditedAlone`, `RedisConsistent`, `PreparingAwaited`, `StepAwaited` | none; `NoFaults`, `OneEditor` | 1 990 |
| `RedisProofs` | `RowsRegistered`, `RegisteredOnce`, `KeysAgree`, `LayerLocked`; `TypeOK` of `UuidRegistry`; `ElectsOne`, at most one process adjusts, `StepsFind`, `StartsComplete` | `[]RowDeletedOnce`, `[]DeletedOnce` for `LayerLocked`; none for `TypeOK`, and for `Start` | 5 430 |
| `ChunkUploadProofs` | `Merged`, `ExistsIsStored`, `DeletedWhole`, `GivesUpLate` | none | 2 510 |
| `GeoServerLayerProofs` | `CreatesFresh`, `ExactlyPublished`, `DeletedFromGeoServer` | none | 2 920 |
| `MapsProofs` | `ThumbnailCurrent`, `RecordKept` | none | 4 250 |
| `LayerSourcesProofs` | `TypeOK`, `Consistent`, `InOrder`, `Repairs`, `DeletedWhole`, `StyleKept` | none | 5 390 |
| `ReadingProofs` | `ListedWhole`; `AnswerHolds` | none | 2 050 |
| `AccessRightsProofs` | `RightsAsAccepted`, `RightsMakeSense`, `DeletedLeavesNothing` | none | 3 010 |

**`LayerChainProofs`**: `TypeCorrect` and `LockNeverLeftBehind`, for any number of processes, chain ids and tasks, any
assignment of requests to processes, with or without time-outs and exceptions. Assumption: `LayerChainAssumption`, that
the constants are of their types, that `NoChain` is not a chain, and that chains have at least two tasks.

`LockOwned` is not inductive. That the lock has an owner, a request or the *recorded pending* chain (`LockHasOwner`), is of no
use unless that chain will end: `RecordedRuns` says that its last task is registered and the chain alive, so that its
`task_postrun` will come, and will be the one that finishes it. And finishing releases every lock but that of DELETE, so that `DeleteInProgress` is
needed: a lock of DELETE is always that of a DELETE in progress. `TypeInv` refines the types: position and phase
of a chain agree with its results, and a process aborts only a chain that has that many tasks. There is one lemma for each action;
the lemmas `StartChainFacts`, `RunNextChainFacts` and `UnlockAfterExceptionFacts` state what the shared operators do.

Its second part is about a layer that one client edits: it sends all the edits, one after another, while any number of others post
the layer and change its features (`OneEditor`), and nothing raises or times out (`NoFaults`). Both are needed. With two editors
the epilogue of one unlocks the layer under the other (`layer_patch_again`); an exception releases the lock whoever has it, so that a chain goes on
without; a wait for abortion that times out leaves a task beside the next request. (Without exceptions the assertion of `abort_task_chain` is taken to hold.) `StepsHold` also excludes the synchronous PATCH of the deletion of a
user, which is `layer_user_deletion`. The invariant `EInv(e)` adds three parts to that of the first one: a chain that lives is the recorded one and
has the lock, and the registered last tasks are of chains that live (`ChainInv`); while a process handles a request the others are idle, in its body no
chain lives and the lock is that of its kind, and every request but POST is the editor's, about a layer that exists (`Requests(e)`); the
status follows chain and request (`StatusInv`). No part stands alone: that no chain lives while the layer is edited follows from the lock that was
taken, whose lock it is from where the requests are, and where they are from the chain that was aborted before.

**`RedisProofs`, of `UuidRegistry`**: `RowsAreRegistered`, `RegisteredByOne` and `RegistryAgrees`, for any names, uuids and processes, from
`UuidRegistryAssumption` and the hypothesis `[]RowDeletedOnce`: no two requests are about to delete the row of one publication at the same time. Any number of processes may send
DELETE otherwise. The code does not exclude it, and the hypothesis is needed: of two concurrent DELETE requests the
slower one deletes the row and unregisters by name what was posted after the faster one
(`common/prime_db_schema/publications.py:632`, `uuid.py:86`). `LayersLocked`, that POST of a layer keeps its lock while it creates the
layer, needs it from the abortion on (`[]DeletedOnce`): the slower DELETE takes and releases the lock. `TypesHold` needs no hypothesis.

The invariant says for every process what the keys are given how far it is: a transaction that will be executed still finds what it looked for
(`FreeWhenWatched`, the meaning of WATCH); a process that has registered, and not unregistered, owns its name and, until the metadata
are deleted, its uuid (`Owns`), and no two own one name (`NameOnce`). `Keys` explains each difference between the three keys
by a process that is at `del` or `hdel`. The steps that change the registry are proved through `OthersWatch` and `OthersFree`:
whoever was watching is dirty, or nothing it looked at has changed.

**`RedisProofs`, of `Start`**: `AdjustsOnce` and `OneIsElected`, that `Start` implements `Election` (`ElectsOne`), for any number of processes, launches and
kills, without assumptions. The invariant is the meaning of WATCH again: a process that is about to claim the key and whose watched key nobody
has written still finds none (`Unwritten`); with `KeyTells` and `AdjustsAlone`, `Claim` is `Elect` and `Done` is `Finish`. Any other step
moves a process where `Election` does not look, lets it serve with the key `done` (`ServesIfDone`), or stops processes (`StopsOrLoses`).

`StepsFound` and `StartsWhole`, from `UpgraderApart`, that the standalone upgrade is no process of the server, are that each call of a launch finds what it alters and makes nothing twice, and that
whoever serves finds everything done. Neither says what an earlier launch left, on which both depend. `StartInv`
does (`Installed`): an interrupted launch, whatever stopped it and where, leaves nothing of the prime schema; or an installation whose version is missing, still the first one
(`-1`), or that of 1.23, which the check of the version refuses (`Refused`); or a complete one (`Complete`), with the migrations of data that its versions tell. For each process
that calls, `Doing` says from the list of calls it has left what those before it have made: `Preparing` of GeoServer, `Upgrading` of the initialisation (`InitAt`, after `k - 1` of its 33 calls) and the migrations, `Loading` of Redis.
The lists are those of the code, so these lemmas are tables: `InitTable` gives needs, makes and drops of each call, `MadeOnce` that what must not be there before a call is made by none before it, and from them
`InitFinds` has that the k-th call finds its place and `InitWithin` that it keeps to the objects of the installation. `OneMode`, that the server and the standalone upgrade are not launched together, and `AdjustsAlone` give one
caller at a time, so that the step of one disturbs no other (`OneMoves`). These proofs are about the calls of this version of Layman; a new migration adds a row to a table, and a case.

**`ChunkUploadProofs`**: all four properties of the run `chunk_upload`, for any files and numbers of chunks, any number of processes, uploads and resent
chunks, restarts, with or without a task that outlives DELETE. The invariants build on each other. `TypeInv` has the types, and that the task is at
a chunk of its file. `DInv` says what DELETE has deleted so far and does not come back: `WholeDeleted`. `CInv` says that a
task that collects knows the files of `info.json`, that every input file has its chunks in turn, and that those it has not got yet are stored: `ChunkIsStored`. `XInv` counts, for as long as nothing was sent twice, the places where a
chunk is (a request, the directory, the input file): at most one, so that a file that is accepted is exactly what was sent; `WInv` under it follows the parts that are not written to their end: such a part is written by
the request that opened it last, and becomes a chunk only if two requests had the chunk at once. Both give `FilesMerged`. `QInv` relates
what the task saw at its last look to the directory: a chunk that has come since is counted, `LateGivenUp`.

**`ReadingProofs`**, of `Listing` and of `CompleteInfo`, whose proofs share nothing but the module. `PagesHold`, for any publications, titles, similarities and boxes, all filters and orders, any size of pages and any number of
changes, from `ListingAssumption`, that the constants are of their types and the set of publications is finite. The order of the SQL is shown to be total on what is
listed (comparison of fractions of boxes included), so that the position of a publication, the number of those before it, leaves no gaps and a page is an
interval of positions. A change of one publication moves no other one to the front. The invariant says of the publications that are due
how far the client has come: while nothing has changed, exactly those whose position is below the end of the last page were given; if changes only moved
to the front, whoever was not given yet is still ahead of the client (`GivenSoFar`); at the end nobody is (`GivenAll`).

`AnswersHold`, for any number of sources, requests and GETs. If nobody had the lock when GET read it, and
no request has begun since, nobody has it now (`LockSeen`, from `LockOfChain`: a chain that is not recorded as finished has the lock, or was aborted by a DELETE that has it); so sources, chain and
results stay as they are, and what GET has put together so far is what is there (`AnswerSoFar`). `OrderOfTasks`, that tasks before the first
failed one have succeeded, and `ChainOver`, that a chain which is over has a failed task or a successful last one unless Celery has forgotten it, give what the states of a
failed or aborted chain tell. Statuses of an aborted chain that was forgotten (`Forgotten`) are excepted, see `complete_aborted`.

**`GeoServerLayerProofs`**: `CallsFindTheirPlace`, `PublishedExactly` and `NothingIsLeft`, for any rows a layer may have, any number of requests, changes of
features and calls that fail, from `RowsAssumption`, that the rows are of their types. The invariant is about plans, the calls that a request or a chain has still to make. A plan
*fits* the state of GeoServer (`Fits`) if each POST finds its place free or freed by a DELETE before it, and a layer that is posted is the only one of its workspace, with a
store that is there or made before. A plan *reaches* an expected state on some objects (`Reaches`) if the last call on each leaves what is expected. Both are kept when the
first call is made (`FitsTail`, `ReachesTail`), and when plans that are about different parts of GeoServer (the stores and layers of a workspace, each of its rules, the style) are joined (`FitsConcat`,
`ReachesConcat`), so that the plans of the three tasks are looked at one by one. A plan of DELETE goes from layer to store (`Ordered`) and has a call for whatever is there (`Covers`);
after a failure plans go on to fit,
but reach nothing. PATCH of the title of a mosaic published as GeoTIFF is a plan whose first call is refused (`Refused`), so it never succeeds. The default style is there only with the style and a layer that uses it (`DefaultInUse`), so that deletion by what is found finds all.

**`LayerSourcesProofs`**: all six properties of the run `sources`, for any number of requests and versions, with requests, tasks or nothing failing, with or without tasks that
outlive their abortion. Assumptions: the types of the constants, and `NoneAssumption`, that `None` is none of the values it stands beside. Lemmas about `Order` and `Schedule` say which step of a request and which task
comes next; lemmas about each task say what it needs, sets and leaves alone (`EffectIs`); then the invariants are shown step by step.

None of the properties is inductive, since in the middle of a request or a chain half of the sources are of the former layer. `IInv` says what is there by what is still to be done: what the
tasks of a publishing chain will make is not there yet (`AheadNone`, `Closed`); what PATCH deletes is gone, or the deletion is still to come, and nothing behind the source it goes from survives (`PatchInv`); likewise DELETE
(`DeleteInv`), whose last step is the row: `DeletesWhole`. `Sound` is `InOrder` with what else it rests on, e.g. the kind of the data; deletion in reverse order keeps it at every step: `PublishedInOrder`. `KeptInv` follows the style in
use from the source where it is deleted to the one where it is saved: `KeepsStyle`.

`JInv` adds what the sources are made from. `Reflects` is `SourcesReflect` with three exceptions: the sources that will be published anew (`ToPublish`), those that will be refreshed, be it by the queued
step of a WFS-T (`ToRefresh`), and those that will be given the title of the row (`ToPatch`). It holds of a layer that nothing has failed for (`Healthy`), and of any layer whose chain makes it from its file (`Whole`). If nothing goes on,
there are no exceptions left: `QuietIsConsistent`; and when the last task of a whole chain is done: `WholeChainRepairs`. The record of Micka, which PATCH does not delete, is apart (`RecordReflects`): it goes
wrong if something failed, and a chain from the file does not repair it, as it writes those properties only that were equal when PATCH came.

**`MapsProofs`**: `ThumbnailsHold` and `RecordsHold`, for any users, layers and layouts of maps, any number of requests, changes of layers, edits of the record and
failures. The properties are mostly about a map that nobody works on; the invariant says for each step that a
request or a chain has still to make what follows from it. Either the thumbnail that is there, or the one that was drawn and is not saved yet, is right (`Good`), or it will be
redrawn: by the chain that publishes (`WillPublish`), by one that redraws, by a queued step, or by the step that an aborted chain leaves to a PATCH (`WillRedraw`); a change of a
layer that the map was not told of yet is excepted, as the chain of the layer is still there to tell. For that the rows of map layers must be those of the file
(`RowsMatch`) whenever a layer looks for its maps. `RecordInv` says which property will yet be written (`LaymanKeeps`, by `props` of the request and the chain), and that
no request or chain will write what an editor wrote (`EditorKeeps`), neither by its own values nor by a record it read before.

The attempt found that `RecordKept`, as it was stated first, is false beyond the bounds of the run (section 5, the stale extent of a record). It now excepts an extent that was
written while the row had not that of the file (`FoundEqual`). What an editor has only taken out of `operates_on` is excepted too, since the code does not notice it.

**`AccessRightsProofs`**: `RightsStay`, `RightsUsable` and `NothingLeft`, for any users, public workspaces, lists of names a request may send, clients and number of requests,
from `RightsAssumption`: names of users and workspaces differ from each other and from those of roles, and no list is empty. The invariant has two parts beside the types (`TypeInv`, which has
also the lists of steps that may be left, `Reserving` and `Deleting`).

`RightsInv` is about publications. One that no DELETE came in between at is held by one request, which has its lock (`HeldByOne`); a DELETE that does not wait for the lock is what `crossed`
remembers. Then the rows of rights are what was accepted, but for the owner and `EVERYONE`, who have no row, and users deleted meanwhile (`Fits`); while a request is at them, what they will be after
the rows it has yet to insert and to remove (`StepFits`), which it found when it read the old rights. `Sensible` is what the axioms of rights leave true of what was *accepted*, of both types together
although a request may send one of them; with `Fits` it is what `RightsUsable` says of the rows.

`UsersInv` is about users, in whatever order the providers are called and whichever call of GeoServer fails. It says of each of the places a user may be at (`Named` of the username in Redis, `HasRole`,
`Emptied` of the account and the row) from which step on he is gone, and of a user whose DELETE was answered that he is at none, with no reservation that would bring him back (`IsLeft`). `ReservedAlone`, that a reservation has nobody beside it at its user, holds of those only who
did not reserve the name before its deletion was over (`hasty`): what is left of it would delete what the reservation has just made.

**Model-checked only**:

- *Liveness*, `RequestEnds`, `ChainEnds`, `Settles`, `RequestsEnd` and `ComesUp`: the fairness they need is beyond this prover, which knows nothing of `ENABLED`.

Every safety property of the runs is a theorem, some under the hypotheses named above. What the thirteen configurations of section 3 show to be violated is false there;
`EditedAlone` and `StepAwaited` are theorems under `OneEditor` and `NoFaults`, which their configurations break.

## 5. Seen while modelling, without a run

- A chain that fails drops the queued step of a WFS-T that was committed (`celery.py:48`): extent, thumbnail and metadata stay behind.
- The same if PATCH fails after the step was queued: the step is run, on sources that PATCH has deleted, and fails.
- PATCH that raises after `layer/rest_layer.py:243` leaves the status PREPARING with no chain; one that raises
  between two deletions leaves AVAILABLE, although `doc/rest.md:73` ties that status to what GeoServer serves.
- POST of a map that raises leaves its uuid registered (`map/rest_workspace_maps.py:120`).
- A style that Layman or GeoServer made for former data is kept as if a user had sent it, although `doc/rest.md:197`
  says when such styles are made.
- A chunk that is sent again while its file is put together is appended again if the file has no other chunk, and a chunk of a former upload
  whose request is still handled enters the next upload (`Merged` says how far that goes).
- If it is sent again while its first request is still handled, one request may cut the part that the other is about to move (`layer/filesystem/input_chunk.py:120`),
  and the task merges a chunk that is empty or short: nothing notices. `Merged` says that no other chunk is affected.
- Reading the file of a map indexes its layers by the rows of the former file (`map/util.py:434`): between the saving of a file with fewer layers
  and the refresh of the rows, GET of the file and PATCH raise IndexError; for good if a request or task failed there.
- A map whose chain stopped before its extent was known cannot be patched, with a new file neither (`map/micka/csw.py:153`).
- A PATCH that changes who may read a map makes its record anew, without what people wrote (`common/micka/util.py:678`).
- What an editor of the catalogue takes out of `operates_on` of a map is written again by the next PATCH: the record is compared with those layers of the
  map that it has (`map/util.py:383`), so it is found equal (`map/micka/csw.py:128`, `Noticed` of `Maps`).
- A step that is queued for a map after its chain has ended, but was seen running, waits for the next chain of the map (`util.py:599`; `later` in `ThumbnailCurrent`).
- The title in the project of QGIS is that of the last PATCH of data or style (`ProjectReflects` of `LayerSources`); GeoServer shows its own.
- A PATCH of a map with a file that fails after it has saved the file leaves the row with the extent of the former one. If a PATCH without a file then
  makes the record anew, the record has that extent too; it is never found equal to that of the file again, and no later PATCH, be it one with a file that succeeds, corrects
  it (`FoundEqual` of `Maps`). No run is needed to see it: without the exception `RecordKept` fails with four requests and one failure.
- A reader of the info of a chain who waits for its `task_postrun` waits for that of the next chain if there is one meanwhile, and raises after 2 s
  (`celery.py:177`; `WaitedTooLong` of `CompleteInfo`).
- After Celery has forgotten its results, a chain of WFS-T that failed is no more to be seen in the answer, which says COMPLETE (`util.py:638`).
- PATCH with a new style and no data publishes an image mosaic as a GeoTIFF: `image_mosaic` is None then (`layer/rest_layer.py:193`), and `refresh_wms` asks
  that parameter (`layer/geoserver/tasks.py:75`). The row keeps `image_mosaic`, so a later PATCH of the title asks GeoServer for the coverage
  of the mosaic and fails (`layer/geoserver/wms.py:53`), until the data are sent again. `doc/data-storage.md:124` says "If layer is timeseries,
  Coverage Store is ImageMosaic" (`geoserver_mosaic.cfg`, `MosaicStays`).
- GeoServer's rule to read a layer is absent between the deletion and the posting of its new value (`src/geoserver/util.py:153`).
- The pages of a listing by title may miss a publication that was there all the time, if another one is renamed meanwhile; by name and by last
  change they do not (`ListedWhole`), unless a publication leaves the list, be it between two statements of one PATCH.
- The attempts of `wait_for_deps.py` are shared by all services: a slow database leaves none for GeoServer (`wait_for_deps.py:18`).
- `currently_changing` of `get_wfs_proxy` asks for the layers of the workspace `layman` of GeoServer, which is none of Layman's
  (`layer/geoserver/wfs.py:118`): the list is empty, and capabilities of WFS would be cached while layers change. That of `get_wms_proxy` asks for all layers.
- `save_layer_file_chunk` may store the number of chunks in Redis after DELETE has deleted the key; the key stays.

## 6. Not modelled, and plan

Not modelled for good: formats and parsing (files, styles, SLD, QML, capabilities, WFS-T), transformation of coordinates, normalisation of rasters, texts of metadata,
HTTP and authentication providers: computations without shared state, which tests reach. Tests, documentation and client
are no part of the running system.

The *cache of capabilities* (`cache/`) is filled by nobody in the running system: `get_wfs_proxy` and `get_wms_proxy`, the callers of `mem_redis.get`, are
called by `test_tools/assert_util.py` only; changes of layers clear it, and the metadata comparison reads the key if it is there. Of *users*, the providers of
authentication are left out; of *rights*, the authorization of GET; of the *proxy*, the parsing of WFS-T and the attributes it ensures.

To come, in this order:

1. *Single Redis commands*: `redis.py:12`, `celery.py:64`, `util.py:601` and `util.py:607`, with `LayerChain` as the abstract
   specification where it can be implemented, and a run where it cannot.
2. *Abstract specification*: a layer that is published, changed and deleted by one editor at a time, which `LayerChain`
   under one editor implements.
