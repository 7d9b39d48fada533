# Jet Bridge: specifications, model checking and proofs

Jet Bridge (`src/packages`) serves a REST and GraphQL interface to the databases of
its users. One process holds connections to many databases at once, serves requests
from a pool of threads and keeps what it has learned of each database (reflected
tables, generated GraphQL schemas, rendered model descriptions) in memory, almost
without locks. This directory holds TLA+ modules of the parts where that is hard to
get right, the TLC configurations that check them on small instances, and TLAPS
proofs of their safety properties for all instances.

Paths below are relative to `src/packages/jet_bridge_base/jet_bridge_base/` unless they
begin with `jet_bridge/`, which stands for `src/packages/jet_bridge/jet_bridge/`.

## The system

| Component | State | Operations | Interacts with |
|---|---|---|---|
| Connection registry (`db.py`) | `connections`, `pending_connections`: two dictionaries by connection id, no lock | `connect_database`, `dispose_connection`, `create_session`, reload view | every view; tunnel; blacklist file |
| SSH tunnel (`ssh_tunnel.py`) | an ssh process and a check thread per tunnel | `start`, `close`, check every 5 s, `on_close` | disposes of connections |
| GraphQL schema cache (`views/graphql.py`, `db.py`) | four keys of `connection['cache']`, one lock per connection, one condition per schema object | get, wait, create, invalidate, release | registry, overrides, table changes |
| GraphQL queries (`utils/graphql.py`) | none of their own | page, aggregates, lookups, count | queryset, filters |
| Model descriptions cache (`views/model_description.py`) | response and hash in `connection['cache']` | get, invalidate | registry, overrides, table changes |
| Relation overrides (`serializers/relationship_override.py`, `store.py`) | rows of a local SQLite store | save, read by schema builders | schema caches |
| Table and column changes (`views/table.py`, `views/table_column.py`) | in-memory metadata and mapped classes, the database itself | create, update, destroy | schema caches, metadata file |
| Metadata file (`db_types/*/..._metadata_file.py`) | a file per connection and parameters, shared by processes | dump, load, remove | registry, table changes, reload |
| SQL and Mongo access (`db_types/`, `utils/conf.py`) | engine, metadata; Mongo session records | init, reflect, query, commit | registry |
| Request dispatch (`jet_bridge/handlers`, `jet_bridge/router.py`, `views/base/api.py`) | thread pool, session per request, `last_request` | before, dispatch, after | every view |
| Generic views, paginators (`views/model.py`, `views/base/generic_api.py`, `paginators/`) | one view object per handler class, shared by threads, and its paginator | list, create, update, destroy, reorder, reset, siblings | dispatch |
| Filters (`filters/`, `serializers/sql.py`) | none | criteria of a request, for SQLAlchemy, MongoDB and raw SQL | views, GraphQL |
| Media cache (`media_cache.py`, `views/image_resize.py`) | list of files and total size, the directory | add, evict, lookup | thread pool |
| External auth, proxied requests (`serializers/proxy_request.py`, `external_auth/`) | tokens in the client's cookie | refresh | thread pool |
| Uploads, tracking, permissions, fields, settings, `jet_django`, Docker, scripts | | | |

What is hard in it: the dictionaries of the registry are read, tested and written in
separate steps by all threads; waits have lost wake-ups and a 10 minute timeout; a
connection is disposed of by requests, by reloads, by blacklisting and by the check
threads of tunnels, each of which acts on whatever is registered by then; schemas are
generated for minutes outside of any lock while their source changes; a change of a
table goes through four copies of the schema; one paginator serves the requests of all
threads; every step that talks to a database or to ssh may fail. `PROJECT.json` lists
each hazard with its line and the properties that guard it.

What makes each component correct:

* registry: pending entries never outlive their attempt; nothing disposed of is handed
  out or put back; a tunnel does not outlive its engine; every call ends; equal ids mean
  equal engines;
* GraphQL cache: nobody is answered from a schema that was invalidated before they
  asked; an entry in progress has a generator unless an access raised where nothing
  catches it; nobody hangs;
* GraphQL queries: each row gets its own lookups; pages, `hasMore` and counts fit;
* model descriptions: the same freshness, and a hash that belongs to the response;
* overrides, table changes, metadata file: memory, file and database agree after a
  change, a failure or a restart;
* views of a model: a walk over the pages loses no row, siblings are neighbours, it is
  known what moves make of an order, reports of bulk creations are true;
* filters: one meaning for SQL, MongoDB and raw SQL; MongoDB columns have the type of
  their data;
* media cache, tokens: overlapping requests do not break what the next one relies on.

## Modules

| Module | Role |
|---|---|
| `ConnectionRegistry` | registry, tunnel, check thread, reload, for one connection id |
| `ConnectionConfs` | which configurations share a connection or a metadata file |
| `SchemaReads` | what a schema cache promises its readers, in five variables |
| `GraphQLSchemaCache` | the cache of `views/graphql.py` and its invalidations |
| `GraphQLQueries` | list queries of a generated GraphQL schema |
| `RelationOverrides` | saves of relation overrides in the SQLite store, and the schemas made from them |
| `ModelDescriptions` | the cached model descriptions, their hash, and conditional requests |
| `SchemaChanges` | changes of tables and columns, their copies in processes and in the metadata file |
| `QueryFilters` | what a filter keeps, as operators: used by the next ones and by `GraphQLQueries` |
| `RequestFilters` | the ways to filter compared with each other |
| `ModelRequests` | list, update, destroy, bulk creation, reorder, reset and siblings of a model |
| `MongoReflection` | the columns found in a MongoDB collection |
| `MediaCache` | the cache of thumbnails |
| `TokenRefresh` | tokens of proxied requests |
| `Services` | the composition of six parts that share no state |
| `MC...` | instances for TLC |
| `..._proofs` | theorems |

Where a definition is a "mistake to compare with", it is a plausible slip that some
property has to detect, and no action of the model uses it.

### ConnectionRegistry

No operation touches two connection ids, so the module describes one. A call makes at
most one attempt, so the pending entry, its condition variable, the engine, the tunnel
and the connection object are named by the call: `registered` and `pending` hold a call
or `NoCall`. Each action is one access to shared state with the local code around it.

| Action | Code |
|---|---|
| `Start` | a worker thread takes the call; `ReloadView.post` first disposes (`views/reload.py:19-28`) |
| `CheckBlacklist`, `Lookup` | `db.py:173-194` |
| `GetPending`, `EnterWait`, `WaitTimeout`, `FindAfterWait` | `wait_pending_connection`, `db.py:103-120` |
| `Claim`, `StartTunnel`, `InitConnection`, `Register`, `Reread` | `db.py:213-243`; the tunnel in `ssh_tunnel.py:55-143`, initialisation in `db_types/sql/sql_db.py:21-97` |
| `CloseOnError`, `CheckPending`, `ComparePending`, `DeletePending`, `Notify` | the `except` and `finally` blocks, `db.py:244-254`; `db.py:250` reads the entry twice |
| `Finish` | the second blacklist check of `create_session`, `db.py:302-314` |
| `Dispose`, `DisposeObject`, `DeleteRegistered` | `dispose_connection`, `db.py:257-279`, run by a call or by a check thread |
| `CheckTunnel`, `OnClose` | `ssh_tunnel.py:39-53,96-110` and `db.py:76-84` |
| `TunnelDrops`, `Blacklist` | external events |

An engine is `open` once its connection is set up, `disposed` after `engine.dispose()`,
and `abandoned` when the attempt failed after creating it: nobody disposes of such an
engine, it lives until it is garbage collected. `SSHTunnel.start` and
`init_database_connection` are single steps that succeed or raise; only their effect on
the registry, the engine and the tunnel is kept. A disposal that raises is modelled
before its first effect: if `engine.dispose()` raises, the tunnel is not closed. A
`KeyError` in the `finally` block skips the notification and replaces the result. Two
history variables, `seen` and `undisposed`, say what a thread found when it looked at the
registry, and which disposals have raised.

### ConnectionConfs

The request's settings (`utils/conf.py`) lead to a connection through three keys: the id,
the parameters that must match for a registered connection to be used again, and the path
of the metadata file. `Connect` follows `connect_database` from there: `Engine` and
`Reflected` name the settings that the engine and the reflected tables depend on, dialect
by dialect (`db_types/sql/sql_db.py`, `db_types/mongo/mongo_db.py`). Requests come one at
a time; hashes do not collide. A family of configurations differs from its base in
exactly one field, every field in turn.

### GraphQLSchemaCache

The lock of the connection makes each access to the cache one step and protects nothing
else. What a schema was generated from is a version number of its source, the mapped
tables and the stored overrides: `content`. `clearedAt` and `asked` are history
variables: when each key was last cleared, and what a request found on arrival. A
cached entry is its object's owner (the request that created it stands for the random
id and the condition variable) and the version of its schema.

Each access goes through `get_request_connection`: `Disconnect` takes the cache away,
`Connect` brings an empty one and a newly reflected source, `ConnectionError` is the
exception a request gets in between. Writers change the source and then invalidate
all keys (a table change, through `reload_request_mapped_base`) or the draft or
published ones (a save of relation overrides), or fail to, since that is an access too. The periodic release checks without the
lock and clears later; it raises, and clears nothing, when an entry is in progress.

An access may raise although the connection stays registered (`is_hostname_blacklisted`
raises before the registry is read), and so may `get_memory_usage`. Where that happens at
`views/graphql.py:77-78`, before the `try` block, or at 142, inside of its `except` block,
the entry stays in progress without a generator: `ConnectionError`, `BeginGeneration` and
`Cleanup` have it, and `raised` remembers the request. A waiter's timeout then makes it put
its own entry over it; until that happens the periodic release raises as well and releases
nothing of this connection.

`SchemaReads` says what remains when caches, locks, generators and waiters are taken
away: a request is answered from a version that is not older than the last invalidation
of its key before it arrived and not newer than the source, or it fails.

### RelationOverrides

A save replaces the overrides of each model in its body: it queries the rows of the
model ordered by name, gives the i-th row the i-th override, adds or deletes the rest.
`Query` is the query; `LockStore` and `Flush` are the flush of the item's changes, which
SQLAlchemy sends before the next query or the commit. Three facts about the libraries matter and are
modelled as external: a query opens no SQLite transaction, the first write does and
holds the store's only write lock until `Commit` or `Rollback`; an `UPDATE` that matches
no row raises, a `DELETE` does not (`Stale`); SQLite gives the largest row id plus one,
so an id is used again (`NextId`). `LockTimeout` is the end of
SQLite's wait for the lock, `SaveFails` the exception or a commit that readers block. A query that waits longer than that for a commit under way
is not modelled; it fails before the save has changed anything. Connections never share
rows except through reused ids, so one connection id is modelled. `schema[d]` holds what
the cached GraphQL schema of the flag was generated from; `untold[d]` is a history variable,
true once rows have changed without that schema being cleared: by a save of the other flag,
or because the connection could not be had (`ReloadFails`).

### ModelDescriptions

`Ask`, `ReadTables` and `AnswerCached` or `AnswerRendered` are `ModelDescriptionView.get`
up to `get_queryset`, that call, and the section under the lock. `BeginLoad`, `EndLoad`
and `Clear` are `load_mapped_base`, which empties and fills the classes other requests
read, and `reload_request_model_descriptions_cache`. `response` and `hash` are the two keys;
`None` and `Absent` are kept apart for the hash, since `cache.get` treats them
differently. A client keeps the last body it got with an ETag and sends the tag back;
`offered` and `shown` record what a full answer would have carried and what the client
shows. The `draft` argument makes no difference to the response, since its filter
compares it with itself. `LoadFails` is a `prepare` that raises and leaves the classes half
made, `ClearFails` an access to the cache that raises; both leave the cache as it was.
`late` and `overtaken` remember whether the cached response, or what a request has read, is
from before the last clearing.

### SchemaChanges

A schema is a set of tables and of columns of one table; a change replaces an old item by
a new one or by none. The database, a process's `MappedBase.metadata`, its classes and
the metadata file are four copies of it. `Begin` is the handler up to its first statement,
`Execute`, `Alter` and `AddConstraint` are the statements, `RemoveItem` takes what was
dropped out of memory, `Undo` is
`revert_column_changes`, `Prepare` to `WriteFile` are `update_base`, run before the
commit of a column update; a dump may fail before or after it has emptied the file. `Start`, `Load`, `OpenNew`, `WriteNew` set a connection up, from the
file if it can be loaded; `RemoveFile`, `Forget`, `Dispose`, `Reloaded` are a
reload; `Crash` and `Outside` are a process that dies and another tool. A change whose process reloads
meanwhile goes on with a metadata object that nobody else sees (`lost`). Left out: the
foreign keys a column change takes along; a rename to a name that another column of the
same table has (memory then loses that column); the moment in which
`load_mapped_base` has emptied the classes, which is in `ModelDescriptions`.

### ModelRequests and QueryFilters

The threads share one view object and its paginator; each has its own session. An action
is one statement, which sees what is committed, or one use of the paginator. A row has its key
and one cell, filtered, ordered by and written. `PageData` and `PageCount` are the two
statements of a list; `PageCount`, `PageNumber`, `PageSize` write the paginator's attributes
and `Answer` reads them, one at a time. `RowsCount`, `RowNumber`, `RowSiblings` are siblings,
of which a list of more than `MaxSiblings` rows (10000) has none; `ReadSegment`, `Shift`,
`Place` a move; `ResetCommit` writes the places that have changed. `AfterMove` says what a
lone move makes of an order without gaps: the code puts the item of a backward move at the
last place of the segment too (`serializers/reorder.py:54-58`), where the row shifted last
is, and the first place stays empty. No document or test of the repository says what a
backward move should do. `CreateSql` and `CreateMongo` are an item of a bulk creation with what a failure
does to the session: for SQL, a refused item is rolled back, but one with a key of its own may
also leave the transaction unusable until a later item rolls it back; for MongoDB, a refused record stays
queued and is tried again with the next item.

`QueryFilters!Keeps` says for each kind of column, lookup and negation whether the cell is
kept, for SQL with its unknown values and for MongoDB; 0 and False are arguments, empty
texts are none. An argument is the strings given for its name, and a string its parts between
commas: `in` takes a single string apart and several ones as they are (`Value`); the bare
name counts only where the lookup's own argument is absent (`ArgumentOf`). `RequestFilters`
adds strings to a request one by one and compares the translations: `exclude` with the plain
lookup, SQLAlchemy with MongoDB, both with `SqlSerializer`, and the searches of the two
engines with each other. `Searched` has all branches of `queryset_search`: MongoDB's text
index answers alone, numbers are compared as texts by SQL and as what `int` reads by
MongoDB, select and JSON columns are searched by SQL only and ids by MongoDB only; without
any column to search, SQL keeps all rows and MongoDB none. Where the translations differ, the
property names the condition instead of the model hiding the difference. `CountsOf` lets the engine
estimate the size of an unfiltered table.

### GraphQLQueries

`ReadPage`, `Aggregate`, `LoadRelated` and `Count` are the statements of
`resolve_model_list`, on two related tables, with the joins that filters over the relation
add (one for each clause), the three ways in which dialects avoid duplicates, limits and offsets at their
ends. `Change` is another session. One level of relations is modelled; deeper levels
repeat the code.

### MongoReflection

`reflect_mongodb` reads a collection page by page, by skip and limit, through a cursor that is
itself read in batches, while others insert and delete: `Find`, `ReadRecord` and `EndPage`
are the steps of a page, and others write between any two of them. `Read` is what a record
adds to the columns; `Taken` is the type a column has after a value. No page is begun behind
`MaxReadRecords`, which the code always passes.

### MediaCache

One action is one access to the disk or one statement on the list or the size. While
CPython sorts the list in place it looks empty to other threads, and what they append is lost. Several
requests that resize one image at once list it twice; the eviction then fails on the
second entry, for every later request, until a restart; a write that fails leaves a part of a file that no list has.
`clean` excepts these.

### TokenRefresh

The cookie is read when a request begins and set when its response arrives; between the
two it resolves its secret names (`NameCounts` are the numbers of those that name the access
token), each of which may refresh the token. Four kinds of
providers differ in what becomes of a refresh token that was used. `smooth` is about what
has happened and not about how requests overlap: it is false once an answer was lost
at a provider whose tokens can be used once, a provider has left the refresh token out (the
code then stores none, and the chain ends), or one that punishes a second use has seen one.

## What is checked

All runs use two TLC workers and finish within three minutes each.

| Run | Instance | Properties |
|---|---|---|
| `registry_three_calls` | 3 calls, 2 params, sessions and reloads, failing disposals | `PendingHasConnector`, `NoZombieRegistration`, `RegistersOnlyFresh` |
| `registry_two_workers` | 3 calls, 2 at once, 2 params, sessions and reloads, failing disposals | `GetsRequestedParams`, `DropsOnlyUnseen` |
| `registry_liveness` | 2 overlapping reloads, tunnels, fairness | `TypeOK`, `NoTunnelWithoutEngine`, `CallsEnd`, `TunnelLossHeals` |
| `registry_tunnel_lost` | 1 call, tunnel, fairness; a violation | `ClosedTunnelDisposes` |
| `registry_tunnel_other` | 2 reloads, tunnels; a violation | `DisposesOnlyClosedTunnels` |
| `graphql` | 2 requests, 1 writer, published and draft key, versions 0..2, fairness | `TypeOK`, `FreshCache`, `FreshAnswer`, `ProgressHasGenerator`, `ImplementsReads`, `ImplementsFairReads` |
| `overrides` | 3 saves, bodies of up to 2 models with 0 to 2 overrides, drafts and published | `TypeOK`, `LockIsLive`, `SchemaFollowsRows`, `LoneSaveIsExact` |
| `descriptions_mixed` | 2 clients with and without `cid`, 2 changes, all overlapping, failing reloads, versions 0..3, responses cached | `TypeOK`, `NotModifiedMeansSame`, `FreshDescriptions` |
| `descriptions_cid` | the same, all with `cid` | `ShownIsOffered` |
| `schema_changes` | 2 processes, 2 changes, 1 table, 2 columns, 1 reload, crash or outside change | `TypeOK`, `NoPhantomTable`, `CopiesAgree`, `ReloadIsFresh` |
| `model_requests` | 2 requests of every kind, 3 rows with ties, nulls and gaps, SQL and MongoDB | `TypeOK`, `NoEarlyEnd`, `WalkIsComplete`, `SiblingsAreNeighbours`, `OrderIsKnown`, `BulkReportIsTrue` |
| `services` | one of six parts, see below | `LookupsAreOwn`, `PagesAreRight`, `FiltersAgree`, `CacheAccounts`, `RefreshChainUnbroken`, `SameIdSameEngine`, `TypesFollowData` |

The variable `which` of `Services` chooses the part at the beginning: GraphQL queries on
up to three rows, with two related tables' contents, 2 clauses and one change by others;
filters with up to 2 arguments on every kind of column; the media cache with 2 threads, 3
images, a limit of 2 and 3 saves; token refresh with 2 requests of 1 to 3 names and 4
tokens; connection
keys with 9 engines, with and without a tunnel, every field varied, 2 requests and
restarts; MongoDB collections of up to 5 records in pages of 2 and a limit of 3, with one
change anywhere. Properties are stated in the part's module.

**Bounds.** Two calls are enough for each pairwise race of the registry (claim against
claim, dispose against register, check against delete), the third one lets a waiter or
a second disposal take part in it. The disposal of a connection with a tunnel is the
same code, so tunnels are checked with two calls. Two params make "same" and "different".
`MaxContent` bounds changes and reconnects together: three versions let a generation
begin before a change and end after a second one. A call or request ends once it is
over and none starts anew, so the instances stop: their configurations do not check for
deadlock; that nothing stops earlier is what `CallsEnd` and `ImplementsFairReads` say.
Symmetry is used only where no liveness is checked. Three saves let two overlap, fail or
reuse a row id and the third run alone on what they left; two overrides per model are
enough to update, add and delete by position. Three versions of the tables let a client
keep a body over two changes. A schema change
meets at most one other, in its own process or in the other one, and one upset
(`MaxUpsets`) between any two of their steps; two columns make a rename. Three rows have
a tie, a neighbour on each side and a page that is not full; two requests are a reader
and a writer, two writers, or two users of the paginator. Two thumbnails of one or two bytes fit a
limit of 2 or exceed it. Four tokens let both requests refresh twice. Two clauses are the least that
multiply rows; page sizes of 2 split three rows.

**Fairness.** Threads are scheduled, so each enabled step of a call, a check thread or a
request is eventually taken; `Condition.wait` has a timeout, hence `WaitTimeout` is among
those steps; `init_database_connection`, ssh and the generator come to an end (the
engine is created with a connect timeout, ssh either forwards or exits). Arrivals, tunnel
losses, blacklisting, changes, releases and reconnects are not fair: they may never
happen. Only the registry and the GraphQL cache make promises about the end
of things that depend on other threads; the other modules state safety only.

**What does not hold.** Overlapping calls may connect twice, and the connection that is
registered first is then replaced without being disposed of; a connection may also be
deleted from the registry undisposed, by a thread that has disposed of another one. `DropsOnlyUnseen`
says how far that goes: only a connection that came after that thread had looked at the
registry is lost, or one whose disposal raised before. A call that waited may get a
connection with other params than its own; `GetsRequestedParams` says the same of it. A
`KeyError` in the `finally` block loses the notification, and the waiters their 10 minutes. Two
disagreements between the code and its own log lines are recorded as findings: a tunnel that
drops before its connection is registered leaves a dead connection behind for good, and the
check thread of an old tunnel disposes of a newer, healthy connection.

An entry of the GraphQL cache stays in progress without a generator when an access raises
outside of `create_schema`'s `try` block, until a waiter times out: `ProgressHasGenerator`
names these requests. Overlapping saves of overrides may mix their rows, duplicate them, or
rename a row of another model whose id was used again; `LoneSaveIsExact` says that a later
save that runs alone puts its models right. A save of drafts rewrites published rows, and the
reverse, and clears the schemas of its own flag only: `SchemaFollowsRows` allows a schema to
be behind after such a save, and after a clearing that raised. After a
reload, a response that was cached for a request without `cid` has no hash, clients get
the ETag `"None"` for it, and after the next change such a client may get a 304 for
another response: the exception in `NotModifiedMeansSame`. A request that has read the
tables before the cache is cleared may store a description from before the change, or a
partial one, after it, and a reload that raises leaves whatever it has prepared: the
exceptions in `FreshDescriptions`.

Schema changes keep their copies equal only as long as they do not overlap and no step
fails that the code does not undo (`serial`): a column that could not be added stays in memory, the file
is written before the commit that may fail, and other processes are never told. A list may
end early if another request with another page size uses the paginator in between. A backward
move past several rows leaves its first place empty and two rows at its last, and of moves that overlap with other
writers nothing is said. A GraphQL page that has two keys which look the same gives each of
them the related rows of both. After a reload that
begins while a connection is set up, the old file may be back. On engines that neither
group nor use arrays (SQLite), a filter over a relation lists a row once for each match. Two
requests that resize one image, or a provider that leaves its refresh token out, break
what `CacheAccounts` and `RefreshChainUnbroken` otherwise say.

## What is proved

For every value of the constants, from the named assumptions on them alone and from the
hypotheses given here:

| Module | Theorems | Hypotheses |
|---|---|---|
| `ConnectionRegistry_proofs` | `TypeOK`, `PendingHasConnector`, `NoZombieRegistration`, `RegistersOnlyFresh`, `NoTunnelWithoutEngine` | |
| | `GetsRequestedParams`, `DropsOnlyUnseen` | |
| `GraphQLSchemaCache_proofs` | `TypeOK`, `FreshCache`, `FreshAnswer`, `ProgressHasGenerator`, `Spec => Reads!Spec` | |
| `RelationOverrides_proofs` | `TypeOK`, `LockIsLive`, `LoneSaveIsExact`, `SchemaFollowsRows` | |
| `ModelDescriptions_proofs` | `TypeOK`, `NotModifiedMeansSame`, `FreshDescriptions` | |
| | `ShownIsOffered` | all requests carry `cid`, or responses are not cached |
| `SchemaChanges_proofs` | `TypeOK`, `NoPhantomTable`, `CopiesAgree`, `ReloadIsFresh` | |
| `ModelRequests_proofs` | `TypeOK`, `NoEarlyEnd`, `BulkReportIsTrue`, `OrderIsKnown`, `SiblingsAreNeighbours`, `WalkIsComplete` | |
| `TokenRefresh_proofs` | `RefreshChainUnbroken` | `None` is neither a token nor a cookie; the numbers of names are numbers |
| `Services_proofs` | `SameIdSameEngine`, `LookupsAreOwn`, `PagesAreRight`, `CacheAccounts`, `TypesFollowData`, `FiltersAgree`, `RefreshChainUnbroken` of the composition | |

The hypothesis of `ShownIsOffered` is the setting of its run, and needed: "What does not
hold" says what goes wrong without it. Those of `TokenRefresh_proofs` are an assumption of
`Services`.

### Registry

`PendingHasConnector` is inductive with the types. `NoZombieRegistration` is not: a
disposed connection must not be registered later. `Fresh` adds that a connection whose
call has not registered it yet is neither registered nor captured by any thread, that it
is registered with an open engine, and that its check thread has not begun.
`RegistersOnlyFresh` follows from the same invariant. For the tunnels, `TunnelInAttempt`
says that a tunnel is up without an open engine only inside the attempt that started it.

`RaceInv` is about calls that overlap in any way. `Unmade` says that a connection begins
with the engine its own call makes, `SeenMade` that what a thread has seen had come into the
registry before. `Captured` is the heart of `DropsOnlyUnseen`: while a thread disposes of
what it captured, the registry holds that connection, or nothing, or one that came later;
`NothingSeen` says the same for calls that found nothing. With
`Results`, a result is one that `GetsRequestedParams` allows.

### GraphQL cache

`CacheInv` has six parts. The one that matters is `GeneratedInTime`: a
schema about to be stored is from after its request's arrival, and from after the last
invalidation of its key as long as the request still owns the entry, since clearing a
key takes the entry away. With `Ordered`, `AskedBefore`, `AnsweredInTime` and
`GoneIsEmpty` it gives freshness of the cache and of the answers; the refinement maps an
answer to the step that takes it from the cache, or to the notification at the end of
the own generation.

### Overrides

`LockIsLive` is inductive. `SchemaInv` says for both flags that a schema is behind the rows
only while a save of its flag has still to clear it, or once `untold` notes why it never will.

`LoneSaveIsExact` is about a step, the commit of a save that nobody overlapped: `LoneInv` says what such a save has done so far: models it has not come to have the
rows they had, and each model it has come to has the names of its last item, one row
each (`Exact`, `Holds`). `SortedAgree`, that two lists of the same rows in the order of their names
have the same names, makes it independent of how the query breaks ties. The names
of an item are in order (`OverridesAssumption`), as the save sorts them.

### Model descriptions

`TagInv` adds that a hash in the cache is the one of the
response beside it, which holds since both keys are cleared together and the hash is
stored only with its response, and that a client's tag belongs to the body it kept.
`HashBeside` rules the tag `None` out; TLC checks `ShownIsOffered` where all requests carry
`cid`, the theorem also covers uncached responses. `FreshInv` says that what a request has
read, and nobody has overtaken since, is as `FreshDescriptions` wants it: either the classes
are whole, or something explains that they are not (`Excused`), another load or one that failed.

### Schema changes

`Explained` is the inductive form of `NoPhantomTable`: every table in the memory of a
process that the database does not have, also in the file and in what a change holds, has
a witness: a creation still at its statement, whose failure will remove it, a drop that has
still to take it from memory, or a suspicion. `FileStaysAway` says
that between the removal of the file and the reflection of a clean reload there is no file and nobody of the process about to write one; `ReloadIsFresh`
follows from it. `CopiesAgree` speaks of quiet moments only; `Agreeing` says what holds in
between, as long as changes come one by one: how far the copies are behind
at each step of the one change (`Ahead`, `Underway`), of a connection that is set up (`Fixing`), and
after both (`Settled`).

### Requests of a model

`WalkSound` says that the rows of a page fill it or end the list, a fact about
`SubSeq` alone, so the answer is right whatever the count has become; it is the reason for
`has_next_potential`. For bulk creations, `BulkSound` says where each item is: inserted,
in the session's queue, or refused for good; an item that MongoDB reports as inserted has
emptied the queue.

`OrderInv` says what the committed places are while the order is known (`AsTidied`), that an
undisturbed move or reset has loaded and written what is true of them (`UpToDate`), and that
what a move has not committed is one off what is (`OneOff`). A forward move keeps the places
1 to n, because it shifts a segment of them by one (`PlaceKeepsDense`); a backward move over
several rows leaves a gap and a tie, at places that the move determines (`PlaceLeavesGap`); a
reset numbers the rows (`ResetMakesDense`). The list of a filter and an order is proved to be the only
sequence of the matching rows that is sorted, the key breaking ties; `SiblingsInv` then makes the row
before and after the row's number its neighbours, and `FollowedInv` makes the pages seen so far,
put together, a prefix of the list, until somebody writes or another list takes the paginator.

### Connections and tokens

Equality of keys gives equality of engines (`ConfsInv`) because each
registered connection, and each file, was made from some configuration with the same key
and the key has every setting that the engine, or the reflection, reads; the proof splits
on the engine's dialect. For tokens, `Chain` says who has the last refresh token of each
kind of provider: with rotation exactly one, the cookie or a single request on its way
back, and whoever carries an older one is refused without harm; a provider that revokes never
sees an old one as long as the chain is `smooth`: no used token is sent to it, no answer is
lost, and none leaves the refresh token out.

### Queries, media cache and reflection

`QueryInv` keeps the page of a query in step with the database while nobody writes
(`PageInv`), and says that what an aggregate has found is still there, as long as nothing is committed
(`LookupsInv`); pages come from the lemmas that a row occurs in the result as
often as its joins multiply it, and that the result without duplicates is as long as the rows it has.
`MediaInv` says for requests that come one by one that the list has each file of the directory
once, in the order of age (`Lined`), and that the size is the sum of the
list, up to what the one request at work has not yet added or taken off (`Exact`, `Phase`).
`ReflectionInv` follows the cursor through its batches: the type of a column covers each value that was
read (`Covers`, `Fits`), and a column never loses what it covered (`Grows`).

### Filters

`FiltersInv` says that each name of a request is given strings of its kind; the rest of
`FiltersAgree` is about operators. LIKE and the regular expression that MongoDB gets both
say that the asked text occurs in the cell at some place, at its start, at its end or
anywhere (`Occurs`, `LikesAgree`). `FiltersAssumption` says of the inputs that texts are
sequences of numbers, that the unknown value is no truth value, that only `in` is given
strings of several parts, and that the texts which a database writes for a number make one.

### Induction

Where an argument is by induction over a list or over numbers, the proofs take the
least number at which it would fail (`LeastNatural`), and recursive functions are
unfolded one step at a time from their definition. Facts about sorting go by
ranks: the place of an element is the number of elements before it.

**Only model-checked.** The liveness properties `CallsEnd` and `TunnelLossHeals` and the
fair refinement `ImplementsFairReads`: fairness and `ENABLED` are out of the prover's
reach. The two findings are TLC's counterexamples.

## Not modelled

* GraphQL types (`utils/graphql.py:681-864`), type maps and codes (`db_types/`), field
  conversions (`fields/`): tables and translations without state.
* Grouping of lists by periods: tables of `date_trunc` expressions, one for each database.
* Filters over other tables (wildcard relations, m2m, model segments), the statements of
  raw SQL, time zone and schema settings (a rollback may undo them): what they mean is the
  database's.
* File uploads: one check for a free name and one write; two uploads of one name at once
  leave whichever the file system has written last.
* Database tracking: a report per quarter of an hour, whose throttle may let a second one
  through; nothing depends on their number.
* Permissions: one decision on a token that an external backend has signed.
* The login dialogue of external authentication, which is `social_core`'s.
* Dispatch beyond sessions and threads: routing, headers, error pages. `Request.context`
  is shared by all threads, but only logs and two reported times use it; `last_request` is
  set by one dispatch and read by the release, which the cache model leaves open.
* Status and discovery views, settings and start-up, `jet_django`, Docker, hooks, scripts
  and templates: reports, I/O and packaging.
