------------------------- MODULE GraphQLSchemaCache -------------------------
(***************************************************************************)
(* The cache of generated GraphQL schemas of one connection id:            *)
(* views/graphql.py (get_schema, wait_schema, create_schema) and the       *)
(* invalidations of db.py (reload_request_graphql_schema after a change of *)
(* the tables or of the relation overrides, and the periodic               *)
(* release_inactive_graphql_schemas).                                      *)
(*                                                                         *)
(* connection['lock'] makes every access to connection['cache'] atomic,    *)
(* nothing more: between two accesses a schema is generated, awaited or    *)
(* cleared by others.  Each access goes through get_request_connection, so *)
(* it may raise (always while the connection cannot be established, and    *)
(* also while it is registered: a blacklisted host), and it reaches the    *)
(* empty cache of a new connection after a reconnect.                      *)
(*                                                                         *)
(* A request creates at most one schema object, so the object, its id and  *)
(* its condition variable are named by the request.  What a schema was     *)
(* generated from is a version number of the source (tables and overrides).*)
(***************************************************************************)
EXTENDS Integers

CONSTANTS Requests,    \* GraphQL requests
          Writers,     \* requests that change the source and then invalidate
          Keys,        \* cache keys graphql_schema*, one per (draft, base62)
          DraftKeys,   \* the keys of draft schemas
          None,        \* Python's None
          MaxContent   \* bound on the versions of the source

ASSUME CacheAssumption ==
    /\ None \notin Nat
    /\ None \notin Requests
    /\ DraftKeys \subseteq Keys
    /\ MaxContent \in Nat

VARIABLES
    content,     \* version of the mapped tables and relation overrides
    clearedAt,   \* history: the version when each key was last cleared
    up,          \* the connection is registered
    cache,       \* connection['cache'], restricted to Keys
    pc,          \* where each request is
    key,         \* key[r]: the cache key r needs
    asked,       \* history: clearedAt of that key when r arrived
    ver,         \* ver[r]: the version r generates its schema from
    waitsOn,     \* waitsOn[r]: the schema object whose condition r waits on
    answer,      \* answer[r]: the version of the schema r answers from
    wpc,         \* where each writer is
    scope,       \* scope[w]: which keys the writer clears
    releasing,   \* the periodic task has decided to clear this connection
    raised       \* history: requests with an object whose access raised where
                 \* create_schema does not remove the object

vars == <<content, clearedAt, up, cache, pc, key, asked, ver, waitsOn, answer,
          wpc, scope, releasing, raised>>

RequestPCs == {"idle", "arrived", "wait_enter", "waiting", "woken", "retry", "begin",
               "generating", "store", "cleanup", "notify", "answered", "failed"}
Generating == {"begin", "generating", "store", "cleanup"}
Ended == {"answered", "failed"}
Scopes == {"all", "draft", "published"}

Versions == Nat \cup {None}
Entry == [owner : Requests \cup {None}, schema : Versions]
NoEntry == [owner |-> None, schema |-> None]

TypeOK ==
    /\ content \in Nat
    /\ clearedAt \in [Keys -> Nat]
    /\ up \in BOOLEAN
    /\ cache \in [Keys -> Entry]
    /\ pc \in [Requests -> RequestPCs]
    /\ key \in [Requests -> Keys]
    /\ asked \in [Requests -> Nat]
    /\ ver \in [Requests -> Versions]
    /\ waitsOn \in [Requests -> Requests \cup {None}]
    /\ \A r \in Requests : pc[r] \in {"wait_enter", "waiting"} => waitsOn[r] \in Requests
    /\ answer \in [Requests -> Versions]
    /\ wpc \in [Writers -> {"idle", "applied", "done"}]
    /\ scope \in [Writers -> Scopes]
    /\ releasing \in BOOLEAN
    /\ raised \subseteq Requests

Init ==
    /\ content = 0
    /\ clearedAt = [k \in Keys |-> 0]
    /\ up = TRUE
    /\ cache = [k \in Keys |-> NoEntry]
    /\ pc = [r \in Requests |-> "idle"]
    /\ key \in [Requests -> Keys]
    /\ asked = [r \in Requests |-> 0]
    /\ ver = [r \in Requests |-> None]
    /\ waitsOn = [r \in Requests |-> None]
    /\ answer = [r \in Requests |-> None]
    /\ wpc = [w \in Writers |-> "idle"]
    /\ scope \in [Writers -> Scopes]
    /\ releasing = FALSE
    /\ raised = {}

-----------------------------------------------------------------------------
(* Helpers                                                                 *)

Source == <<content, clearedAt>>
Fixed == <<key, scope>>
Others == <<wpc, releasing>>

Goto(r, l) == pc' = [pc EXCEPT ![r] = l]

Ready(k) == cache[k].schema # None
\* Mutant of InProgress: a key that was set to None counts as in progress.
InProgressOrNone(k) == cache[k].schema = None

InProgress(k) == cache[k].owner # None /\ cache[k].schema = None
Absent(k) == cache[k] = NoEntry

\* cached_schema['id'] == new_schema['id']
OwnsEntry(r) == cache[key[r]].owner = r

\* cache[schema_key] = create_schema_object()
PutNew(r) == cache' = [cache EXCEPT ![key[r]] = [owner |-> r, schema |-> None]]

AnswerFrom(r, v) == answer' = [answer EXCEPT ![r] = v]

\* Mutant of Clear: entries in progress are kept.
ClearComplete(K) ==
    /\ cache' = [k \in Keys |-> IF k \in K /\ Ready(k) THEN NoEntry ELSE cache[k]]
    /\ clearedAt' = [k \in Keys |-> IF k \in K THEN content ELSE clearedAt[k]]

\* reload_*_graphql_schema: the keys are set to None, whatever they hold.
Clear(K) ==
    /\ cache' = [k \in Keys |-> IF k \in K THEN NoEntry ELSE cache[k]]
    /\ clearedAt' = [k \in Keys |-> IF k \in K THEN content ELSE clearedAt[k]]

KeysOf(s) ==
    CASE s = "all" -> Keys
      [] s = "draft" -> DraftKeys
      [] s = "published" -> Keys \ DraftKeys

-----------------------------------------------------------------------------
(* get_schema and wait_schema                                              *)

\* The request reaches GraphQLView.post.
Arrive(r) ==
    /\ pc[r] = "idle"
    /\ asked' = [asked EXCEPT ![r] = clearedAt[key[r]]]
    /\ Goto(r, "arrived")
    /\ UNCHANGED <<Source, up, cache, Fixed, ver, waitsOn, answer, Others, raised>>

\* An access to the cache raises: there is no connection, or its host is
\* blacklisted.  Outside of create_schema's try block the request is answered with
\* the error, and an object it has announced before stays in the cache.
ConnectionError(r) ==
    /\ pc[r] \in {"arrived", "wait_enter", "woken", "retry", "begin"}
    /\ raised' = IF pc[r] = "begin" THEN raised \cup {r} ELSE raised
    /\ Goto(r, "failed")
    /\ UNCHANGED <<Source, up, cache, Fixed, asked, ver, waitsOn, answer, Others>>

\* One critical section: take the schema, or wait for the one in progress, or
\* announce a new one.
GetSchema(r) ==
    /\ pc[r] = "arrived" /\ up
    /\ \/ /\ Ready(key[r])
          /\ AnswerFrom(r, cache[key[r]].schema)
          /\ Goto(r, "answered")
          /\ UNCHANGED <<cache, waitsOn>>
       \/ /\ InProgress(key[r])
          /\ waitsOn' = [waitsOn EXCEPT ![r] = cache[key[r]].owner]
          /\ Goto(r, "wait_enter")
          /\ UNCHANGED <<cache, answer>>
       \/ /\ Absent(key[r])
          /\ PutNew(r)
          /\ Goto(r, "begin")
          /\ UNCHANGED <<waitsOn, answer>>
    /\ UNCHANGED <<Source, up, Fixed, asked, ver, Others, raised>>

\* The condition is entered after the lock is released: its notification may be
\* over by now.
EnterWait(r) ==
    /\ pc[r] = "wait_enter" /\ up
    /\ Goto(r, "waiting")
    /\ UNCHANGED <<Source, up, cache, Fixed, asked, ver, waitsOn, answer, Others, raised>>

\* Mutant of WaitTimeout: the wait has no timeout.
WaitForever(r) == FALSE /\ UNCHANGED vars

\* generated_condition.wait(timeout=600 s) gives up.
WaitTimeout(r) ==
    /\ pc[r] = "waiting"
    /\ Goto(r, "woken")
    /\ UNCHANGED <<Source, up, cache, Fixed, asked, ver, waitsOn, answer, Others, raised>>

\* After the wait: any complete schema under the key will do.
FindAfterWait(r) ==
    /\ pc[r] = "woken" /\ up
    /\ waitsOn' = [waitsOn EXCEPT ![r] = None]
    /\ \/ /\ Ready(key[r])
          /\ AnswerFrom(r, cache[key[r]].schema)
          /\ Goto(r, "answered")
       \/ /\ ~Ready(key[r])
          /\ Goto(r, "retry")
          /\ UNCHANGED answer
    /\ UNCHANGED <<Source, up, cache, Fixed, asked, ver, Others, raised>>

\* A second critical section, which puts a new object over whatever is there.
Retry(r) ==
    /\ pc[r] = "retry" /\ up
    /\ PutNew(r)
    /\ Goto(r, "begin")
    /\ UNCHANGED <<Source, up, Fixed, asked, ver, waitsOn, answer, Others, raised>>

-----------------------------------------------------------------------------
(* create_schema                                                           *)

BeginGeneration(r) ==
    /\ pc[r] = "begin" /\ up
    /\ Goto(r, "generating")
    /\ UNCHANGED <<Source, up, cache, Fixed, asked, ver, waitsOn, answer, Others, raised>>

\* The generator reads the tables and the overrides.  Its progress reports put a
\* copy of the own entry with other counters in place of the own entry.
Generate(r) ==
    /\ pc[r] = "generating" /\ up
    /\ ver' = [ver EXCEPT ![r] = content]
    /\ Goto(r, "store")
    /\ UNCHANGED <<Source, up, cache, Fixed, asked, waitsOn, answer, Others, raised>>

\* No tables, a failing query or progress report, an access that raises.
GenerationFails(r) ==
    /\ pc[r] \in {"generating", "store"}
    /\ Goto(r, "cleanup")
    /\ UNCHANGED <<Source, up, cache, Fixed, asked, ver, waitsOn, answer, Others, raised>>

\* Mutant of Store: the id of the entry is not compared.
StoreOverAnything(r) ==
    /\ pc[r] = "store" /\ up
    /\ cache' = [cache EXCEPT ![key[r]] = [owner |-> r, schema |-> ver[r]]]
    /\ AnswerFrom(r, ver[r])
    /\ ver' = [ver EXCEPT ![r] = None]
    /\ Goto(r, "notify")
    /\ UNCHANGED <<Source, up, Fixed, asked, waitsOn, Others, raised>>

\* The schema is saved only under the own object's id, but returned either way.
Store(r) ==
    /\ pc[r] = "store" /\ up
    /\ cache' = IF OwnsEntry(r) THEN [cache EXCEPT ![key[r]].schema = ver[r]] ELSE cache
    /\ AnswerFrom(r, ver[r])
    /\ ver' = [ver EXCEPT ![r] = None]
    /\ Goto(r, "notify")
    /\ UNCHANGED <<Source, up, Fixed, asked, waitsOn, Others, raised>>

\* Mutant of Cleanup: the entry stays.
CleanupForgotten(r) ==
    /\ pc[r] = "cleanup"
    /\ ver' = [ver EXCEPT ![r] = None]
    /\ Goto(r, "notify")
    /\ UNCHANGED <<Source, up, cache, Fixed, asked, waitsOn, answer, Others, raised>>

\* except: the own object is deleted, unless this access raises too; finally runs
\* either way.
Cleanup(r) ==
    /\ pc[r] = "cleanup"
    /\ \/ /\ up
          /\ cache' = IF OwnsEntry(r) THEN [cache EXCEPT ![key[r]] = NoEntry] ELSE cache
          /\ UNCHANGED raised
       \/ /\ raised' = raised \cup {r}
          /\ UNCHANGED cache
    /\ ver' = [ver EXCEPT ![r] = None]
    /\ Goto(r, "notify")
    /\ UNCHANGED <<Source, up, Fixed, asked, waitsOn, answer, Others>>

\* finally: generated_condition.notify_all()
Notify(r) ==
    /\ pc[r] = "notify"
    /\ pc' = [q \in Requests |->
                 IF q = r THEN IF answer[r] = None THEN "failed" ELSE "answered"
                 ELSE IF pc[q] = "waiting" /\ waitsOn[q] = r THEN "woken" ELSE pc[q]]
    /\ UNCHANGED <<Source, up, cache, Fixed, asked, ver, waitsOn, answer, Others, raised>>

-----------------------------------------------------------------------------
(* Invalidation and the connection                                         *)

\* The tables (load_mapped_base) or the stored overrides change ...
Apply(w) ==
    /\ wpc[w] = "idle" /\ up
    /\ content < MaxContent
    /\ content' = content + 1
    /\ wpc' = [wpc EXCEPT ![w] = "applied"]
    /\ UNCHANGED <<clearedAt, up, cache, pc, Fixed, asked, ver, waitsOn, answer, releasing, raised>>

\* ... and reload_request_graphql_schema clears the keys, or raises.
Invalidate(w) ==
    /\ wpc[w] = "applied"
    /\ \/ up /\ Clear(KeysOf(scope[w]))
       \/ UNCHANGED <<cache, clearedAt>>
    /\ wpc' = [wpc EXCEPT ![w] = "done"]
    /\ UNCHANGED <<content, up, pc, Fixed, asked, ver, waitsOn, answer, releasing, raised>>

\* The periodic task finds the connection inactive.  It reads the entries without
\* the lock, and raises on the missing memory_usage_approx of one in progress.
ReleaseCheck ==
    /\ up /\ ~releasing
    /\ \E k \in Keys : Ready(k)
    /\ \A k \in Keys : ~InProgress(k)
    /\ releasing' = TRUE
    /\ UNCHANGED <<Source, up, cache, pc, Fixed, asked, ver, waitsOn, answer, wpc, raised>>

ReleaseClear ==
    /\ releasing
    /\ Clear(Keys)
    /\ releasing' = FALSE
    /\ UNCHANGED <<content, up, pc, Fixed, asked, ver, waitsOn, answer, wpc, raised>>

\* Mutant of Disconnect: the cache outlives its connection.
DisconnectKeepsCache ==
    /\ up
    /\ up' = FALSE
    /\ releasing' = FALSE
    /\ UNCHANGED <<Source, cache, pc, Fixed, asked, ver, waitsOn, answer, wpc, raised>>

\* The connection is disposed of: its cache is out of reach, also for a task that
\* is about to clear it.
Disconnect ==
    /\ up
    /\ up' = FALSE
    /\ cache' = [k \in Keys |-> NoEntry]
    /\ releasing' = FALSE
    /\ UNCHANGED <<Source, pc, Fixed, asked, ver, waitsOn, answer, wpc, raised>>

\* A new connection has reflected its tables anew; its cache is empty.
Connect ==
    /\ ~up
    /\ content < MaxContent
    /\ up' = TRUE
    /\ content' = content + 1
    /\ clearedAt' = [k \in Keys |-> content']
    /\ UNCHANGED <<cache, pc, Fixed, asked, ver, waitsOn, answer, Others, raised>>

-----------------------------------------------------------------------------

RequestStep(r) ==
    \/ ConnectionError(r) \/ GetSchema(r) \/ EnterWait(r) \/ WaitTimeout(r)
    \/ FindAfterWait(r) \/ Retry(r) \/ BeginGeneration(r) \/ Generate(r)
    \/ GenerationFails(r) \/ Store(r) \/ Cleanup(r) \/ Notify(r)

Next ==
    \/ \E r \in Requests : Arrive(r) \/ RequestStep(r)
    \/ \E w \in Writers : Apply(w) \/ Invalidate(w)
    \/ ReleaseCheck \/ ReleaseClear
    \/ Disconnect \/ Connect

Spec == Init /\ [][Next]_vars

\* Request threads are scheduled, waits time out, generation comes to an end.
FairSpec == Spec /\ \A r \in Requests : WF_vars(RequestStep(r))

-----------------------------------------------------------------------------
(* Properties                                                              *)

\* A cached schema is never older than the last invalidation of its key, although
\* generation runs outside the lock and may have begun before the invalidation.
FreshCache ==
    \A k \in Keys : Ready(k) => clearedAt[k] <= cache[k].schema

\* A request that arrives after an invalidation is never answered from an older
\* version, be it from the cache, after a wait, or from its own generation.
FreshAnswer ==
    \A r \in Requests : pc[r] = "answered" => asked[r] <= answer[r]

\* An entry in progress has a request that will complete or remove it, whatever is
\* cleared, overwritten or lost meanwhile: no request waits 10 minutes for a
\* generation that nobody runs.  The one way out is a request whose access raised
\* outside of the try block (before it) or in its except block: its object stays.
ProgressHasGenerator ==
    \A k \in Keys : InProgress(k) =>
        /\ key[cache[k].owner] = k
        /\ pc[cache[k].owner] \in Generating \/ cache[k].owner \in raised

-----------------------------------------------------------------------------
(* The cache implements SchemaReads.                                       *)

Status(r) ==
    CASE pc[r] = "idle" -> "idle"
      [] pc[r] \in Ended -> pc[r]
      [] OTHER -> "busy"

Reads == INSTANCE SchemaReads WITH
    floor <- clearedAt,
    status <- [r \in Requests |-> Status(r)],
    answer <- [r \in Requests |-> IF pc[r] = "answered" THEN answer[r] ELSE None]

\* Every behaviour of the cache is one of SchemaReads (safety).
ImplementsReads == Reads!Spec

\* ... and its requests do not hang (liveness).
ImplementsFairReads == Reads!FairSpec

=============================================================================
