-------------------------- MODULE ModelDescriptions --------------------------
(***************************************************************************)
(* ModelDescriptionView.get (views/model_description.py): the rendered     *)
(* descriptions of all tables of a connection, kept with their hash in     *)
(* connection['cache'], and the conditional requests answered from them.   *)
(* A client that sends "cid" gets the hash as an ETag and sends it back    *)
(* in If-None-Match; 304 tells it to go on with the body it has.           *)
(*                                                                         *)
(* The tables are read before the connection's lock is taken.  They change *)
(* by reload_request_mapped_base (db.py), which empties and fills the      *)
(* mapped classes in place before it clears the cache; either may raise,   *)
(* and a load that raises leaves the classes it has prepared so far.       *)
(*                                                                         *)
(* A rendering is the version of the tables and overrides it shows and     *)
(* whether it shows all of them; its hash is a value of the same kind.     *)
(***************************************************************************)
EXTENDS Integers, FiniteSets

CONSTANTS Clients,         \* each with one request at a time, and a browser cache
          Changers,        \* requests that change a table and reload
          CidModes,        \* whether requests carry "cid": a set of Booleans
          CacheResponses,  \* settings.CACHE_MODEL_DESCRIPTIONS
          Workers,         \* size of the thread pool
          Drops,           \* connections may be lost while requests run (tunnels)
          MaxVersion,      \* bound on the versions of tables and overrides
          None,            \* Python's None
          Absent           \* a key the cache dictionary does not have

ASSUME DescriptionsAssumption ==
    /\ CidModes \subseteq BOOLEAN
    /\ CacheResponses \in BOOLEAN
    /\ Workers \in Nat \ {0}
    /\ Drops \in BOOLEAN
    /\ MaxVersion \in Nat
    /\ None # Absent

Rendering == [version : Nat, whole : BOOLEAN]

ASSUME NoneIsNoRendering == None \notin Rendering /\ Absent \notin Rendering

VARIABLES
    version,    \* version of the mapped tables and stored overrides
    clearedAt,  \* history: the version when the cache was last cleared
    response,   \* cache[MODEL_DESCRIPTIONS_RESPONSE_CACHE_KEY]
    hash,       \* cache[MODEL_DESCRIPTIONS_HASH_CACHE_KEY]
    wpc,        \* where each changer is
    broken,     \* the mapped classes are what a load that raised has left
    unclean,    \* history: a reload has raised since the cache was last cleared
    late,       \* history: the cached response was read before that clearing
    pc,         \* where each client's request is
    cid,        \* cid[c]: the request carries "cid"
    rendered,   \* rendered[c]: what the request has read
    overtaken,  \* history: the cache has been cleared since c's request read that
    etag,       \* etag[c]: the tag of the body c has kept, Absent if it has none
    kept,       \* kept[c]: that body
    offered,    \* history: what a full answer would have carried
    shown       \* what c shows after its last answer

cache == <<response, hash>>
failures == <<broken, unclean>>
client == <<cid, rendered, etag, kept, offered, shown>>
vars == <<version, clearedAt, cache, wpc, failures, late, pc, client, overtaken>>

TypeOK ==
    /\ version \in Nat /\ clearedAt \in Nat
    /\ response \in Rendering \cup {None}
    /\ hash \in Rendering \cup {None, Absent}
    /\ wpc \in [Changers -> {"idle", "loading", "loaded", "done", "failed"}]
    /\ broken \in BOOLEAN /\ unclean \in BOOLEAN /\ late \in BOOLEAN
    /\ pc \in [Clients -> {"idle", "reading", "read"}]
    /\ cid \in [Clients -> BOOLEAN]
    /\ rendered \in [Clients -> Rendering \cup {None}]
    /\ \A c \in Clients : pc[c] = "read" => rendered[c] \in Rendering
    /\ overtaken \in [Clients -> BOOLEAN]
    /\ etag \in [Clients -> Rendering \cup {None, Absent}]
    /\ kept \in [Clients -> Rendering \cup {None}]
    /\ \A c \in Clients : etag[c] # Absent => kept[c] \in Rendering
    /\ offered \in [Clients -> Rendering \cup {None}]
    /\ shown \in [Clients -> Rendering \cup {None}]

Init ==
    /\ version = 0 /\ clearedAt = 0
    /\ response = None /\ hash = Absent
    /\ wpc = [w \in Changers |-> "idle"]
    /\ broken = FALSE /\ unclean = FALSE /\ late = FALSE
    /\ pc = [c \in Clients |-> "idle"]
    /\ cid = [c \in Clients |-> FALSE]
    /\ rendered = [c \in Clients |-> None]
    /\ overtaken = [c \in Clients |-> FALSE]
    /\ etag = [c \in Clients |-> Absent]
    /\ kept = [c \in Clients |-> None]
    /\ offered = [c \in Clients |-> None]
    /\ shown = [c \in Clients |-> None]

-----------------------------------------------------------------------------
(* Threads                                                                 *)

Loading == {w \in Changers : wpc[w] = "loading"}
Changing == Loading \cup {w \in Changers : wpc[w] = "loaded"}
Asking == {c \in Clients : pc[c] # "idle"}
WorkerFree == Cardinality(Changing) + Cardinality(Asking) < Workers

\* What the mapped classes show to a thread that renders them now.
Visible == [version |-> version, whole |-> Loading = {} /\ ~broken]

\* The cache is empty, and whoever has read the tables by now has been overtaken.
Cleared ==
    /\ late' = FALSE
    /\ overtaken' = [c \in Clients |-> pc[c] = "read"]

-----------------------------------------------------------------------------
(* ModelDescriptionView.get                                                *)

Ask(c) ==
    /\ pc[c] = "idle"
    /\ WorkerFree
    /\ \E b \in CidModes : cid' = [cid EXCEPT ![c] = b]
    /\ pc' = [pc EXCEPT ![c] = "reading"]
    /\ UNCHANGED <<version, clearedAt, cache, wpc, failures, late, rendered, etag, kept, offered,
                   shown, overtaken>>

\* get_queryset
ReadTables(c) ==
    /\ pc[c] = "reading"
    /\ rendered' = [rendered EXCEPT ![c] = Visible]
    /\ overtaken' = [overtaken EXCEPT ![c] = FALSE]
    /\ pc' = [pc EXCEPT ![c] = "read"]
    /\ UNCHANGED <<version, clearedAt, cache, wpc, failures, late, cid, etag, kept, offered, shown>>

\* No connection, or the mapped classes change while they are iterated.
AskFails(c) ==
    /\ pc[c] # "idle"
    /\ pc' = [pc EXCEPT ![c] = "idle"]
    /\ rendered' = [rendered EXCEPT ![c] = None]
    /\ overtaken' = [overtaken EXCEPT ![c] = FALSE]
    /\ UNCHANGED <<version, clearedAt, cache, wpc, failures, late, cid, etag, kept, offered, shown>>

\* With body and tag found: 304 if the client's tag is the same, else a full
\* answer, which the client keeps if it has a tag.
Respond(c, body, tag) ==
    LET same == cid[c] /\ etag[c] = tag
    IN  /\ offered' = [offered EXCEPT ![c] = body]
        /\ shown' = [shown EXCEPT ![c] = IF same THEN kept[c] ELSE body]
        /\ etag' = [etag EXCEPT ![c] = IF cid[c] THEN tag ELSE @]
        /\ kept' = [kept EXCEPT ![c] = IF cid[c] /\ ~same THEN body ELSE @]
        /\ rendered' = [rendered EXCEPT ![c] = None]
        /\ overtaken' = [overtaken EXCEPT ![c] = FALSE]
        /\ pc' = [pc EXCEPT ![c] = "idle"]
        /\ UNCHANGED cid

\* Mutant of Hit: a key that was set to None counts.
HitByKey == CacheResponses /\ (response # None \/ hash = None)

Hit == CacheResponses /\ response # None

\* cache.get(key, default) gives the default for an absent key only.
AnswerCached(c) ==
    /\ pc[c] = "read"
    /\ Hit
    /\ Respond(c, response, IF hash = Absent THEN response ELSE hash)
    /\ UNCHANGED <<version, clearedAt, cache, wpc, failures, late>>

\* Mutant of AnswerRendered: the hash is given to the client but not stored.
HashNotStored(c) ==
    /\ pc[c] = "read"
    /\ ~Hit
    /\ response' = rendered[c]
    /\ UNCHANGED hash
    /\ Respond(c, rendered[c], rendered[c])
    /\ late' = overtaken[c]
    /\ UNCHANGED <<version, clearedAt, wpc, failures>>

\* The hash is stored for requests with "cid" only.
AnswerRendered(c) ==
    /\ pc[c] = "read"
    /\ ~Hit
    /\ response' = rendered[c]
    /\ hash' = IF cid[c] THEN rendered[c] ELSE hash
    /\ Respond(c, rendered[c], rendered[c])
    /\ late' = overtaken[c]
    /\ UNCHANGED <<version, clearedAt, wpc, failures>>

-----------------------------------------------------------------------------
(* reload_request_mapped_base, after a table has been changed              *)

\* load_mapped_base: the mapped classes are cleared, then prepared again.
BeginLoad(w) ==
    /\ wpc[w] = "idle"
    /\ WorkerFree
    /\ version < MaxVersion
    /\ wpc' = [wpc EXCEPT ![w] = "loading"]
    /\ version' = version + 1
    /\ broken' = FALSE
    /\ UNCHANGED <<clearedAt, cache, unclean, late, pc, client, overtaken>>

EndLoad(w) ==
    /\ wpc[w] = "loading"
    /\ wpc' = [wpc EXCEPT ![w] = "loaded"]
    /\ UNCHANGED <<version, clearedAt, cache, failures, late, pc, client, overtaken>>

\* prepare() raises, half-way or with all classes there.
LoadFails(w) ==
    /\ wpc[w] = "loading"
    /\ wpc' = [wpc EXCEPT ![w] = "failed"]
    /\ broken' \in BOOLEAN
    /\ unclean' = TRUE
    /\ UNCHANGED <<version, clearedAt, cache, late, pc, client, overtaken>>

\* Mutant of Clear: the hash survives.
ClearResponseOnly(w) ==
    /\ wpc[w] = "loaded"
    /\ response' = None /\ UNCHANGED hash
    /\ clearedAt' = version
    /\ Cleared
    /\ unclean' = FALSE
    /\ wpc' = [wpc EXCEPT ![w] = "done"]
    /\ UNCHANGED <<version, broken, pc, client>>

\* Mutant of Clear: nothing is cleared.
ClearNothing(w) ==
    /\ wpc[w] = "loaded"
    /\ clearedAt' = version
    /\ Cleared
    /\ unclean' = FALSE
    /\ wpc' = [wpc EXCEPT ![w] = "done"]
    /\ UNCHANGED <<version, cache, broken, pc, client>>

\* reload_request_model_descriptions_cache: both keys are set to None.
Clear(w) ==
    /\ wpc[w] = "loaded"
    /\ response' = None /\ hash' = None
    /\ clearedAt' = version
    /\ Cleared
    /\ unclean' = FALSE
    /\ wpc' = [wpc EXCEPT ![w] = "done"]
    /\ UNCHANGED <<version, broken, pc, client>>

\* The access to the cache raises: a blacklisted host, no connection.
ClearFails(w) ==
    /\ wpc[w] = "loaded"
    /\ wpc' = [wpc EXCEPT ![w] = "failed"]
    /\ unclean' = TRUE
    /\ UNCHANGED <<version, clearedAt, cache, broken, late, pc, client, overtaken>>

-----------------------------------------------------------------------------
(* Changes that do not clear the cache                                     *)

\* ModelDescriptionRelationOverridesSerializer.save commits.
SaveOverrides ==
    /\ WorkerFree
    /\ version < MaxVersion
    /\ version' = version + 1
    /\ UNCHANGED <<clearedAt, cache, wpc, failures, late, pc, client, overtaken>>

\* The connection is disposed of, by a reload request or the loss of its
\* tunnel, and established again: another cache, and newly reflected tables,
\* which a load under way does not touch.
Reconnect ==
    /\ Drops \/ WorkerFree
    /\ version < MaxVersion
    /\ version' = version + 1
    /\ clearedAt' = version + 1
    /\ response' = None /\ hash' = Absent
    /\ Cleared
    /\ broken' = FALSE /\ unclean' = FALSE
    /\ wpc' = [w \in Changers |-> IF wpc[w] = "loading" THEN "loaded" ELSE wpc[w]]
    /\ UNCHANGED <<pc, client>>

Next ==
    \/ \E c \in Clients :
        Ask(c) \/ ReadTables(c) \/ AskFails(c) \/ AnswerCached(c) \/ AnswerRendered(c)
    \/ \E w \in Changers :
        BeginLoad(w) \/ EndLoad(w) \/ LoadFails(w) \/ Clear(w) \/ ClearFails(w)
    \/ SaveOverrides
    \/ Reconnect

Spec == Init /\ [][Next]_vars

-----------------------------------------------------------------------------
(* Properties                                                              *)

\* After a 304 a client shows what a full answer would have brought it, or
\* its ETag is "None" (get: the hash key that a reload has set to None is not
\* absent, so it is not replaced by the default).
NotModifiedMeansSame ==
    \A c \in Clients : shown[c] = offered[c] \/ etag[c] = None

\* If all requests carry "cid", or responses are not cached, a 304 is always
\* right: the hash in the cache belongs to the response in the cache.
ShownIsOffered == \A c \in Clients : shown[c] = offered[c]

\* The cached response is not older than the last clearing of the cache, unless its
\* request had read the tables before that (get reads them outside of the lock, and
\* a reload clears the cache meanwhile).  And it shows all tables: one that was
\* read while a reload emptied and filled the classes does not outlive that reload,
\* unless the reload raised and nobody has reloaded since.
FreshDescriptions ==
    response # None /\ ~late =>
        /\ response.version >= clearedAt
        /\ response.whole \/ Changing # {} \/ broken \/ unclean
=============================================================================
