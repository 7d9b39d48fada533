------------------------------- MODULE Services -------------------------------
(***************************************************************************)
(* Six parts of the bridge that share no state.  A behaviour is one of the *)
(* part that is chosen at its beginning; the variables of the others are   *)
(* Off.                                                                    *)
(***************************************************************************)
EXTENDS Integers, Sequences, FiniteSets

CONSTANTS Null, None, Absent, Off,
          \* GraphQLQueries
          Estimates, Looks, DefaultLimit, MaxLimit, Contents, QuerySet, Changes, MaxRowChanges,
          \* RequestFilters
          CellsOf(_), ArgumentsOf(_, _), MaxItems, SearchTexts, Numbers, Plain, ObjectIds, Written, TextFound(_, _),
          \* MediaCache
          Threads, Paths, Sizes, MaxCacheSize, MaxSaves,
          \* TokenRefresh
          Requests, NameCounts, MaxTokens,
          \* ConnectionConfs
          Families, TableNames, MaxRequests,
          \* MongoReflection
          ReadLimit, MaxReadRecords, Records, MaxRecords, MaxWrites

\* What a database may hold and a client may ask for: a key is a number or unknown, the
\* rows have numbers, and a database refuses an offset or a page that is negative.
ASSUME QueriesAssumption ==
    /\ Null \notin Int /\ Absent \notin Int
    /\ DefaultLimit \in Nat /\ MaxLimit \in Nat
    /\ \A contents \in Contents :
        /\ contents = [keys |-> contents.keys, related |-> contents.related]
        /\ DOMAIN contents.keys \subseteq Nat /\ IsFiniteSet(DOMAIN contents.keys)
        /\ \A i \in DOMAIN contents.keys : contents.keys[i] \in Int \cup {Null}
        /\ IsFiniteSet(DOMAIN contents.related)
    /\ \A q \in QuerySet :
        /\ IsFiniteSet(DOMAIN q.filters)
        /\ q.limit \in Int \cup {Absent}
        /\ q.offset \in Nat \cup {Absent} /\ q.page \in (Nat \ {0}) \cup {Absent}

\* A request names a token so many times, and None is neither a token nor a cookie.
ASSUME TokensAssumption ==
    /\ NameCounts \subseteq Nat \ {0}
    /\ None \notin Nat \cup [access : Nat, refresh : Nat \cup {None}, expires : BOOLEAN]

\* Files have sizes.
ASSUME MediaAssumption == Sizes \subseteq Nat

\* A page of records is not empty, and some may be read.
ASSUME ReflectionAssumption == ReadLimit \in Nat \ {0} /\ MaxReadRecords \in Nat \ {0}

VARIABLES
    which,
    dialect, tables, query, quiet, changes,
    kind, cell, arguments,
    disk, files, size, thread, saves, clean,
    provider, issued, expired, cookie, request, smooth,
    connections, dumps, answer, confs, requests,
    collection, page, cursor, table, values, writes

Queries == INSTANCE GraphQLQueries WITH MaxChanges <- MaxRowChanges
Filters == INSTANCE RequestFilters
Media == INSTANCE MediaCache
Tokens == INSTANCE TokenRefresh
Connections == INSTANCE ConnectionConfs
Reflection == INSTANCE MongoReflection WITH Limit <- ReadLimit, MaxChanges <- MaxWrites, changes <- writes

\* A text is a sequence of characters, and these and all else are numbers, but for what
\* isnull and isempty are given; only "in" takes a string apart.
ASSUME FiltersAssumption ==
    /\ Null \notin BOOLEAN
    /\ \A k \in {"text", "select"} : CellsOf(k) \subseteq {Null} \cup Seq(Int)
    /\ \A k \in Filters!Kinds : \A lookup \in Filters!Modelled(k) \cup {Filters!NoLookup} :
        \A string \in ArgumentsOf(k, lookup) :
            /\ string \in IF Filters!TestsNull(lookup) THEN Seq(BOOLEAN)
                           ELSE IF k \in {"text", "select"} THEN Seq(Seq(Int)) ELSE Seq(Int)
            /\ lookup # "in" => Len(string) <= 1
    /\ SearchTexts \subseteq Seq(Int) /\ Plain \subseteq DOMAIN Numbers

-----------------------------------------------------------------------------
QueriesOff == dialect = Off /\ tables = Off /\ query = Off /\ quiet = Off /\ changes = Off
FiltersOff == kind = Off /\ cell = Off /\ arguments = Off
MediaOff == disk = Off /\ files = Off /\ size = Off /\ thread = Off /\ saves = Off /\ clean = Off
TokensOff == provider = Off /\ issued = Off /\ expired = Off /\ cookie = Off /\ request = Off /\ smooth = Off
ConnectionsOff == connections = Off /\ dumps = Off /\ answer = Off /\ confs = Off /\ requests = Off
ReflectionOff == collection = Off /\ page = Off /\ cursor = Off /\ table = Off /\ values = Off /\ writes = Off

Init ==
    \/ /\ which = "queries" /\ Queries!Init
       /\ FiltersOff /\ MediaOff /\ TokensOff /\ ConnectionsOff /\ ReflectionOff
    \/ /\ which = "filters" /\ Filters!Init
       /\ QueriesOff /\ MediaOff /\ TokensOff /\ ConnectionsOff /\ ReflectionOff
    \/ /\ which = "media" /\ Media!Init
       /\ QueriesOff /\ FiltersOff /\ TokensOff /\ ConnectionsOff /\ ReflectionOff
    \/ /\ which = "tokens" /\ Tokens!Init
       /\ QueriesOff /\ FiltersOff /\ MediaOff /\ ConnectionsOff /\ ReflectionOff
    \/ /\ which = "connections" /\ Connections!Init
       /\ QueriesOff /\ FiltersOff /\ MediaOff /\ TokensOff /\ ReflectionOff
    \/ /\ which = "reflection" /\ Reflection!Init
       /\ QueriesOff /\ FiltersOff /\ MediaOff /\ TokensOff /\ ConnectionsOff

queriesVars == <<dialect, tables, query, quiet, changes>>
filtersVars == <<kind, cell, arguments>>
mediaVars == <<disk, files, size, thread, saves, clean>>
tokensVars == <<provider, issued, expired, cookie, request, smooth>>
connectionsVars == <<connections, dumps, answer, confs, requests>>
reflectionVars == <<collection, page, cursor, table, values, writes>>

QueriesStep ==
    /\ which = "queries" /\ Queries!Next
    /\ UNCHANGED <<which, filtersVars, mediaVars, tokensVars, connectionsVars, reflectionVars>>

FiltersStep ==
    /\ which = "filters" /\ Filters!Next
    /\ UNCHANGED <<which, queriesVars, mediaVars, tokensVars, connectionsVars, reflectionVars>>

MediaStep ==
    /\ which = "media" /\ Media!Next
    /\ UNCHANGED <<which, queriesVars, filtersVars, tokensVars, connectionsVars, reflectionVars>>

TokensStep ==
    /\ which = "tokens" /\ Tokens!Next
    /\ UNCHANGED <<which, queriesVars, filtersVars, mediaVars, connectionsVars, reflectionVars>>

ConnectionsStep ==
    /\ which = "connections" /\ Connections!Next
    /\ UNCHANGED <<which, queriesVars, filtersVars, mediaVars, tokensVars, reflectionVars>>

ReflectionStep ==
    /\ which = "reflection" /\ Reflection!Next
    /\ UNCHANGED <<which, queriesVars, filtersVars, mediaVars, tokensVars, connectionsVars>>

Next == QueriesStep \/ FiltersStep \/ MediaStep \/ TokensStep \/ ConnectionsStep \/ ReflectionStep

vars == <<which, queriesVars, filtersVars, mediaVars, tokensVars, connectionsVars, reflectionVars>>

Spec == Init /\ [][Next]_vars

-----------------------------------------------------------------------------
(* Properties                                                              *)

\* Each row of a GraphQL page gets all that its own key is referred to by, and what keys of
\* the page that look the same are.
LookupsAreOwn == which = "queries" => Queries!LookupsAreOwn

\* No row twice, hasMore false at the end only, a count that is that of the list.
PagesAreRight == which = "queries" => Queries!PagesAreRight

\* A request's filters and its search mean the same whichever code answers it, but for the
\* differences that RequestFilters names.
FiltersAgree == which = "filters" => Filters!FiltersAgree

\* The media cache lists its directory and knows its size.
CacheAccounts == which = "media" => Media!CacheAccounts

\* A user need not log in again because requests refresh a token at the same time.
RefreshChainUnbroken == which = "tokens" => Tokens!RefreshChainUnbroken

\* A request is served by the engine and the tables that its configuration asks for.
SameIdSameEngine == which = "connections" => Connections!SameIdSameEngine

\* The type of a MongoDB column is that of its values, in whatever order they are read.
TypesFollowData == which = "reflection" => Reflection!TypesFollowData
=============================================================================
