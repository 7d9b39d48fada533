---------------------------- MODULE GraphQLQueries ----------------------------
(***************************************************************************)
(* What a list query of the generated GraphQL schema answers               *)
(* (utils/graphql.py, resolve_model_list): a page of the rows of a model   *)
(* under nested filters, what its lookups find for each of them, and the   *)
(* pagination.                                                             *)
(*                                                                         *)
(* A model has a key, which rows of a related model refer to.  One action  *)
(* is one statement sent to the database; other sessions commit between    *)
(* two of them.  The database compares keys exactly; loose_in compares     *)
(* what keys look like (text '1' and '01', number 1).                      *)
(***************************************************************************)
EXTENDS QueryFilters, SequencesExt, FiniteSetsExt

CONSTANTS Absent,
          Looks,          \* Looks[k]: what key k looks like to loose_in
          DefaultLimit,   \* 20
          MaxLimit,       \* 1000
          Contents,       \* what the two tables may hold at first
          QuerySet,       \* what a client may ask for
          Changes,        \* what another session may make of a related row
          MaxChanges

VARIABLES
    dialect,    \* of the engine
    tables,     \* the models' keys, tables.keys[i], and the related rows, tables.related[s]
    query,      \* where the query is, with its data
    quiet,      \* history: nothing was committed since the page was read
    changes     \* how many changes were committed

vars == <<dialect, tables, query, quiet, changes>>

SqlAndMongo == {"postgresql", "sqlite", "mongo"}
Family(d) == IF d = "mongo" THEN "mongo" ELSE "sql"

Init ==
    /\ dialect \in SqlAndMongo
    /\ tables \in Contents
    /\ query = [pc |-> "idle"]
    /\ quiet = TRUE /\ changes = 0

-----------------------------------------------------------------------------
(* Rows                                                                    *)

\* What JOIN and $lookup find for a key: MongoDB joins a missing value with a missing one.
Joined(key) ==
    {s \in DOMAIN tables.related :
        /\ tables.related[s].rel = key
        /\ Family(dialect) = "sql" => key # Null}

\* filter_queryset passes exclude=True on: a _not_ inside of a _not_ changes nothing.
Excludes(clause) == clause.nots > 0

\* What a clause keeps of row i: the row itself (0) or not; a lookup over a relation joins
\* the related table once more, on MongoDB it asks the array of the related records.
Kept(clause, i) ==
    LET keeps(cell) == Keeps(Family(dialect), "number", "exact", Excludes(clause), cell, clause.v)
        found == Joined(tables.keys[i])
        itself(holds) == {r \in {0} : holds}
    IN IF ~clause.via THEN itself(keeps(tables.keys[i]))
       ELSE IF dialect = "mongo"
       THEN itself((\E s \in found : tables.related[s].x = clause.v) # Excludes(clause))
       ELSE {s \in found : keeps(tables.related[s].x)}

\* A mistake to compare with: no engine groups.
GroupsNowhere == FALSE

\* get_queryset groups by the primary key for these engines, if the table has one.
Groups == dialect \in {"postgresql", "mysql"}

\* The joined rows that row i is part of: one row of each join.
Joins(q, i) ==
    {join \in [DOMAIN q.filters -> {0} \cup DOMAIN tables.related] :
        \A c \in DOMAIN q.filters : join[c] \in Kept(q.filters[c], i)}
Times(q, i) == IF Groups /\ Joins(q, i) # {} THEN 1 ELSE Cardinality(Joins(q, i))

\* Unknown keys are the greatest for SQL (PostgreSQL), the least for MongoDB.
Lower(key, other) ==
    IF dialect = "mongo" THEN other # Null /\ (key = Null \/ key < other)
    ELSE key # Null /\ (other = Null \/ key < other)

\* sort_queryset: as asked, then by descending primary key.
Before(q, i, j) ==
    IF q.sort /\ tables.keys[i] # tables.keys[j] THEN Lower(tables.keys[i], tables.keys[j]) ELSE i > j

\* The rows of the list, each as often as it is joined: at n, the one that n - 1 precede.
Copies(q) == UNION {{i} \X (1..Times(q, i)) : i \in DOMAIN tables.keys}
Precedes(q, a, b) == IF a[1] = b[1] THEN a[2] < b[2] ELSE Before(q, a[1], b[1])
CopyAt(q, n) == CHOOSE a \in Copies(q) : Cardinality({b \in Copies(q) : Precedes(q, b, a)}) = n - 1
Result(q) == [n \in 1..Cardinality(Copies(q)) |-> CopyAt(q, n)[1]]

-----------------------------------------------------------------------------
(* Pagination                                                              *)

Limit(q) ==
    IF q.limit = Absent \/ q.limit < 0 THEN DefaultLimit
    ELSE IF q.limit > MaxLimit THEN MaxLimit ELSE q.limit

\* offset goes before page.
Offset(q) ==
    IF q.offset # Absent THEN q.offset ELSE IF q.page # Absent THEN (q.page - 1) * Limit(q) ELSE 0

\* The list ends with this page; a limit of 0 is none for MongoDB.
PageEnd(q) ==
    IF dialect = "mongo" /\ Limit(q) = 0 THEN Len(Result(q)) ELSE Min({Offset(q) + Limit(q), Len(Result(q))})

\* The first page is not counted if it is not full.
NeedsNoCount(q, page) == (q.offset = 0 \/ q.page = 1) /\ Len(page) < Limit(q)

HasMore(q, page, count) ==
    LET counted == IF q.offset # Absent THEN q.offset + Limit(q) < count
                   ELSE IF q.page # Absent THEN q.page * Limit(q) < count ELSE Null
    IN IF counted = FALSE /\ Len(page) = Limit(q) THEN TRUE ELSE counted

-----------------------------------------------------------------------------
(* Lookups                                                                 *)

LooseIn(key, keys) == \E k \in keys : Looks[k] = Looks[key]

\* get_models_lookup: the related rows of the whole page are read by one statement.
Loaded(keys) == UNION {Joined(k) : k \in keys}

\* A mistake to compare with: every row of the page has all that was loaded.
RelatedToAny(key, loaded) == loaded

\* filter_lookup_models finds those of one row among them.
RelatedTo(key, loaded) == {s \in loaded : LooseIn(tables.related[s].rel, {key})}

\* The groups of the aggregate, by key; a row takes the value of the first row of the
\* page with a key that looks like its own.
Aggregated(keys, n) ==
    LET first == CHOOSE m \in DOMAIN keys : LooseIn(keys[m], {keys[n]}) /\ \A l \in 1..(m - 1) : ~LooseIn(keys[l], {keys[n]})
    IN Cardinality(Joined(keys[first]))

-----------------------------------------------------------------------------
(* The statements of resolve_model_list                                    *)

ReadPage(q) ==
    /\ query.pc = "idle"
    /\ LET page == SubSeq(Result(q), Offset(q) + 1, PageEnd(q)) IN
       query' = [pc |-> "aggregate", q |-> q, page |-> page, end |-> PageEnd(q) >= Len(Result(q)),
                 keys |-> [n \in DOMAIN page |-> tables.keys[page[n]]],
                 aggregated |-> <<>>, counted |-> 0, related |-> <<>>, own |-> <<>>, steady |-> FALSE,
                 count |-> Null, hasMore |-> Null, all |-> Null]
    /\ quiet' = TRUE
    /\ UNCHANGED <<dialect, tables, changes>>

Aggregate ==
    /\ query.pc = "aggregate"
    /\ query' = [query EXCEPT !.pc = "related", !.counted = changes,
                              !.aggregated = [n \in DOMAIN query.keys |-> Aggregated(query.keys, n)]]
    /\ UNCHANGED <<dialect, tables, quiet, changes>>

LoadRelated ==
    /\ query.pc = "related"
    /\ LET loaded == Loaded(Range(query.keys)) IN
       query' = [query EXCEPT !.pc = "count", !.steady = (query.counted = changes),
                              !.related = [n \in DOMAIN query.keys |-> RelatedTo(query.keys[n], loaded)],
                              !.own = [n \in DOMAIN query.keys |-> Joined(query.keys[n])]]
    /\ UNCHANGED <<dialect, tables, quiet, changes>>

Count ==
    /\ query.pc = "count"
    /\ LET q == query.q
           all == Len(Result(q))
       IN \E count \in IF NeedsNoCount(q, query.page) THEN {Len(query.page)}
                       ELSE CountsOf(all, q.filters # <<>>) :
            query' = [query EXCEPT !.pc = "over", !.count = count, !.all = all,
                                   !.hasMore = HasMore(q, query.page, count)]
    /\ UNCHANGED <<dialect, tables, quiet, changes>>

\* Another session commits: a related row changes, or a model row goes.
Change ==
    /\ changes < MaxChanges /\ query.pc \in {"aggregate", "related", "count"}
    /\ \/ \E s \in DOMAIN tables.related, row \in Changes : tables' = [tables EXCEPT !.related[s] = row]
       \/ \E i \in DOMAIN tables.keys :
            tables' = [tables EXCEPT !.keys = [j \in DOMAIN tables.keys \ {i} |-> tables.keys[j]]]
    /\ changes' = changes + 1 /\ quiet' = FALSE
    /\ UNCHANGED <<dialect, query>>

Next == (\E q \in QuerySet : ReadPage(q)) \/ Aggregate \/ LoadRelated \/ Count \/ Change

Spec == Init /\ [][Next]_vars

-----------------------------------------------------------------------------
(* Properties                                                              *)

\* The rows of the page whose keys look like that of row n.
Alike(n) == {m \in DOMAIN query.keys : LooseIn(query.keys[m], {query.keys[n]})}

\* Although the related rows of the whole page are read at once, each row gets all that
\* refer to its own key, and no others but those of a row of the page whose key looks the
\* same (loose_in); and if nothing is committed in between, the aggregate has counted what
\* refers to its own key or to such a one.
LookupsAreOwn ==
    query.pc \in {"count", "over"} =>
        \A n \in DOMAIN query.keys :
            /\ query.related[n] = UNION {query.own[m] : m \in Alike(n)}
            /\ query.steady => \E m \in Alike(n) : query.aggregated[n] = Cardinality(query.own[m])

\* However many related rows meet its filters, no row is listed twice by an engine that
\* groups or by MongoDB.  hasMore is false only if the page was the last one when it was
\* read; the count is that of the list if nothing is committed meanwhile, unless it is
\* the engine's estimate, or page and offset are both given (page = 1 then stands for
\* offset = 0).
PagesAreRight ==
    /\ query.pc # "idle" /\ dialect # "sqlite" => Len(query.page) = Cardinality(Range(query.page))
    /\ query.pc = "over" =>
        /\ query.hasMore = FALSE => query.end
        /\ quiet /\ ~(query.q.offset # Absent /\ query.q.page # Absent) =>
            query.count = query.all \/ (query.q.filters = <<>> /\ query.count \in Estimates)
=============================================================================
