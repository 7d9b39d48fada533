-------------------------- MODULE RelationOverrides --------------------------
(***************************************************************************)
(* The relation overrides of one connection id: rows of a local SQLite     *)
(* store (store.py, models/model_relation_override.py), replaced model by  *)
(* model by ModelDescriptionRelationOverridesSerializer.save               *)
(* (serializers/relationship_override.py), and the GraphQL schemas that    *)
(* are generated from them (utils/graphql.py) and invalidated by a save.   *)
(*                                                                         *)
(* Every thread has its own store session.  A query does not open an       *)
(* SQLite transaction, the first INSERT, UPDATE or DELETE does, and from   *)
(* there to the end of the save the store is locked against other writers. *)
(* The session writes its changes before its next query (autoflush) and    *)
(* before it commits: after each item, here.                               *)
(*                                                                         *)
(* The name of an override is made of its other fields and stands for      *)
(* them.  The overrides of an item are listed as the save sorts them.      *)
(***************************************************************************)
EXTENDS Integers, Sequences, SequencesExt, FiniteSetsExt

CONSTANTS Saves,       \* requests that save overrides
          Models,      \* names of mapped tables
          Names,       \* names of overrides, numbers for their order
          DraftFlags,  \* the values of the "draft" argument in use
          Bodies,      \* the validated bodies: sequences of [model, names]
          NoOne        \* no writer

Ordered(names) == \A i, j \in DOMAIN names : i < j => names[i] <= names[j]

ASSUME OverridesAssumption ==
    /\ NoOne \notin Saves
    /\ Names \subseteq Nat
    /\ DraftFlags \subseteq BOOLEAN
    /\ Bodies \subseteq Seq([model : Models, names : {names \in Seq(Names) : Ordered(names)}])

VARIABLES
    rows,     \* the committed rows, by row id
    work,     \* the rows as the writing transaction sees them
    writer,   \* the save that holds the store's write lock
    pc,       \* where each save is
    draft,    \* draft[s]: its "draft" argument
    body,     \* body[s]: the items s saves
    at,       \* at[s]: the item s is at
    found,    \* found[s]: the rows s has queried for its item, with their names
    alone,    \* history: no other save committed since s first queried
    schema,   \* schema[d]: the overrides the cached schema was generated from
    untold    \* history, untold[d]: since then rows changed without it being cleared

vars == <<rows, work, writer, pc, draft, body, at, found, alone, schema, untold>>

Row == [model : Models, name : Names, draft : BOOLEAN]
Found == [id : Nat \ {0}, name : Names]
SavePCs == {"idle", "query", "write", "flush", "commit", "reload", "done", "failed"}
Image == SUBSET (Models \X Names)
NotGenerated == {}   \* a cached schema is the set holding its image
NoRows == [id \in {} |-> 0]

TypeOK ==
    /\ DOMAIN rows \subseteq Nat \ {0} /\ \A id \in DOMAIN rows : rows[id] \in Row
    /\ DOMAIN work \subseteq Nat \ {0} /\ \A id \in DOMAIN work : work[id] \in Row
    /\ writer \in Saves \cup {NoOne}
    /\ pc \in [Saves -> SavePCs]
    /\ draft \in [Saves -> BOOLEAN]
    /\ body \in [Saves -> Bodies \cup {<<>>}]
    /\ \A s \in Saves : pc[s] \in {"query", "write", "flush"} => at[s] \in DOMAIN body[s]
    /\ \A s \in Saves : found[s] \in Seq(Found)
    /\ alone \in [Saves -> BOOLEAN]
    /\ schema \in [BOOLEAN -> SUBSET Image]
    /\ untold \in [BOOLEAN -> BOOLEAN]

Init ==
    /\ rows = NoRows
    /\ work = NoRows
    /\ writer = NoOne
    /\ pc = [s \in Saves |-> "idle"]
    /\ draft = [s \in Saves |-> FALSE]
    /\ body = [s \in Saves |-> <<>>]
    /\ at = [s \in Saves |-> 1]
    /\ found = [s \in Saves |-> <<>>]
    /\ alone = [s \in Saves |-> TRUE]
    /\ schema = [d \in BOOLEAN |-> NotGenerated]
    /\ untold = [d \in BOOLEAN |-> FALSE]

-----------------------------------------------------------------------------
(* Helpers                                                                 *)

Request == <<draft, body>>

\* Mutant of Visible: the session does not write before it queries.
VisibleCommitted(s) == rows

\* What a save's session reads: its own changes, once it holds the lock.
Visible(s) == IF writer = s THEN work ELSE rows

\* The rows of a model, ordered by name.  The filter compares the draft
\* argument with itself, so rows of drafts and published rows are mixed.
\* The order of equal names is up to SQLite.
Existing(store, m) ==
    LET ids == {id \in DOMAIN store : store[id].model = m}
    IN  {[k \in DOMAIN order |-> [id |-> order[k], name |-> store[order[k]].name]] :
            order \in {o \in SetToSeqs(ids) :
                \A j, k \in DOMAIN o : j < k => store[o[j]].name <= store[o[k]].name}}

Item(s) == body[s][at[s]]
Wanted(s) == Item(s).names
Shared(s) == DOMAIN Wanted(s) \cap DOMAIN found[s]

\* Positions whose row gets another name, new positions, and surplus rows.
Updated(s) == {i \in Shared(s) : found[s][i].name # Wanted(s)[i]}
Added(s) == DOMAIN Wanted(s) \ DOMAIN found[s]
Surplus(s) == {found[s][i].id : i \in DOMAIN found[s] \ DOMAIN Wanted(s)}

Unchanged(s) == Updated(s) = {} /\ Added(s) = {} /\ Surplus(s) = {}

\* An UPDATE names the row by its id, and one that matches no row raises
\* StaleDataError.  A DELETE that matches no row only logs a warning.
Stale(s, store) == \E i \in Updated(s) : found[s][i].id \notin DOMAIN store

\* SQLite gives a new row the largest id plus one, so ids are used again.
NextId(store) == 1 + (IF DOMAIN store = {} THEN 0 ELSE Max(DOMAIN store))

\* The flush: UPDATEs, INSERTs, DELETEs.
Flushed(s, store) ==
    LET renamed == [id \in DOMAIN store |->
            IF \E i \in Updated(s) : found[s][i].id = id
            THEN [store[id] EXCEPT !.name =
                    Wanted(s)[CHOOSE i \in Updated(s) : found[s][i].id = id]]
            ELSE store[id]]
        new(i) == NextId(store) + i - Len(found[s]) - 1
        inserted == {new(i) : i \in Added(s)}
        row(id) == [model |-> Item(s).model, draft |-> draft[s],
                    name |-> Wanted(s)[id - NextId(store) + Len(found[s]) + 1]]
    IN  [id \in (DOMAIN store \cup inserted) \ Surplus(s) |->
            IF id \in inserted THEN row(id) ELSE renamed[id]]

ImageOf(store) == {<<store[id].model, store[id].name>> : id \in DOMAIN store}

\* Mutant of Advance: goes on past the last item.
AdvanceTooFar(s) ==
    /\ at' = [at EXCEPT ![s] = @ + 1]
    /\ pc' = [pc EXCEPT ![s] = IF at[s] <= Len(body[s]) THEN "query" ELSE "commit"]

Advance(s) ==
    IF at[s] < Len(body[s])
    THEN /\ at' = [at EXCEPT ![s] = @ + 1]
         /\ pc' = [pc EXCEPT ![s] = "query"]
    ELSE /\ pc' = [pc EXCEPT ![s] = "commit"]
         /\ UNCHANGED at

-----------------------------------------------------------------------------
(* ModelDescriptionRelationOverridesSerializer                             *)

\* The request has been validated: its models are mapped, its overrides named.
Begin(s) ==
    /\ pc[s] = "idle"
    /\ \E b \in Bodies, d \in DraftFlags :
           /\ body' = [body EXCEPT ![s] = b]
           /\ draft' = [draft EXCEPT ![s] = d]
           /\ pc' = [pc EXCEPT ![s] = IF b = <<>> THEN "commit" ELSE "query"]
    /\ UNCHANGED <<rows, work, writer, at, found, alone, schema, untold>>

\* session.query(...).order_by(name).all()
Query(s) ==
    /\ pc[s] = "query"
    /\ \E f \in Existing(Visible(s), Item(s).model) : found' = [found EXCEPT ![s] = f]
    /\ alone' = [alone EXCEPT ![s] = @ \/ at[s] = 1]
    /\ pc' = [pc EXCEPT ![s] = "write"]
    /\ UNCHANGED <<rows, work, writer, Request, at, schema, untold>>

\* The first change to reach the store begins a transaction, which locks it.
LockStore(s) ==
    /\ pc[s] = "write"
    /\ ~Unchanged(s)
    /\ writer \in {NoOne, s}
    /\ writer' = s
    /\ work' = Visible(s)
    /\ pc' = [pc EXCEPT ![s] = "flush"]
    /\ UNCHANGED <<rows, Request, at, found, alone, schema, untold>>

\* The session's changes reach the store.
Flush(s) ==
    /\ pc[s] = "flush"
    /\ ~Stale(s, work)
    /\ work' = Flushed(s, work)
    /\ Advance(s)
    /\ UNCHANGED <<rows, writer, Request, found, alone, schema, untold>>

\* No attribute of any object has changed: nothing is written.
WriteNothing(s) ==
    /\ pc[s] = "write"
    /\ Unchanged(s)
    /\ Advance(s)
    /\ UNCHANGED <<rows, work, writer, Request, found, alone, schema, untold>>

\* Mutant of Rollback: the transaction stays open.
RollbackForgotten(s) ==
    /\ pc' = [pc EXCEPT ![s] = "failed"]
    /\ UNCHANGED <<writer, work>>

\* Leaving "with session.begin()" by an exception rolls back.
Rollback(s) ==
    /\ writer' = IF writer = s THEN NoOne ELSE writer
    /\ work' = IF writer = s THEN NoRows ELSE work
    /\ pc' = [pc EXCEPT ![s] = "failed"]

\* "database is locked": another save has held the lock for too long.
LockTimeout(s) ==
    /\ pc[s] = "write"
    /\ ~Unchanged(s)
    /\ writer \notin {NoOne, s}
    /\ Rollback(s)
    /\ UNCHANGED <<rows, Request, at, found, alone, schema, untold>>

\* StaleDataError, or SQLite cannot commit while others read.
SaveFails(s) ==
    /\ \/ pc[s] = "flush" /\ Stale(s, work)
       \/ pc[s] = "commit" /\ writer = s
    /\ Rollback(s)
    /\ UNCHANGED <<rows, Request, at, found, alone, schema, untold>>

Commit(s) ==
    /\ pc[s] = "commit"
    /\ IF writer = s
       THEN /\ rows' = work
            /\ work' = NoRows
            /\ writer' = NoOne
            /\ alone' = [t \in Saves |-> t = s /\ alone[s]]
            /\ untold' = [untold EXCEPT ![~draft[s]] = TRUE]
       ELSE UNCHANGED <<rows, work, writer, alone, untold>>
    /\ pc' = [pc EXCEPT ![s] = "reload"]
    /\ UNCHANGED <<Request, at, found, schema>>

\* Mutant of Reload: the flag is not passed on as it is.
ReloadOther(s) ==
    /\ pc[s] = "reload"
    /\ schema' = [schema EXCEPT ![~draft[s]] = NotGenerated]
    /\ untold' = [untold EXCEPT ![~draft[s]] = FALSE]
    /\ pc' = [pc EXCEPT ![s] = "done"]
    /\ UNCHANGED <<rows, work, writer, Request, at, found, alone>>

\* reload_request_graphql_schema(request, draft)
Reload(s) ==
    /\ pc[s] = "reload"
    /\ schema' = [schema EXCEPT ![draft[s]] = NotGenerated]
    /\ untold' = [untold EXCEPT ![draft[s]] = FALSE]
    /\ pc' = [pc EXCEPT ![s] = "done"]
    /\ UNCHANGED <<rows, work, writer, Request, at, found, alone>>

\* The connection cannot be had, and the request fails although its overrides are saved:
\* it is gone, and its cache with it, or refused and left as it is (a blacklisted host).
ReloadFails(s) ==
    /\ pc[s] = "reload"
    /\ \/ /\ schema' = [d \in BOOLEAN |-> NotGenerated]
          /\ untold' = [d \in BOOLEAN |-> FALSE]
       \/ /\ untold' = [untold EXCEPT ![draft[s]] = TRUE]
          /\ UNCHANGED schema
    /\ pc' = [pc EXCEPT ![s] = "failed"]
    /\ UNCHANGED <<rows, work, writer, Request, at, found, alone>>

\* A schema is generated from the committed rows, of drafts and published
\* ones alike.  (What may happen meanwhile is in GraphQLSchemaCache.)
Generate(d) ==
    /\ schema[d] = NotGenerated
    /\ schema' = [schema EXCEPT ![d] = {ImageOf(rows)}]
    /\ untold' = [untold EXCEPT ![d] = FALSE]
    /\ UNCHANGED <<rows, work, writer, pc, Request, at, found, alone>>

SaveStep(s) ==
    \/ Query(s)
    \/ LockStore(s)
    \/ LockTimeout(s)
    \/ Flush(s)
    \/ WriteNothing(s)
    \/ SaveFails(s)
    \/ Commit(s)
    \/ Reload(s)
    \/ ReloadFails(s)

Next ==
    \/ \E s \in Saves : Begin(s) \/ SaveStep(s)
    \/ \E d \in DraftFlags : Generate(d)

Spec == Init /\ [][Next]_vars

-----------------------------------------------------------------------------
(* Properties                                                              *)

\* The store's write lock is held by a save in the middle of its transaction,
\* by nobody otherwise, and changes are written under it: a save that fails or is over has given it back, also
\* when an item in the middle of it fails (save).
LockIsLive ==
    /\ pc \in [Saves -> SavePCs]
    /\ writer \in Saves \cup {NoOne}
    /\ writer # NoOne => pc[writer] \in {"query", "write", "flush", "commit"}
    /\ \A s \in Saves : pc[s] = "flush" => writer = s

\* A save that no other one overlaps leaves for each model it names exactly
\* the overrides it was asked for, the last time if it names the model again,
\* whatever rows earlier saves, overlapping or failed ones, have left, and no
\* row of another model changes (save).
LoneSaveIsExact ==
    [][\A s \in Saves, m \in Models :
        (pc[s] = "commit" /\ pc'[s] = "reload" /\ alone[s]) =>
            LET items == {k \in DOMAIN body[s] : body[s][k].model = m}
                names(f) == [i \in DOMAIN f |-> f[i].name]
            IN  IF items = {}
                THEN Existing(rows', m) = Existing(rows, m)
                ELSE \A f \in Existing(rows', m), k \in items :
                        (\A j \in items : j <= k) => names(f) = body[s][k].names]_vars

\* A cached schema, of drafts or published, is generated from the rows of the store, unless
\* a save of its flag has committed and has still to clear it, or could not.  A save of the
\* other flag, which reads and writes the same rows, clears the other schema only (save).
SchemaFollowsRows ==
    \A d \in DraftFlags :
        \/ schema[d] \subseteq {ImageOf(rows)}
        \/ \E s \in Saves : pc[s] = "reload" /\ draft[s] = d
        \/ untold[d]

=============================================================================
