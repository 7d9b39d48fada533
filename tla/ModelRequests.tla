---------------------------- MODULE ModelRequests -----------------------------
(***************************************************************************)
(* Requests for the rows of one model (views/model.py, views/mixins/,      *)
(* paginators/, serializers/): threads serve them at the same time, each   *)
(* with a session of its own, and one view object, whose paginator is an   *)
(* attribute, serves them all.                                             *)
(*                                                                         *)
(* One action is one statement sent to the database, which sees what is    *)
(* committed (READ COMMITTED), or one use of the shared paginator.  A row  *)
(* has its primary key and one cell, which the requests filter, order by   *)
(* and change; the unique indexes of the table are the database's choice   *)
(* to refuse a row.                                                        *)
(***************************************************************************)
EXTENDS QueryFilters, SequencesExt, FiniteSetsExt

CONSTANTS Requests,
          Ids,        \* primary keys
          Absent,     \* no row, no key
          Tables,     \* the contents the table may start with
          Walks,      \* what a client may list: filter, order and page size
          Reorders,   \* arguments of reorder
          Bulks,      \* bodies of bulk_create: sequences of a key, or Absent, and a cell
          Cells,      \* what an update or a creation may write
          MaxSiblings \* of a longer list no siblings are answered: 10000 rows

ASSUME ModelAssumption ==
    /\ IsFiniteSet(Ids) /\ Ids \subseteq Nat /\ Cells \subseteq Int /\ Estimates \subseteq Nat
    /\ Null \notin Int /\ Absent \notin Int \cup {Null}
    /\ \A t \in Tables : t \in [Ids -> Int \cup {Null, Absent}]
    /\ \A w \in Walks : w.size \in Nat \ {0} /\ w.order \in Seq([by : {"pk", "cell"}, desc : BOOLEAN])
    /\ \A a \in Reorders : a.from \in Int /\ a.to \in Int
    /\ Bulks \subseteq Seq([id : Ids \cup {Absent}, v : Int])

VARIABLES
    engine,     \* of the database
    rows,       \* rows[i]: the cell of row i, committed
    writes,     \* writes[r]: what the open transaction of r has written
    req,        \* req[r]: where a request is, with its data
    paginator,  \* the attributes of GenericAPIView.paginator
    calm,       \* history: nobody else has committed or paginated since r began
    tidy        \* history: what reset_order or lone moves have made of the order

vars == <<engine, rows, writes, req, paginator, calm, tidy>>

Present == {i \in Ids : rows[i] # Absent}
Idle == [kind |-> "none", pc |-> "idle"]
Over(kind) == [kind |-> kind, pc |-> "over"]
At(r, kind, pc) == req[r].kind = kind /\ req[r].pc = pc

Dense == {rows[i] : i \in Present} = 1..Cardinality(Present)

\* The order is 1 to n, each once, or an empty place and one held twice, or anything.
NoGap == <<0, 0>>
Unknown == <<>>

TypeOK ==
    /\ engine \in Engines
    /\ \A i \in Ids : rows[i] \in Int \cup {Null, Absent}
    /\ \A r \in Requests :
        /\ DOMAIN writes[r] \subseteq Ids
        /\ writes[r] # <<>> => At(r, "reorder", "place")
    /\ \A r, s \in Requests : r # s => DOMAIN writes[r] \cap DOMAIN writes[s] = {}
    /\ paginator.page \in Nat /\ paginator.size \in Nat
    /\ calm \in [Requests -> BOOLEAN] /\ tidy \in {Unknown} \cup (Nat \X Nat)

Init ==
    /\ engine \in Engines /\ rows \in Tables
    /\ writes = [r \in Requests |-> <<>>]
    /\ req = [r \in Requests |-> Idle]
    /\ paginator = [count |-> 0, page |-> 0, size |-> 0]
    /\ calm = [r \in Requests |-> FALSE]
    /\ tidy = IF Dense THEN NoGap ELSE Unknown

-----------------------------------------------------------------------------
(* Helpers                                                                 *)

Begin(r, record) ==
    /\ req[r].pc = "idle"
    /\ req' = [req EXCEPT ![r] = record]
    /\ calm' = [calm EXCEPT ![r] = TRUE]
Goto(r, pc) == req' = [req EXCEPT ![r].pc = pc]
End(r) == req' = [req EXCEPT ![r] = Over(@.kind)]
Noticed(r) == calm' = [s \in Requests |-> s = r /\ calm[s]]

\* A statement waits for the rows that an open transaction of another has written.
Unlocked(r, ids) == \A s \in Requests \ {r} : DOMAIN writes[s] \cap ids = {}

\* The rows a filter keeps; f.lookup = "" is no filter.
Matching(f) == {i \in Present : f.lookup = "" \/ Keeps(engine, "number", f.lookup, f.exclude, rows[i], f.v)}

\* Unknown cells are the greatest for SQL (PostgreSQL), the least for MongoDB.
Rank(i) == IF rows[i] # Null THEN rows[i] ELSE IF engine = "sql" THEN 1000 ELSE -1000

Before(terms, i, j) ==
    LET key(t, k) == (IF t.by = "pk" THEN k ELSE Rank(k)) * (IF t.desc THEN -1 ELSE 1) IN
    \E n \in 1..Len(terms) :
        /\ key(terms[n], i) < key(terms[n], j)
        /\ \A m \in 1..(n - 1) : key(terms[m], i) = key(terms[m], j)

\* What a statement with ORDER BY may answer: ties come in any order.
Sorted(terms, ids) ==
    {s \in SetToSeqs(ids) : \A m, n \in 1..Len(s) : m < n => ~Before(terms, s[n], s[m])}

\* A mistake to compare with: the order of the request is enough.
OrderAsGiven(terms) == IF terms = <<>> THEN <<[by |-> "pk", desc |-> TRUE]>> ELSE terms

\* apply_default_ordering
DefaultOrdering(terms) ==
    IF \E n \in 1..Len(terms) : terms[n].by = "pk" THEN terms
    ELSE Append(terms, [by |-> "pk", desc |-> TRUE])

-----------------------------------------------------------------------------
(* list: a client follows the links to the next page                       *)

StartWalk(r, w) ==
    /\ Begin(r, [kind |-> "walk", pc |-> "data", w |-> w, page |-> 1, data |-> <<>>,
                 seen |-> <<>>, end |-> FALSE, count |-> 0, size |-> 0, next |-> FALSE, own |-> TRUE])
    /\ UNCHANGED <<engine, rows, writes, paginator, tidy>>

\* list(queryset.offset(...).limit(...)); the page's last row, if that ends the list.
PageData(r) ==
    /\ At(r, "walk", "data")
    /\ \E s \in Sorted(DefaultOrdering(req[r].w.order), Matching(req[r].w.filter)) :
        LET first == (req[r].page - 1) * req[r].w.size
            page == SubSeq(s, first + 1, Min({first + req[r].w.size, Len(s)}))
        IN req' = [req EXCEPT ![r].pc = "count", ![r].data = page,
                              ![r].seen = @ \o page, ![r].end = first + Len(page) >= Len(s)]
    /\ UNCHANGED <<engine, rows, writes, paginator, calm, tidy>>

\* A list that has begun to write the paginator, or has not read it to the end, is
\* disturbed by what another one writes.
Paginating == {"page", "size", "answer", "pages", "next", "full", "link"}
Paginates(r, pc) ==
    req' = [s \in Requests |->
              IF s = r THEN [req[s] EXCEPT !.pc = pc]
              ELSE IF req[s].kind = "walk" /\ req[s].pc \in Paginating THEN [req[s] EXCEPT !.own = FALSE]
              ELSE req[s]]

\* self.count: a first page that is not full is not counted.
PageCount(r) ==
    /\ At(r, "walk", "count")
    /\ LET n == Len(req[r].data)
           f == req[r].w.filter
           all == CountsOf(Cardinality(Matching(f)), f.lookup # "")
       IN \E count \in IF req[r].page = 1 /\ n < req[r].w.size THEN {n} ELSE all :
            paginator' = [paginator EXCEPT !.count = count]
    /\ Paginates(r, "page")
    /\ UNCHANGED <<engine, rows, writes, calm, tidy>>

\* self.page_number
PageNumber(r) ==
    /\ At(r, "walk", "page")
    /\ paginator' = [paginator EXCEPT !.page = req[r].page] /\ Paginates(r, "size")
    /\ UNCHANGED <<engine, rows, writes, calm, tidy>>

\* self.page_size
PageSize(r) ==
    /\ At(r, "walk", "size")
    /\ paginator' = [paginator EXCEPT !.size = req[r].w.size] /\ Paginates(r, "answer")
    /\ UNCHANGED <<engine, rows, writes, calm, tidy>>

PagesCount(x) == (x.count + x.size - 1) \div x.size

\* A mistake to compare with: the count is taken to be accurate.
HasMoreByCount(x) == x.next

\* has_next_potential: a full page is never taken for the last one.
HasMore(x) == x.next \/ Len(x.data) = paginator.size

\* get_next_link reads the paginator's attributes one by one, and "has_more" once more in
\* the same way; the link goes to the page after the paginator's.  A client that was sent
\* astray by another request's attributes is not followed any further.
Answer(r) ==
    /\ \/ At(r, "walk", "answer") /\ req' = [req EXCEPT ![r].pc = "pages", ![r].count = paginator.count]
       \/ At(r, "walk", "pages") /\ req' = [req EXCEPT ![r].pc = "next", ![r].size = paginator.size]
       \/ /\ At(r, "walk", "next")
          /\ req' = [req EXCEPT ![r].pc = "full", ![r].next = paginator.page < PagesCount(req[r])]
       \/ At(r, "walk", "full") /\ Goto(r, IF HasMore(req[r]) THEN "link" ELSE "over")
       \/ /\ At(r, "walk", "link") /\ req[r].own
          /\ req' = [req EXCEPT ![r].pc = "data", ![r].page = paginator.page + 1]
       \/ At(r, "walk", "link") /\ ~req[r].own /\ Goto(r, "over")
    /\ UNCHANGED <<engine, rows, writes, paginator, calm, tidy>>

-----------------------------------------------------------------------------
(* get_siblings                                                            *)

StartSiblings(r, w, i) ==
    /\ engine = "sql"       \* sqlalchemy.inspect does not know a MongoDB model
    /\ Begin(r, [kind |-> "siblings", pc |-> "count", w |-> w, id |-> i])
    /\ i \in Matching(w.filter)
    /\ UNCHANGED <<engine, rows, writes, paginator, tidy>>

\* get_model_siblings: a long list has none.
RowsCount(r) ==
    /\ At(r, "siblings", "count")
    /\ LET f == req[r].w.filter IN
       \E count \in CountsOf(Cardinality(Matching(f)), f.lookup # "") :
        IF count > MaxSiblings THEN End(r) ELSE Goto(r, "number")
    /\ UNCHANGED <<engine, rows, writes, paginator, calm, tidy>>

\* get_row_number: 0 when the row is gone.
RowNumber(r) ==
    /\ At(r, "siblings", "number")
    /\ \E s \in Sorted(DefaultOrdering(req[r].w.order), Matching(req[r].w.filter)) :
        IF req[r].id \in Range(s)
        THEN req' = [req EXCEPT ![r] = [kind |-> "siblings", pc |-> "rows", w |-> @.w, id |-> @.id,
                                        number |-> CHOOSE n \in DOMAIN s : s[n] = @.id]]
        ELSE End(r)
    /\ UNCHANGED <<engine, rows, writes, paginator, calm, tidy>>

\* A mistake to compare with: there is always a previous row.
SiblingsOfSecond(number, s) ==
    LET got == SubSeq(s, Max({1, number - 1}), Min({number + 1, Len(s)}))
        nth(n) == IF n \in DOMAIN got THEN got[n] ELSE Absent
    IN [prev |-> nth(1), next |-> nth(3)]

\* get_row_siblings: the rows around the place, by offset.
Siblings(number, s) ==
    LET prev == number > 1
        offset == IF prev THEN number - 2 ELSE number - 1
        got == SubSeq(s, offset + 1, Min({offset + (IF prev THEN 3 ELSE 2), Len(s)}))
        nth(n) == IF n \in DOMAIN got THEN got[n] ELSE Absent
    IN [prev |-> IF prev THEN nth(1) ELSE Absent, next |-> IF prev THEN nth(3) ELSE nth(2)]

RowSiblings(r) ==
    /\ At(r, "siblings", "rows")
    /\ \E s \in Sorted(DefaultOrdering(req[r].w.order), Matching(req[r].w.filter)) :
        IF req[r].number - 1 > Len(s) THEN End(r)       \* IndexError
        ELSE req' = [req EXCEPT ![r] = [kind |-> "siblings", pc |-> "over", id |-> @.id, list |-> s,
                                        got |-> Siblings(@.number, s), calm |-> calm[r]]]
    /\ UNCHANGED <<engine, rows, writes, paginator, calm, tidy>>

-----------------------------------------------------------------------------
(* update, destroy                                                         *)

StartWrite(r, kind, i, v) ==
    /\ Begin(r, [kind |-> kind, pc |-> "commit", id |-> i, v |-> v, loaded |-> rows[i]])
    /\ i \in Present             \* NotFound
    /\ UNCHANGED <<engine, rows, writes, paginator, tidy>>

\* SQLAlchemy writes what differs from what it has loaded; MongoDB is sent every value.
Differs(r) == engine = "mongo" \/ req[r].loaded # req[r].v

\* ModelSerializer.update; a row that is gone is an error, and so is one that the
\* database refuses: both are rolled back.
Update(r) ==
    /\ At(r, "update", "commit")
    /\ Unlocked(r, {req[r].id})
    /\ LET i == req[r].id IN
       \/ /\ rows[i] # Absent /\ Differs(r)
          /\ rows' = [rows EXCEPT ![i] = req[r].v]
          /\ tidy' = Unknown /\ Noticed(r)
       \/ UNCHANGED <<rows, tidy, calm>>
    /\ End(r)
    /\ UNCHANGED <<engine, writes, paginator>>

\* DestroyAPIViewMixin.perform_destroy; a row that others refer to may be refused.
Destroy(r) ==
    /\ At(r, "destroy", "commit")
    /\ Unlocked(r, {req[r].id})
    /\ \/ /\ rows' = [rows EXCEPT ![req[r].id] = Absent]
          /\ tidy' = Unknown /\ Noticed(r)
       \/ UNCHANGED <<rows, tidy, calm>>
    /\ End(r)
    /\ UNCHANGED <<engine, writes, paginator>>

-----------------------------------------------------------------------------
(* create, bulk_create                                                     *)

\* active: the session's transaction can be used; next: the item to come; queue: for
\* MongoDB, the records that are still to be inserted, as indexes of the body.
StartBulk(r, body) ==
    /\ Begin(r, [kind |-> "bulk", pc |-> IF body = <<>> THEN "over" ELSE "items", body |-> body,
                 next |-> 1, active |-> TRUE, queue |-> <<>>, report |-> <<>>, inserted |-> {}])
    /\ UNCHANGED <<engine, rows, writes, paginator, tidy>>

FreeId == CHOOSE i \in Ids \ Present : \A j \in Ids \ Present : i <= j
Reports(r, result) == [req[r] EXCEPT !.next = @ + 1, !.report = Append(@, result),
                                 !.pc = IF req[r].next = Len(req[r].body) THEN "over" ELSE "items"]

\* serializer.is_valid fails.
CreateInvalid(r) ==
    /\ At(r, "bulk", "items")
    /\ req' = [req EXCEPT ![r] = Reports(r, "invalid")]
    /\ UNCHANGED <<engine, rows, writes, paginator, calm, tidy>>

\* ModelSerializer.create for SQL.  A row refused at the commit is rolled back.  With a
\* key of its own PostgreSQL's row is flushed by the statement that sets the sequence,
\* outside of the handler's try: an error there leaves the session's transaction
\* unusable, until the commit of a later item rolls it back.
CreateSql(r) ==
    /\ At(r, "bulk", "items") /\ engine = "sql"
    /\ LET item == req[r].body[req[r].next]
           keyed == item.id # Absent
           id == IF keyed THEN item.id ELSE FreeId
           done(result, active) == [Reports(r, result) EXCEPT !.active = active]
       IN \/ /\ req[r].active /\ (keyed \/ Present # Ids) /\ rows[id] = Absent
             /\ rows' = [rows EXCEPT ![id] = item.v]
             /\ req' = [req EXCEPT ![r] = [done("ok", TRUE) EXCEPT !.inserted = @ \cup {req[r].next}]]
             /\ tidy' = Unknown /\ Noticed(r)
          \/ /\ \E active \in IF keyed THEN BOOLEAN ELSE {TRUE} :
                   req' = [req EXCEPT ![r] = done("refused", active)]
             /\ UNCHANGED <<rows, tidy, calm>>
    /\ UNCHANGED <<engine, writes, paginator>>

\* A mistake to compare with: a record that is refused does not stop the others, and
\* its error is forgotten.
CreateMongoAnyway(r) ==
    /\ At(r, "bulk", "items") /\ engine = "mongo" /\ Present # Ids
    /\ \/ /\ rows' = [rows EXCEPT ![FreeId] = req[r].body[req[r].next].v]
          /\ req' = [req EXCEPT ![r] = [Reports(r, "ok") EXCEPT !.inserted = @ \cup {req[r].next}]]
       \/ req' = [req EXCEPT ![r] = Reports(r, "ok")] /\ rows' = rows
    /\ tidy' = Unknown /\ Noticed(r)
    /\ UNCHANGED <<engine, writes, paginator>>

\* ModelSerializer.create and MongoSession.commit: the records of the session are
\* inserted one by one, under keys of the database, up to one that is refused.  Its
\* error is no SQLAlchemyError: nothing is rolled back, and the next commit tries again.
CreateMongo(r) ==
    /\ At(r, "bulk", "items") /\ engine = "mongo"
    /\ LET queue == Append(req[r].queue, req[r].next)
           room == Cardinality(Ids \ Present)
       IN \E n \in 0..Min({Len(queue), room}) :
            LET taken == SubSeq(queue, 1, n)
                nth(i) == Cardinality({j \in Ids \ Present : j <= i})  \* of the free keys
            IN /\ rows' = [i \in Ids |-> IF i \notin Present /\ nth(i) <= n
                                         THEN req[r].body[taken[nth(i)]].v ELSE rows[i]]
               /\ req' = [req EXCEPT ![r] = [Reports(r, IF n = Len(queue) THEN "ok" ELSE "refused") EXCEPT
                                               !.queue = SubSeq(queue, n + 1, Len(queue)),
                                               !.inserted = @ \cup Range(taken)]]
               /\ IF n = 0 THEN UNCHANGED <<tidy, calm>> ELSE tidy' = Unknown /\ Noticed(r)
    /\ UNCHANGED <<engine, writes, paginator>>

-----------------------------------------------------------------------------
(* reorder, reset_order                                                    *)

StartReorder(r, a) ==
    /\ engine = "sql"
    /\ Begin(r, [kind |-> "reorder", pc |-> "from", a |-> a, from |-> a.from, to |-> a.to])
    /\ UNCHANGED <<engine, rows, writes, paginator, tidy>>

\* The ends of the segment are given as rows, or as places.
ReadSegment(r) ==
    /\ req[r].kind = "reorder" /\ req[r].pc \in {"from", "to"}
    /\ LET a == req[r].a
           end == IF req[r].pc = "from" THEN a.from ELSE a.to
           next == IF req[r].pc = "from" THEN "to" ELSE "shift"
           set(v) == IF req[r].pc = "from" THEN [req[r] EXCEPT !.from = v, !.pc = next]
                     ELSE [req[r] EXCEPT !.to = v, !.pc = next]
       IN IF a.places THEN req' = [req EXCEPT ![r] = set(end)]
          ELSE IF end \in Present /\ rows[end] # Null THEN req' = [req EXCEPT ![r] = set(rows[end])]
          ELSE End(r)
    /\ UNCHANGED <<engine, rows, writes, paginator, calm, tidy>>

Segment(r) == {i \in Present : rows[i] # Null /\ rows[i] >= req[r].from /\ rows[i] <= req[r].to}

\* A mistake to compare with: the last row of the segment stays.
ShiftAllButLast(r) ==
    /\ At(r, "reorder", "shift")
    /\ Unlocked(r, Segment(r))
    /\ writes' = [writes EXCEPT ![r] = [i \in {j \in Segment(r) : rows[j] # req[r].to} |->
                                          rows[i] + (IF req[r].a.forward THEN -1 ELSE 1)]]
    /\ Goto(r, "place")
    /\ UNCHANGED <<engine, rows, paginator, calm, tidy>>

Shift(r) ==
    /\ At(r, "reorder", "shift")
    /\ Unlocked(r, Segment(r))
    /\ writes' = [writes EXCEPT ![r] = [i \in Segment(r) |-> rows[i] + (IF req[r].a.forward THEN -1 ELSE 1)]]
    /\ Goto(r, "place")
    /\ UNCHANGED <<engine, rows, paginator, calm, tidy>>

\* The segment is within the order and the item at, or next to, the end that it leaves.
WellFormed(r) ==
    LET i == req[r].a.item
        start == IF req[r].a.forward THEN req[r].from - 1 ELSE req[r].to
    IN /\ 1 <= req[r].from /\ req[r].from <= req[r].to /\ req[r].to <= Cardinality(Present)
       /\ i \in Present /\ rows[i] \in {start, start + 1}

\* What a lone move makes of an order without gaps: a forward one, or one past a single
\* row, keeps it; the code puts the item of a backward one at the end of the segment as
\* well, where it shares a place while the first one is left empty.
AfterMove(r) ==
    IF ~WellFormed(r) THEN Unknown
    ELSE IF req[r].a.forward \/ req[r].from = req[r].to THEN NoGap
    ELSE <<req[r].from, req[r].to>>

\* The second UPDATE, and the commit.
Place(r) ==
    /\ At(r, "reorder", "place")
    /\ LET i == req[r].a.item IN
       /\ Unlocked(r, {i})
       /\ rows' = [j \in Ids |-> IF j = i /\ i \in Present THEN req[r].to
                                 ELSE IF j \in DOMAIN writes[r] THEN writes[r][j] ELSE rows[j]]
    /\ writes' = [writes EXCEPT ![r] = <<>>]
    /\ tidy' = IF tidy = NoGap /\ calm[r] THEN AfterMove(r) ELSE Unknown
    /\ Noticed(r) /\ End(r)
    /\ UNCHANGED <<engine, paginator>>

\* A mistake to compare with: the session keeps its transaction.
ReorderFailsOpen(r) ==
    /\ req[r].kind = "reorder" /\ req[r].pc \in {"shift", "place"}
    /\ End(r)
    /\ UNCHANGED <<engine, rows, writes, paginator, calm, tidy>>

\* A statement fails, for instance as the victim of a deadlock of two reorders; closing
\* the session rolls back.
ReorderFails(r) ==
    /\ req[r].kind = "reorder" /\ req[r].pc \in {"shift", "place"}
    /\ writes' = [writes EXCEPT ![r] = <<>>] /\ End(r)
    /\ UNCHANGED <<engine, rows, paginator, calm, tidy>>

StartReset(r, terms) ==
    /\ engine = "sql"
    /\ \E s \in Sorted(terms, Present) :
        Begin(r, [kind |-> "reset", pc |-> "commit", list |-> s, loaded |-> rows])
    /\ UNCHANGED <<engine, rows, writes, paginator, tidy>>

\* Every row whose place differs from what was loaded is written; if one of them is
\* gone, or refused, none is.
ResetCommit(r) ==
    /\ At(r, "reset", "commit")
    /\ LET s == req[r].list
           changed == {n \in DOMAIN s : req[r].loaded[s[n]] # n}
           ids == {s[n] : n \in changed}
       IN /\ Unlocked(r, ids)
          /\ \/ /\ ids \subseteq Present
                /\ rows' = [i \in Ids |-> IF i \in ids THEN CHOOSE n \in changed : s[n] = i ELSE rows[i]]
                /\ tidy' = IF calm[r] THEN NoGap ELSE IF ids = {} THEN tidy ELSE Unknown
                /\ Noticed(r)
             \/ UNCHANGED <<rows, tidy, calm>>
    /\ End(r)
    /\ UNCHANGED <<engine, writes, paginator>>

-----------------------------------------------------------------------------
Step(r) ==
    \/ PageData(r) \/ PageCount(r) \/ PageNumber(r) \/ PageSize(r) \/ Answer(r)
    \/ RowsCount(r) \/ RowNumber(r) \/ RowSiblings(r)
    \/ Update(r) \/ Destroy(r)
    \/ CreateInvalid(r) \/ CreateSql(r) \/ CreateMongo(r)
    \/ ReadSegment(r) \/ Shift(r) \/ Place(r) \/ ReorderFails(r)
    \/ ResetCommit(r)

Start(r) ==
    \/ \E w \in Walks : StartWalk(r, w) \/ \E i \in Ids : StartSiblings(r, w, i)
    \/ \E i \in Ids, v \in Cells : StartWrite(r, "update", i, v)
    \/ \E i \in Ids : StartWrite(r, "destroy", i, 0)
    \/ \E body \in Bulks : StartBulk(r, body)
    \/ \E a \in Reorders : StartReorder(r, a)
    \/ \E w \in Walks : StartReset(r, w.order)

Next == \E r \in Requests : Start(r) \/ Step(r)

Spec == Init /\ [][Next]_vars

-----------------------------------------------------------------------------
(* Properties                                                              *)

\* "has_more" is not false before the end: the page that ends a walk was the last one
\* when its rows were read, whatever is committed between its two statements, and even
\* if another request has overwritten any of the paginator's attributes, but for a
\* page size that is not the request's.
NoEarlyEnd ==
    \A r \in Requests : At(r, "walk", "full") /\ ~HasMore(req[r]) =>
        \/ req[r].end
        \/ paginator.size # req[r].w.size

\* A client that follows the links while nobody writes, and nobody overwrites the
\* paginator, gets every row that its filter keeps once: the pages of a list in an order
\* with ties still fit together.
WalkIsComplete ==
    \A r \in Requests :
        At(r, "walk", "over") /\ calm[r] /\ req[r].own =>
            /\ Range(req[r].seen) = Matching(req[r].w.filter)
            /\ Len(req[r].seen) = Cardinality(Range(req[r].seen))

\* The siblings of a row are its neighbours in the list, unless something was committed
\* between the two statements.
SiblingsAreNeighbours ==
    \A r \in Requests :
        At(r, "siblings", "over") /\ "got" \in DOMAIN req[r] /\ req[r].calm =>
            LET s == req[r].list
                n == CHOOSE k \in DOMAIN s : s[k] = req[r].id
            IN req[r].got = [prev |-> IF n > 1 THEN s[n - 1] ELSE Absent,
                             next |-> IF n < Len(s) THEN s[n + 1] ELSE Absent]

\* What becomes of the order while moves overlap with no other writer: reset_order makes
\* it 1 to n, each once, and forward moves and moves past one row keep it so; a backward
\* move past several rows leaves the first place of its segment empty and two rows at
\* its last one.  And a reorder never overwrites what another has committed between its
\* statements: what it has written is one off the committed row.
OrderIsKnown ==
    /\ tidy # Unknown =>
        /\ {rows[i] : i \in Present} = (1..Cardinality(Present)) \ {tidy[1]}
        /\ tidy # NoGap => \E i, j \in Present : i # j /\ rows[i] = tidy[2] /\ rows[j] = tidy[2]
    /\ \A r \in Requests : \A i \in DOMAIN writes[r] : writes[r][i] = rows[i] + (IF req[r].a.forward THEN -1 ELSE 1)

\* bulk_create reports no row that was not inserted, and for SQL none as failed that was.
\* For MongoDB a record reported as refused may be inserted later, with another item:
\* it is tried again with each, and an item that is reported as inserted leaves no valid
\* one before it behind.
BulkReportIsTrue ==
    \A r \in Requests : req[r].kind = "bulk" /\ "report" \in DOMAIN req[r] =>
        LET with(result) == {n \in DOMAIN req[r].report : req[r].report[n] = result} IN
        /\ with("ok") \subseteq req[r].inserted
        /\ IF engine = "sql" THEN req[r].inserted = with("ok")
           ELSE \A m \in with("refused"), n \in with("ok") : m < n => m \in req[r].inserted
=============================================================================
