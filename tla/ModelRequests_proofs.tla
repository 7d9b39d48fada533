------------------------- MODULE ModelRequests_proofs -------------------------
(***************************************************************************)
(* Lists that are complete and do not end early, reports of bulk_create    *)
(* that are true, siblings that are neighbours, and an order that stays    *)
(* without gaps, for any number of requests, rows, pages and items.        *)
(***************************************************************************)
EXTENDS ModelRequests, TLAPS, FiniteSetTheorems, SequenceTheorems, WellFoundedInduction

WalkRecords == [kind : {"walk"}, pc : {"data", "count", "over"} \cup Paginating, w : Walks, page : Nat \ {0},
                data : Seq(Ids), seen : Seq(Ids), end : BOOLEAN, count : Nat, size : Nat, next : BOOLEAN,
                own : BOOLEAN]

BulkRecords == [kind : {"bulk"}, pc : {"items", "over"}, body : Bulks, next : Nat, active : BOOLEAN,
                queue : Seq(Nat), report : Seq({"ok", "refused", "invalid"}), inserted : SUBSET Nat]

\* The page read last is full, or it ends the list.
WalkSound(x) == x.pc \in {"count"} \cup Paginating => Len(x.data) = x.w.size \/ x.end

\* What is reported as inserted is; a record of MongoDB that was refused is in the queue
\* until it is inserted, and the queue is empty when an item is reported as inserted.
BulkSound(x, e) ==
    /\ x.next = Len(x.report) + 1
    /\ \A n \in x.inserted : n \in 1..Len(x.report)
    /\ \A n \in 1..Len(x.report) :
        /\ x.report[n] = "ok" => n \in x.inserted
        /\ e = "sql" => (n \in x.inserted => x.report[n] = "ok")
        /\ e # "sql" /\ x.report[n] = "refused" => n \in x.inserted \cup Range(x.queue)
        /\ e # "sql" /\ x.report[n] = "ok" =>
            \A m \in 1..(n - 1) : x.report[m] = "refused" => m \in x.inserted
    /\ \A n \in Range(x.queue) : n \in 1..Len(x.report)

Others == {"none", "siblings", "update", "destroy", "reorder", "reset"}

Sound(x, e) ==
    \/ x \in WalkRecords /\ WalkSound(x)
    \/ x \in BulkRecords /\ BulkSound(x, e)
    \/ "kind" \in DOMAIN x /\ x.kind \in Others

RequestsInv ==
    /\ engine \in Engines
    /\ DOMAIN req = Requests /\ \A r \in Requests : Sound(req[r], engine)

PaginatorInv == paginator \in [count : Nat, page : Nat, size : Nat]

\* A list writes one of the paginator's attributes.
Paginate(r) == PageCount(r) \/ PageNumber(r) \/ PageSize(r)

-----------------------------------------------------------------------------
LEMMA MinOfTwo ==
    ASSUME NEW a \in Int, NEW b \in Int
    PROVE  Min({a, b}) \in {a, b} /\ Min({a, b}) <= a /\ Min({a, b}) <= b
BY DEF Min

LEMMA FramedStep ==
    ASSUME RequestsInv, NEW r \in Requests, DOMAIN req' = DOMAIN req,
           \A s \in Requests \ {r} : req'[s] = req[s], Sound(req'[r], engine), engine' = engine
    PROVE  RequestsInv'
BY DEF RequestsInv

\* A request's record is replaced by another.
LEMMA ReplaceStep ==
    ASSUME RequestsInv, NEW r \in Requests, NEW x, Sound(x, engine),
           req' = [req EXCEPT ![r] = x], engine' = engine
    PROVE  RequestsInv'
<1>1. DOMAIN req' = DOMAIN req /\ req'[r] = x /\ \A s \in Requests \ {r} : req'[s] = req[s]
  BY DEF RequestsInv
<1>. QED BY <1>1, FramedStep

LEMMA KindsDiffer ==
    ASSUME NEW x, NEW e, Sound(x, e)
    PROVE  /\ x.kind = "walk" => x \in WalkRecords /\ WalkSound(x)
           /\ x.kind = "bulk" => x \in BulkRecords /\ BulkSound(x, e)
           /\ "kind" \in DOMAIN x
BY DEF Sound, WalkRecords, BulkRecords, Others

-----------------------------------------------------------------------------
(* list                                                                    *)

LEMMA SortedIsSeq ==
    ASSUME NEW terms, NEW f, NEW s \in Sorted(terms, Matching(f))
    PROVE  s \in Seq(Ids)
<1>1. Matching(f) \subseteq Ids
  BY DEF Matching, Present
<1>2. Cardinality(Matching(f)) \in Nat
  BY <1>1, ModelAssumption, FS_Subset, FS_CardinalityType
<1>3. s \in [1..Cardinality(Matching(f)) -> Matching(f)]
  BY DEF Sorted, SetToSeqs
<1>. QED BY <1>1, <1>2, <1>3

\* A page that is not full is the last one.
LEMMA PageIsFullOrLast ==
    ASSUME NEW s \in Seq(Ids), NEW first \in Nat, NEW size \in Nat
    PROVE  LET page == SubSeq(s, first + 1, Min({first + size, Len(s)}))
           IN page \in Seq(Ids) /\ (Len(page) = size \/ first + Len(page) >= Len(s))
<1>. DEFINE last == Min({first + size, Len(s)})
            page == SubSeq(s, first + 1, last)
<1>0. first + size \in Int /\ Len(s) \in Int
  OBVIOUS
<1>1. last \in {first + size, Len(s)} /\ last <= first + size /\ last <= Len(s)
  BY <1>0, MinOfTwo
<1>. HIDE DEF last
<1>2. page \in Seq(Ids)
  BY <1>0, <1>1
<1>3. Len(page) = IF first + 1 <= last THEN last - first ELSE 0
  BY <1>0, <1>1
<1>4. Len(page) = size \/ first + Len(page) >= Len(s)
  BY <1>0, <1>1, <1>3
<1>. QED BY <1>2, <1>4 DEF last

LEMMA PageDataStep ==
    ASSUME RequestsInv, NEW r \in Requests, PageData(r)
    PROVE  RequestsInv'
<1>1. req[r] \in WalkRecords
  BY KindsDiffer DEF PageData, At, RequestsInv
<1>. DEFINE w == req[r].w
            first == (req[r].page - 1) * w.size
<1>2. PICK s \in Sorted(DefaultOrdering(w.order), Matching(w.filter)) :
        LET page == SubSeq(s, first + 1, Min({first + w.size, Len(s)}))
        IN req' = [req EXCEPT ![r].pc = "count", ![r].data = page,
                              ![r].seen = @ \o page, ![r].end = first + Len(page) >= Len(s)]
  BY DEF PageData
<1>. DEFINE page == SubSeq(s, first + 1, Min({first + w.size, Len(s)}))
            last == first + Len(page) >= Len(s)
            seen == req[r].seen \o page
            record == [req[r] EXCEPT !.pc = "count", !.data = page, !.seen = seen, !.end = last]
<1>3. w \in Walks /\ w.size \in Nat /\ req[r].page - 1 \in Nat /\ req[r].seen \in Seq(Ids)
  BY <1>1, ModelAssumption DEF WalkRecords
<1>4. first \in Nat
  BY <1>3
<1>5. s \in Seq(Ids)
  BY SortedIsSeq
<1>6. page \in Seq(Ids) /\ (Len(page) = w.size \/ last)
  BY <1>3, <1>4, <1>5, PageIsFullOrLast
<1>7. req' = [req EXCEPT ![r] = record]
  BY <1>2, <1>1 DEF RequestsInv
<1>. HIDE DEF page
<1>8. page \in Seq(Ids) /\ seen \in Seq(Ids) /\ last \in BOOLEAN
  BY <1>3, <1>6
<1>. HIDE DEF last, first, seen
<1>9. /\ record \in WalkRecords /\ record.data = page /\ record.w = w
      /\ record.end = last
  BY <1>1, <1>8 DEF WalkRecords
<1>10. WalkSound(record)
  BY <1>6, <1>9 DEF WalkSound
<1>. HIDE DEF record
<1>. QED BY <1>7, <1>9, <1>10, ReplaceStep DEF Sound, PageData

LEMMA PaginateIs ==
    ASSUME NEW r, Paginate(r)
    PROVE  /\ UNCHANGED <<engine, rows, writes, calm, tidy>>
           /\ \E pc \in {"page", "size", "answer"} : Paginates(r, pc)
           /\ req[r].kind = "walk" /\ req[r].pc \in {"count", "page", "size"}
<1>1. CASE PageCount(r)
  BY <1>1 DEF PageCount, At
<1>2. CASE PageNumber(r)
  BY <1>2 DEF PageNumber, At
<1>3. CASE PageSize(r)
  BY <1>3 DEF PageSize, At
<1>. QED BY <1>1, <1>2, <1>3 DEF Paginate

\* Other lists may only learn that the paginator is not theirs.
LEMMA PaginateStep ==
    ASSUME RequestsInv, NEW r \in Requests, Paginate(r)
    PROVE  RequestsInv'
<1>1. /\ engine' = engine
      /\ req[r].kind = "walk" /\ req[r].pc \in {"count", "page", "size"}
  BY PaginateIs
<1>2. PICK pc \in {"page", "size", "answer"} :
        req' = [s \in Requests |->
                  IF s = r THEN [req[s] EXCEPT !.pc = pc]
                  ELSE IF req[s].kind = "walk" /\ req[s].pc \in Paginating THEN [req[s] EXCEPT !.own = FALSE]
                  ELSE req[s]]
  BY PaginateIs DEF Paginates
<1>3. ASSUME NEW s \in Requests PROVE Sound(req'[s], engine)
  <2>1. CASE s = r
    <3>1. req[s] \in WalkRecords /\ WalkSound(req[s])
      BY <2>1, <1>1, KindsDiffer DEF RequestsInv
    <3>2. req'[s] = [req[s] EXCEPT !.pc = pc]
      BY <2>1, <1>2
    <3>3. req'[s] \in WalkRecords /\ WalkSound(req'[s])
      BY <2>1, <3>1, <3>2, <1>1 DEF WalkRecords, WalkSound, Paginating
    <3>. QED BY <3>3 DEF Sound
  <2>2. CASE s # r /\ req[s].kind = "walk" /\ req[s].pc \in Paginating
    <3>1. req[s] \in WalkRecords /\ WalkSound(req[s])
      BY <2>2, KindsDiffer DEF RequestsInv
    <3>2. req'[s] = [req[s] EXCEPT !.own = FALSE]
      BY <2>2, <1>2
    <3>3. req'[s] \in WalkRecords /\ WalkSound(req'[s])
      BY <3>1, <3>2 DEF WalkRecords, WalkSound
    <3>. QED BY <3>3 DEF Sound
  <2>3. CASE s # r /\ ~(req[s].kind = "walk" /\ req[s].pc \in Paginating)
    BY <2>3, <1>2 DEF RequestsInv
  <2>. QED BY <2>1, <2>2, <2>3
<1>. QED BY <1>1, <1>2, <1>3 DEF RequestsInv

LEMMA StartWalkStep ==
    ASSUME RequestsInv, NEW r \in Requests, NEW w \in Walks, StartWalk(r, w)
    PROVE  RequestsInv'
<1>. DEFINE record == [kind |-> "walk", pc |-> "data", w |-> w, page |-> 1, data |-> <<>>,
                       seen |-> <<>>, end |-> FALSE, count |-> 0, size |-> 0, next |-> FALSE, own |-> TRUE]
<1>1. record \in WalkRecords /\ WalkSound(record)
  BY DEF WalkRecords, WalkSound, Paginating
<1>2. req' = [req EXCEPT ![r] = record] /\ engine' = engine
  BY DEF StartWalk, Begin
<1>. QED BY <1>1, <1>2, ReplaceStep DEF Sound

\* What an answer makes of a list's record.
LEMMA AnswerIs ==
    ASSUME RequestsInv, PaginatorInv, NEW r \in Requests, Answer(r)
    PROVE  /\ UNCHANGED <<engine, rows, writes, paginator, calm, tidy>>
           /\ req[r] \in WalkRecords /\ WalkSound(req[r]) /\ req[r].pc \in Paginating
           /\ DOMAIN req' = Requests /\ \A s \in Requests \ {r} : req'[s] = req[s]
           /\ \/ At(r, "walk", "answer") /\ req'[r] = [req[r] EXCEPT !.pc = "pages", !.count = paginator.count]
              \/ At(r, "walk", "pages") /\ req'[r] = [req[r] EXCEPT !.pc = "next", !.size = paginator.size]
              \/ /\ At(r, "walk", "next")
                 /\ req'[r] = [req[r] EXCEPT !.pc = "full", !.next = paginator.page < PagesCount(req[r])]
              \/ At(r, "walk", "full") /\ HasMore(req[r]) /\ req'[r] = [req[r] EXCEPT !.pc = "link"]
              \/ At(r, "walk", "full") /\ ~HasMore(req[r]) /\ req'[r] = [req[r] EXCEPT !.pc = "over"]
              \/ At(r, "walk", "link") /\ req[r].own /\ req'[r] = [req[r] EXCEPT !.pc = "data", !.page = paginator.page + 1]
              \/ At(r, "walk", "link") /\ ~req[r].own /\ req'[r] = [req[r] EXCEPT !.pc = "over"]
<1>1. req[r].kind = "walk" /\ req[r].pc \in Paginating /\ DOMAIN req = Requests
  BY DEF Answer, At, Paginating, RequestsInv
<1>2. req[r] \in WalkRecords /\ WalkSound(req[r])
  BY <1>1, KindsDiffer DEF RequestsInv
<1>3. CASE At(r, "walk", "answer")
  BY <1>1, <1>2, <1>3 DEF Answer, At
<1>4. CASE At(r, "walk", "pages")
  BY <1>1, <1>2, <1>4 DEF Answer, At
<1>5. CASE At(r, "walk", "next")
  BY <1>1, <1>2, <1>5 DEF Answer, At
<1>6. CASE At(r, "walk", "full")
  <2>1. Goto(r, IF HasMore(req[r]) THEN "link" ELSE "over") /\ UNCHANGED <<engine, rows, writes, paginator, calm, tidy>>
    BY <1>6 DEF Answer, At
  <2>. QED BY <1>1, <1>2, <1>6, <2>1 DEF Goto
<1>7. CASE At(r, "walk", "link")
  <2>1. /\ \/ req[r].own /\ req' = [req EXCEPT ![r].pc = "data", ![r].page = paginator.page + 1]
           \/ ~req[r].own /\ Goto(r, "over")
        /\ UNCHANGED <<engine, rows, writes, paginator, calm, tidy>>
    BY <1>7 DEF Answer, At
  <2>. QED BY <1>1, <1>2, <1>7, <2>1 DEF Goto
<1>. QED BY <1>3, <1>4, <1>5, <1>6, <1>7 DEF Answer

LEMMA AnswerStep ==
    ASSUME RequestsInv, PaginatorInv, NEW r \in Requests, Answer(r)
    PROVE  RequestsInv'
<1>0. /\ req[r] \in WalkRecords /\ WalkSound(req[r]) /\ req[r].pc \in Paginating
      /\ engine' = engine /\ DOMAIN req' = Requests /\ \A s \in Requests \ {r} : req'[s] = req[s]
      /\ DOMAIN req = Requests
  BY AnswerIs DEF RequestsInv
<1>. DEFINE next == paginator.page < PagesCount(req[r])
            page == paginator.page + 1
<1>1. next \in BOOLEAN /\ page \in Nat \ {0} /\ paginator.count \in Nat /\ paginator.size \in Nat
  BY DEF PaginatorInv
<1>2. \/ req'[r] = [req[r] EXCEPT !.pc = "pages", !.count = paginator.count]
      \/ req'[r] = [req[r] EXCEPT !.pc = "next", !.size = paginator.size]
      \/ req'[r] = [req[r] EXCEPT !.pc = "full", !.next = next]
      \/ req'[r] = [req[r] EXCEPT !.pc = "link"]
      \/ req'[r] = [req[r] EXCEPT !.pc = "over"]
      \/ req'[r] = [req[r] EXCEPT !.pc = "data", !.page = page]
  BY AnswerIs
<1>. HIDE DEF next, page
<1>3. req'[r] \in WalkRecords
  <2>1. CASE req'[r] = [req[r] EXCEPT !.pc = "pages", !.count = paginator.count]
    BY <1>0, <1>1, <2>1 DEF WalkRecords, Paginating
  <2>2. CASE req'[r] = [req[r] EXCEPT !.pc = "next", !.size = paginator.size]
    BY <1>0, <1>1, <2>2 DEF WalkRecords, Paginating
  <2>3. CASE req'[r] = [req[r] EXCEPT !.pc = "full", !.next = next]
    BY <1>0, <1>1, <2>3 DEF WalkRecords, Paginating
  <2>4. CASE req'[r] = [req[r] EXCEPT !.pc = "link"] \/ req'[r] = [req[r] EXCEPT !.pc = "over"]
    BY <1>0, <2>4 DEF WalkRecords, Paginating
  <2>5. CASE req'[r] = [req[r] EXCEPT !.pc = "data", !.page = page]
    BY <1>0, <1>1, <2>5 DEF WalkRecords, Paginating
  <2>. QED BY <1>2, <2>1, <2>2, <2>3, <2>4, <2>5
<1>4. req'[r].data = req[r].data /\ req'[r].w = req[r].w /\ req'[r].end = req[r].end
  BY <1>0, <1>2 DEF WalkRecords
<1>5. WalkSound(req'[r])
  BY <1>0, <1>4 DEF WalkSound
<1>6. Sound(req'[r], engine)
  BY <1>3, <1>5 DEF Sound
<1>. QED BY <1>0, <1>6, FramedStep

-----------------------------------------------------------------------------
(* bulk_create                                                             *)

LEMMA StartBulkStep ==
    ASSUME RequestsInv, NEW r \in Requests, NEW body \in Bulks, StartBulk(r, body)
    PROVE  RequestsInv'
<1>. DEFINE pc == IF body = <<>> THEN "over" ELSE "items"
            record == [kind |-> "bulk", pc |-> pc, body |-> body, next |-> 1, active |-> TRUE,
                       queue |-> <<>>, report |-> <<>>, inserted |-> {}]
<1>1. record \in BulkRecords /\ BulkSound(record, engine)
  BY DEF BulkRecords, BulkSound, Range
<1>2. req' = [req EXCEPT ![r] = record] /\ engine' = engine
  BY DEF StartBulk, Begin
<1>. QED BY <1>1, <1>2, ReplaceStep DEF Sound

LEMMA ReportsStep ==
    ASSUME NEW r, req[r] \in BulkRecords, NEW result \in {"ok", "refused", "invalid"}
    PROVE  /\ Reports(r, result) \in BulkRecords
           /\ Reports(r, result).next = req[r].next + 1
           /\ Reports(r, result).report = Append(req[r].report, result)
           /\ Reports(r, result).queue = req[r].queue /\ Reports(r, result).inserted = req[r].inserted
<1>. DEFINE pc == IF req[r].next = Len(req[r].body) THEN "over" ELSE "items"
            next == req[r].next + 1
            report == Append(req[r].report, result)
<1>1. pc \in {"items", "over"} /\ next \in Nat /\ report \in Seq({"ok", "refused", "invalid"})
  BY DEF BulkRecords
<1>2. Reports(r, result) = [req[r] EXCEPT !.next = next, !.report = report, !.pc = pc]
  BY DEF Reports
<1>. HIDE DEF pc, next, report
<1>3. /\ [req[r] EXCEPT !.next = next, !.report = report, !.pc = pc] \in BulkRecords
      /\ Reports(r, result).next = next /\ Reports(r, result).report = report
      /\ Reports(r, result).queue = req[r].queue /\ Reports(r, result).inserted = req[r].inserted
  BY <1>1, <1>2 DEF BulkRecords
<1>. QED BY <1>2, <1>3 DEF next, report

\* An item of a body for SQL, or an invalid one: it is inserted if it is so reported.
LEMMA ItemStep ==
    ASSUME NEW x \in BulkRecords, NEW y \in BulkRecords, NEW e, BulkSound(x, e),
           NEW result \in {"ok", "refused", "invalid"}, e = "sql" \/ result = "invalid",
           y.next = x.next + 1, y.report = Append(x.report, result), y.queue = x.queue,
           y.inserted = IF result = "ok" THEN x.inserted \cup {x.next} ELSE x.inserted
    PROVE  BulkSound(y, e)
<1>1. Len(y.report) = Len(x.report) + 1 /\ x.next = Len(x.report) + 1 /\ Len(x.report) \in Nat
  BY DEF BulkSound, BulkRecords
<1>2. \A n \in 1..Len(x.report) : y.report[n] = x.report[n]
  BY DEF BulkRecords
<1>3. y.report[x.next] = result
  BY <1>1 DEF BulkRecords
<1>4. y.next = Len(y.report) + 1
  BY <1>1
<1>5. \A n \in y.inserted : n \in 1..Len(y.report)
  BY <1>1 DEF BulkSound
<1>6. \A n \in Range(y.queue) : n \in 1..Len(y.report)
  BY <1>1 DEF BulkSound
<1>7. ASSUME NEW n \in 1..Len(y.report)
      PROVE  /\ y.report[n] = "ok" => n \in y.inserted
             /\ e = "sql" => (n \in y.inserted => y.report[n] = "ok")
             /\ e # "sql" /\ y.report[n] = "refused" => n \in y.inserted \cup Range(y.queue)
             /\ e # "sql" /\ y.report[n] = "ok" =>
                  \A m \in 1..(n - 1) : y.report[m] = "refused" => m \in y.inserted
  <2>1. CASE n = x.next
    BY <2>1, <1>1, <1>3 DEF BulkSound
  <2>2. CASE n # x.next
    <3>1. n \in 1..Len(x.report)
      BY <2>2, <1>1
    <3>2. y.report[n] = x.report[n] /\ \A m \in 1..(n - 1) : y.report[m] = x.report[m] /\ m \in 1..Len(x.report)
      BY <3>1, <1>1, <1>2
    <3>3. n \in y.inserted <=> n \in x.inserted
      BY <2>2
    <3>. QED BY <3>1, <3>2, <3>3 DEF BulkSound
  <2>. QED BY <2>1, <2>2
<1>. QED BY <1>4, <1>5, <1>6, <1>7 DEF BulkSound

LEMMA CreateInvalidStep ==
    ASSUME RequestsInv, NEW r \in Requests, CreateInvalid(r)
    PROVE  RequestsInv'
<1>1. req[r] \in BulkRecords /\ BulkSound(req[r], engine)
  BY KindsDiffer DEF CreateInvalid, At, RequestsInv
<1>2. req' = [req EXCEPT ![r] = Reports(r, "invalid")] /\ engine' = engine
  BY DEF CreateInvalid
<1>3. Reports(r, "invalid") \in BulkRecords /\ BulkSound(Reports(r, "invalid"), engine)
  BY <1>1, ReportsStep, ItemStep
<1>. QED BY <1>2, <1>3, ReplaceStep DEF Sound

LEMMA CreateSqlStep ==
    ASSUME RequestsInv, NEW r \in Requests, CreateSql(r)
    PROVE  RequestsInv'
<1>1. req[r] \in BulkRecords /\ BulkSound(req[r], engine) /\ engine = "sql" /\ engine' = engine
  BY KindsDiffer DEF CreateSql, At, RequestsInv
<1>2. ASSUME req' = [req EXCEPT ![r] = [[Reports(r, "ok") EXCEPT !.active = TRUE]
                                          EXCEPT !.inserted = @ \cup {req[r].next}]]
      PROVE  RequestsInv'
  <2>. DEFINE plain == Reports(r, "ok")
              record == [[plain EXCEPT !.active = TRUE] EXCEPT !.inserted = @ \cup {req[r].next}]
  <2>1. /\ plain \in BulkRecords /\ plain.next = req[r].next + 1
        /\ plain.report = Append(req[r].report, "ok")
        /\ plain.queue = req[r].queue /\ plain.inserted = req[r].inserted
    BY <1>1, ReportsStep
  <2>2. req[r].next \in Nat
    BY <1>1 DEF BulkRecords
  <2>3. req' = [req EXCEPT ![r] = record]
    BY <1>2
  <2>. HIDE DEF plain
  <2>4. /\ record \in BulkRecords /\ record.next = plain.next /\ record.report = plain.report
        /\ record.queue = plain.queue /\ record.inserted = plain.inserted \cup {req[r].next}
    BY <2>1, <2>2 DEF BulkRecords
  <2>. HIDE DEF record
  <2>5. BulkSound(record, engine)
    BY <1>1, <2>1, <2>4, ItemStep
  <2>. QED BY <1>1, <2>3, <2>4, <2>5, ReplaceStep DEF Sound
<1>3. ASSUME NEW active \in BOOLEAN, req' = [req EXCEPT ![r] = [Reports(r, "refused") EXCEPT !.active = active]]
      PROVE  RequestsInv'
  <2>. DEFINE plain == Reports(r, "refused")
              record == [plain EXCEPT !.active = active]
  <2>1. /\ plain \in BulkRecords /\ plain.next = req[r].next + 1
        /\ plain.report = Append(req[r].report, "refused")
        /\ plain.queue = req[r].queue /\ plain.inserted = req[r].inserted
    BY <1>1, ReportsStep
  <2>2. req' = [req EXCEPT ![r] = record]
    BY <1>3
  <2>. HIDE DEF plain
  <2>3. /\ record \in BulkRecords /\ record.next = plain.next /\ record.report = plain.report
        /\ record.queue = plain.queue /\ record.inserted = plain.inserted
    BY <2>1 DEF BulkRecords
  <2>. HIDE DEF record
  <2>4. BulkSound(record, engine)
    BY <1>1, <2>1, <2>3, ItemStep
  <2>. QED BY <1>1, <2>2, <2>3, <2>4, ReplaceStep DEF Sound
<1>4. \A active \in IF req[r].body[req[r].next].id # Absent THEN BOOLEAN ELSE {TRUE} : active \in BOOLEAN
  OBVIOUS
<1>. QED BY <1>2, <1>3, <1>4 DEF CreateSql

\* The records of a queue that are inserted, and those that stay.
LEMMA QueueSplits ==
    ASSUME NEW q \in Seq(Nat), NEW n \in 0..Len(q)
    PROVE  /\ SubSeq(q, 1, n) \in Seq(Nat) /\ SubSeq(q, n + 1, Len(q)) \in Seq(Nat)
           /\ Range(q) = Range(SubSeq(q, 1, n)) \cup Range(SubSeq(q, n + 1, Len(q)))
           /\ n = Len(q) => Range(SubSeq(q, n + 1, Len(q))) = {}
<1>. DEFINE taken == SubSeq(q, 1, n)
            rest == SubSeq(q, n + 1, Len(q))
<1>1. taken \in Seq(Nat) /\ Len(taken) = n /\ \A i \in 1..n : taken[i] = q[i]
  OBVIOUS
<1>2. rest \in Seq(Nat) /\ Len(rest) = Len(q) - n /\ \A i \in 1..(Len(q) - n) : rest[i] = q[n + i]
  OBVIOUS
<1>. HIDE DEF taken, rest
<1>3. ASSUME NEW x \in Range(q) PROVE x \in Range(taken) \cup Range(rest)
  <2>1. PICK i \in 1..Len(q) : q[i] = x
    BY DEF Range
  <2>2. CASE i <= n
    BY <2>1, <2>2, <1>1 DEF Range
  <2>3. CASE i > n
    <3>1. i - n \in 1..(Len(q) - n) /\ rest[i - n] = x
      BY <2>1, <2>3, <1>2
    <3>. QED BY <3>1, <1>2 DEF Range
  <2>. QED BY <2>2, <2>3
<1>4. ASSUME NEW x \in Range(taken) PROVE x \in Range(q)
  BY <1>1 DEF Range
<1>5. ASSUME NEW x \in Range(rest) PROVE x \in Range(q)
  <2>1. PICK i \in 1..(Len(q) - n) : rest[i] = x
    BY <1>2 DEF Range
  <2>2. n + i \in 1..Len(q) /\ q[n + i] = x
    BY <2>1, <1>2
  <2>. QED BY <2>2 DEF Range
<1>6. n = Len(q) => Range(rest) = {}
  BY <1>2 DEF Range
<1>7. Range(q) = Range(taken) \cup Range(rest)
  BY <1>3, <1>4, <1>5
<1>. QED BY <1>1, <1>2, <1>6, <1>7 DEF taken, rest

\* An item for MongoDB: the queue, with the item at its end, is taken up to some record.
LEMMA QueuedItemStep ==
    ASSUME NEW x \in BulkRecords, NEW y \in BulkRecords, NEW e, e # "sql", BulkSound(x, e),
           NEW q, q = Append(x.queue, x.next), NEW n \in 0..Len(q),
           y.next = x.next + 1, y.report = Append(x.report, IF n = Len(q) THEN "ok" ELSE "refused"),
           y.queue = SubSeq(q, n + 1, Len(q)), y.inserted = x.inserted \cup Range(SubSeq(q, 1, n))
    PROVE  BulkSound(y, e)
<1>1. /\ Len(y.report) = Len(x.report) + 1 /\ x.next = Len(x.report) + 1 /\ Len(x.report) \in Nat
      /\ \A m \in 1..Len(x.report) : y.report[m] = x.report[m]
      /\ y.report[x.next] = IF n = Len(q) THEN "ok" ELSE "refused"
  BY DEF BulkSound, BulkRecords
<1>2. q \in Seq(Nat)
  BY DEF BulkRecords
<1>3. Range(q) = Range(x.queue) \cup {x.next}
  <2>1. Len(q) = Len(x.queue) + 1 /\ q[Len(q)] = x.next /\ \A i \in 1..Len(x.queue) : q[i] = x.queue[i]
    BY DEF BulkRecords
  <2>2. DOMAIN q = 1..Len(q) /\ DOMAIN x.queue = 1..Len(x.queue) /\ Len(x.queue) \in Nat
    BY <1>2 DEF BulkRecords
  <2>3. \A i \in 1..Len(q) : i \in 1..Len(x.queue) \/ i = Len(q)
    BY <2>1, <2>2
  <2>4. 1..Len(x.queue) \subseteq 1..Len(q) /\ Len(q) \in 1..Len(q)
    BY <2>1, <2>2
  <2>. QED BY <2>1, <2>2, <2>3, <2>4 DEF Range
<1>4. Range(q) = Range(SubSeq(q, 1, n)) \cup Range(y.queue) /\ (n = Len(q) => Range(y.queue) = {})
  <2>1. /\ Range(q) = Range(SubSeq(q, 1, n)) \cup Range(SubSeq(q, n + 1, Len(q)))
        /\ n = Len(q) => Range(SubSeq(q, n + 1, Len(q))) = {}
    BY ONLY <1>2, n \in 0..Len(q), QueueSplits
  <2>. QED BY <2>1
<1>5. y.inserted \cup Range(y.queue) = x.inserted \cup Range(x.queue) \cup {x.next}
  BY <1>3, <1>4
<1>6. n = Len(q) => y.inserted = x.inserted \cup Range(x.queue) \cup {x.next}
  BY <1>4, <1>5
<1>7. y.next = Len(y.report) + 1
  BY <1>1
<1>8. \A m \in y.inserted \cup Range(y.queue) : m \in 1..Len(y.report)
  BY <1>1, <1>5 DEF BulkSound
<1>9. ASSUME NEW m \in 1..Len(y.report)
      PROVE  /\ y.report[m] = "ok" => m \in y.inserted
             /\ y.report[m] = "refused" => m \in y.inserted \cup Range(y.queue)
             /\ y.report[m] = "ok" => \A k \in 1..(m - 1) : y.report[k] = "refused" => k \in y.inserted
  <2>1. CASE m = x.next
    <3>1. \A k \in 1..(m - 1) : k \in 1..Len(x.report) /\ y.report[k] = x.report[k]
      BY <2>1, <1>1
    <3>2. \A k \in 1..Len(x.report) : x.report[k] = "refused" => k \in x.inserted \cup Range(x.queue)
      BY DEF BulkSound
    <3>. QED BY <2>1, <3>1, <3>2, <1>1, <1>5, <1>6
  <2>2. CASE m # x.next
    <3>1. m \in 1..Len(x.report) /\ y.report[m] = x.report[m]
      BY <2>2, <1>1
    <3>2. \A k \in 1..(m - 1) : k \in 1..Len(x.report) /\ y.report[k] = x.report[k]
      BY <3>1, <1>1
    <3>3. /\ x.report[m] = "ok" => m \in x.inserted
          /\ x.report[m] = "refused" => m \in x.inserted \cup Range(x.queue)
          /\ x.report[m] = "ok" => \A k \in 1..(m - 1) : x.report[k] = "refused" => k \in x.inserted
      BY <3>1 DEF BulkSound
    <3>. QED BY <3>1, <3>2, <3>3, <1>5
  <2>. QED BY <2>1, <2>2
<1>. QED BY <1>7, <1>8, <1>9 DEF BulkSound

LEMMA CreateMongoStep ==
    ASSUME RequestsInv, NEW r \in Requests, CreateMongo(r)
    PROVE  RequestsInv'
<1>1. req[r] \in BulkRecords /\ BulkSound(req[r], engine) /\ engine = "mongo" /\ engine' = engine
  BY KindsDiffer DEF CreateMongo, At, RequestsInv
<1>. DEFINE queue == Append(req[r].queue, req[r].next)
            room == Cardinality(Ids \ Present)
<1>2. queue \in Seq(Nat) /\ Len(queue) \in Nat
  BY <1>1 DEF BulkRecords
<1>3. room \in Nat
  BY ModelAssumption, FS_Subset, FS_CardinalityType
<1>4. PICK n \in 0..Min({Len(queue), room}) :
        req' = [req EXCEPT ![r] = [Reports(r, IF n = Len(queue) THEN "ok" ELSE "refused") EXCEPT
                                     !.queue = SubSeq(queue, n + 1, Len(queue)),
                                     !.inserted = @ \cup Range(SubSeq(queue, 1, n))]]
  BY DEF CreateMongo
<1>. HIDE DEF queue, room
<1>5. Min({Len(queue), room}) \in {Len(queue), room} /\ Min({Len(queue), room}) <= Len(queue)
  <2>1. Len(queue) \in Int /\ room \in Int
    BY <1>2, <1>3
  <2>. QED BY <2>1, MinOfTwo
<1>6. n \in 0..Len(queue)
  BY <1>2, <1>3, <1>5
<1>. DEFINE result == IF n = Len(queue) THEN "ok" ELSE "refused"
            plain == Reports(r, result)
            rest == SubSeq(queue, n + 1, Len(queue))
            taken == Range(SubSeq(queue, 1, n))
            record == [plain EXCEPT !.queue = rest, !.inserted = @ \cup taken]
<1>7. /\ plain \in BulkRecords /\ plain.next = req[r].next + 1
      /\ plain.report = Append(req[r].report, result) /\ plain.inserted = req[r].inserted
  BY <1>1, ReportsStep
<1>8. rest \in Seq(Nat)
  BY <1>2, <1>6, QueueSplits
<1>9. SubSeq(queue, 1, n) \in Seq(Nat)
  BY <1>2, <1>6, QueueSplits
<1>10. taken \subseteq Nat
  BY <1>9 DEF Range
<1>11. req' = [req EXCEPT ![r] = record]
  BY <1>4
<1>. HIDE DEF plain, rest, taken, result
<1>12. /\ record \in BulkRecords /\ record.next = plain.next /\ record.report = plain.report
       /\ record.queue = rest /\ record.inserted = plain.inserted \cup taken
  BY <1>7, <1>8, <1>10 DEF BulkRecords
<1>. HIDE DEF record
<1>13. BulkSound(record, engine)
  BY <1>1, <1>6, <1>7, <1>12, QueuedItemStep DEF rest, taken, result, queue
<1>. QED BY <1>1, <1>11, <1>12, <1>13, ReplaceStep DEF Sound

-----------------------------------------------------------------------------
(* The other requests                                                      *)

LEMMA OtherStep ==
    ASSUME RequestsInv, NEW r \in Requests, NEW x, "kind" \in DOMAIN x, x.kind \in Others,
           req' = [req EXCEPT ![r] = x], engine' = engine
    PROVE  RequestsInv'
BY ReplaceStep DEF Sound

LEMMA EndStep ==
    ASSUME RequestsInv, NEW r \in Requests, req[r].kind \in Others, End(r), engine' = engine
    PROVE  RequestsInv'
<1>1. "kind" \in DOMAIN Over(req[r].kind) /\ Over(req[r].kind).kind \in Others
  BY DEF Over
<1>2. req' = [req EXCEPT ![r] = Over(req[r].kind)]
  BY DEF End, RequestsInv
<1>. QED BY <1>1, <1>2, OtherStep

\* A record whose other fields change.
LEMMA KindStays ==
    ASSUME NEW x, NEW pc, "kind" \in DOMAIN x
    PROVE  /\ [x EXCEPT !.pc = pc].kind = x.kind /\ "kind" \in DOMAIN [x EXCEPT !.pc = pc]
           /\ \A v : /\ [x EXCEPT !.from = v, !.pc = pc].kind = x.kind
                     /\ "kind" \in DOMAIN [x EXCEPT !.from = v, !.pc = pc]
           /\ \A v : /\ [x EXCEPT !.to = v, !.pc = pc].kind = x.kind
                     /\ "kind" \in DOMAIN [x EXCEPT !.to = v, !.pc = pc]
OBVIOUS

LEMMA RowsCountIs ==
    ASSUME RequestsInv, NEW r \in Requests, RowsCount(r)
    PROVE  End(r) \/ (req'[r] = [req[r] EXCEPT !.pc = "number"] /\ req'[r].kind = "siblings")
<1>1. req[r].kind = "siblings" /\ "kind" \in DOMAIN req[r] /\ DOMAIN req = Requests
  BY KindsDiffer DEF RowsCount, At, RequestsInv
<1>2. End(r) \/ Goto(r, "number")
  BY DEF RowsCount
<1>3. CASE Goto(r, "number")
  <2>1. req'[r] = [req[r] EXCEPT !.pc = "number"]
    BY <1>1, <1>3 DEF Goto
  <2>. QED BY <1>1, <2>1, KindStays
<1>. QED BY <1>2, <1>3

LEMMA SiblingsStay ==
    ASSUME RequestsInv, NEW r \in Requests, RowsCount(r) \/ RowNumber(r) \/ RowSiblings(r)
    PROVE  req[r].kind = "siblings" /\ (End(r) \/ req'[r].kind = "siblings")
<1>0. DOMAIN req = Requests
  BY DEF RequestsInv
<1>1. CASE RowsCount(r)
  <2>1. req[r].kind = "siblings"
    BY <1>1 DEF RowsCount, At
  <2>. QED BY <1>1, <2>1, RowsCountIs
<1>2. CASE RowNumber(r)
  BY <1>0, <1>2 DEF RowNumber, At
<1>3. CASE RowSiblings(r)
  BY <1>0, <1>3 DEF RowSiblings, At
<1>. QED BY <1>1, <1>2, <1>3

LEMMA SiblingsSteps ==
    ASSUME RequestsInv, NEW r \in Requests,
           (\E w \in Walks, i \in Ids : StartSiblings(r, w, i)) \/ RowsCount(r) \/ RowNumber(r) \/ RowSiblings(r)
    PROVE  RequestsInv'
<1>1. ASSUME NEW w \in Walks, NEW i \in Ids, StartSiblings(r, w, i) PROVE RequestsInv'
  <2>. DEFINE record == [kind |-> "siblings", pc |-> "count", w |-> w, id |-> i]
  <2>1. req' = [req EXCEPT ![r] = record] /\ engine' = engine
    BY <1>1 DEF StartSiblings, Begin
  <2>2. "kind" \in DOMAIN record /\ record.kind \in Others
    BY DEF Others
  <2>. QED BY <2>1, <2>2, OtherStep
<1>2. CASE RowNumber(r)
  <2>1. engine' = engine /\ req[r].kind \in Others
    BY <1>2 DEF RowNumber, At, Others
  <2>2. ASSUME NEW n, req' = [req EXCEPT ![r] = [kind |-> "siblings", pc |-> "rows", w |-> @.w, id |-> @.id,
                                                 number |-> n]]
        PROVE  RequestsInv'
    <3>. DEFINE record == [kind |-> "siblings", pc |-> "rows", w |-> req[r].w, id |-> req[r].id, number |-> n]
    <3>1. req' = [req EXCEPT ![r] = record]
      BY <2>2 DEF RequestsInv
    <3>2. "kind" \in DOMAIN record /\ record.kind \in Others
      BY DEF Others
    <3>. QED BY <2>1, <3>1, <3>2, OtherStep
  <2>. QED BY <1>2, <2>1, <2>2, EndStep DEF RowNumber
<1>3. CASE RowSiblings(r)
  <2>1. engine' = engine /\ req[r].kind \in Others
    BY <1>3 DEF RowSiblings, At, Others
  <2>2. ASSUME NEW s, req' = [req EXCEPT ![r] = [kind |-> "siblings", pc |-> "over", id |-> @.id, list |-> s,
                                                 got |-> Siblings(@.number, s), calm |-> calm[r]]]
        PROVE  RequestsInv'
    <3>. DEFINE record == [kind |-> "siblings", pc |-> "over", id |-> req[r].id, list |-> s,
                           got |-> Siblings(req[r].number, s), calm |-> calm[r]]
    <3>1. req' = [req EXCEPT ![r] = record]
      BY <2>2 DEF RequestsInv
    <3>2. "kind" \in DOMAIN record /\ record.kind \in Others
      BY DEF Others
    <3>. QED BY <2>1, <3>1, <3>2, OtherStep
  <2>. QED BY <1>3, <2>1, <2>2, EndStep DEF RowSiblings
<1>4. CASE RowsCount(r)
  <2>1. engine' = engine /\ req[r].kind \in Others /\ "kind" \in DOMAIN req[r]
    BY <1>4, KindsDiffer DEF RowsCount, At, Others, RequestsInv
  <2>2. End(r) \/ req' = [req EXCEPT ![r] = [req[r] EXCEPT !.pc = "number"]]
    BY <1>4 DEF RowsCount, Goto, RequestsInv
  <2>. QED BY <2>1, <2>2, EndStep, KindStays, OtherStep
<1>. QED BY <1>1, <1>2, <1>3, <1>4

LEMMA WriteSteps ==
    ASSUME RequestsInv, NEW r \in Requests,
           \/ \E kind \in {"update", "destroy"}, i \in Ids : \E v : StartWrite(r, kind, i, v)
           \/ Update(r) \/ Destroy(r)
    PROVE  RequestsInv'
<1>1. ASSUME NEW kind \in {"update", "destroy"}, NEW i \in Ids, NEW v, StartWrite(r, kind, i, v)
      PROVE  RequestsInv'
  <2>. DEFINE record == [kind |-> kind, pc |-> "commit", id |-> i, v |-> v, loaded |-> rows[i]]
  <2>1. req' = [req EXCEPT ![r] = record] /\ engine' = engine
    BY <1>1 DEF StartWrite, Begin
  <2>2. "kind" \in DOMAIN record /\ record.kind \in Others
    BY DEF Others
  <2>. QED BY <2>1, <2>2, OtherStep
<1>2. CASE Update(r)
  BY <1>2, EndStep DEF Update, At, Others
<1>3. CASE Destroy(r)
  BY <1>3, EndStep DEF Destroy, At, Others
<1>. QED BY <1>1, <1>2, <1>3

LEMMA ReorderSteps ==
    ASSUME RequestsInv, NEW r \in Requests,
           \/ \E a \in Reorders : StartReorder(r, a)
           \/ ReadSegment(r) \/ Shift(r) \/ Place(r) \/ ReorderFails(r)
    PROVE  RequestsInv'
<1>0. "kind" \in DOMAIN req[r]
  BY KindsDiffer DEF RequestsInv
<1>1. ASSUME NEW a \in Reorders, StartReorder(r, a) PROVE RequestsInv'
  <2>. DEFINE record == [kind |-> "reorder", pc |-> "from", a |-> a, from |-> a.from, to |-> a.to]
  <2>1. req' = [req EXCEPT ![r] = record] /\ engine' = engine
    BY <1>1 DEF StartReorder, Begin
  <2>2. "kind" \in DOMAIN record /\ record.kind \in Others
    BY DEF Others
  <2>. QED BY <2>1, <2>2, OtherStep
<1>2. CASE ReadSegment(r)
  <2>1. engine' = engine /\ req[r].kind \in Others
    BY <1>2 DEF ReadSegment, Others
  <2>2. ASSUME NEW v, req' = [req EXCEPT ![r] = [req[r] EXCEPT !.from = v, !.pc = "to"]] PROVE RequestsInv'
    BY <1>0, <2>1, <2>2, KindStays, OtherStep
  <2>3. ASSUME NEW v, req' = [req EXCEPT ![r] = [req[r] EXCEPT !.to = v, !.pc = "shift"]] PROVE RequestsInv'
    BY <1>0, <2>1, <2>3, KindStays, OtherStep
  <2>4. CASE req[r].pc = "from"
    BY <1>2, <2>1, <2>2, <2>4, EndStep DEF ReadSegment
  <2>5. CASE req[r].pc # "from"
    BY <1>2, <2>1, <2>3, <2>5, EndStep DEF ReadSegment
  <2>. QED BY <2>4, <2>5
<1>3. CASE Shift(r)
  <2>1. engine' = engine /\ req[r].kind \in Others
    BY <1>3 DEF Shift, At, Others
  <2>2. req' = [req EXCEPT ![r] = [req[r] EXCEPT !.pc = "place"]]
    BY <1>3 DEF Shift, Goto, RequestsInv
  <2>. QED BY <1>0, <2>1, <2>2, KindStays, OtherStep
<1>4. CASE Place(r)
  BY <1>4, EndStep DEF Place, At, Others
<1>5. CASE ReorderFails(r)
  BY <1>5, EndStep DEF ReorderFails, Others
<1>. QED BY <1>1, <1>2, <1>3, <1>4, <1>5

LEMMA ResetSteps ==
    ASSUME RequestsInv, NEW r \in Requests, (\E w \in Walks : StartReset(r, w.order)) \/ ResetCommit(r)
    PROVE  RequestsInv'
<1>1. ASSUME NEW w \in Walks, StartReset(r, w.order) PROVE RequestsInv'
  <2>1. PICK s \in Sorted(w.order, Present) :
          Begin(r, [kind |-> "reset", pc |-> "commit", list |-> s, loaded |-> rows])
    BY <1>1 DEF StartReset
  <2>. DEFINE record == [kind |-> "reset", pc |-> "commit", list |-> s, loaded |-> rows]
  <2>2. req' = [req EXCEPT ![r] = record] /\ engine' = engine
    BY <1>1, <2>1 DEF StartReset, Begin
  <2>3. "kind" \in DOMAIN record /\ record.kind \in Others
    BY DEF Others
  <2>. QED BY <2>2, <2>3, OtherStep
<1>2. CASE ResetCommit(r)
  BY <1>2, EndStep DEF ResetCommit, At, Others
<1>. QED BY <1>1, <1>2

-----------------------------------------------------------------------------
LEMMA InitHolds == Init => RequestsInv /\ PaginatorInv
<1>. SUFFICES ASSUME Init PROVE RequestsInv /\ PaginatorInv
  OBVIOUS
<1>1. req = [r \in Requests |-> Idle] /\ engine \in Engines /\ paginator = [count |-> 0, page |-> 0, size |-> 0]
  BY DEF Init
<1>2. "kind" \in DOMAIN Idle /\ Idle.kind \in Others
  BY DEF Idle, Others
<1>. QED BY <1>1, <1>2 DEF RequestsInv, PaginatorInv, Sound

LEMMA NextHolds == ASSUME RequestsInv, PaginatorInv, [Next]_vars PROVE RequestsInv'
<1>1. CASE UNCHANGED vars
  BY <1>1 DEF vars, RequestsInv
<1>2. ASSUME NEW r \in Requests, Start(r) PROVE RequestsInv'
  BY <1>2, StartWalkStep, SiblingsSteps, WriteSteps, StartBulkStep, ReorderSteps, ResetSteps DEF Start
<1>3. ASSUME NEW r \in Requests, Step(r) PROVE RequestsInv'
  BY <1>3, PageDataStep, PaginateStep, AnswerStep, SiblingsSteps, WriteSteps, CreateInvalidStep,
     CreateSqlStep, CreateMongoStep, ReorderSteps, ResetSteps DEF Step, Paginate
<1>. QED BY <1>1, <1>2, <1>3 DEF Next

LEMMA CountIsNumber ==
    ASSUME RequestsInv, NEW r \in Requests, PageCount(r)
    PROVE  \E count \in Nat : paginator' = [paginator EXCEPT !.count = count]
<1>1. req[r] \in WalkRecords
  BY KindsDiffer DEF PageCount, At, RequestsInv
<1>. DEFINE n == Len(req[r].data)
            f == req[r].w.filter
            all == CountsOf(Cardinality(Matching(f)), f.lookup # "")
            counts == IF req[r].page = 1 /\ n < req[r].w.size THEN {n} ELSE all
<1>2. n \in Nat
  BY <1>1 DEF WalkRecords
<1>3. Cardinality(Matching(f)) \in Nat
  <2>1. Matching(f) \subseteq Ids
    BY DEF Matching, Present
  <2>. QED BY <2>1, ModelAssumption, FS_Subset, FS_CardinalityType
<1>4. all \subseteq Nat
  BY <1>3, ModelAssumption DEF CountsOf
<1>5. counts \subseteq Nat
  BY <1>2, <1>4
<1>6. \E count \in counts : paginator' = [paginator EXCEPT !.count = count]
  BY DEF PageCount
<1>. HIDE DEF counts
<1>. QED BY <1>5, <1>6

LEMMA NextKeepsPage == ASSUME RequestsInv, PaginatorInv, [Next]_vars PROVE PaginatorInv'
<1>1. ASSUME NEW r \in Requests, Paginate(r) PROVE PaginatorInv'
  <2>1. req[r] \in WalkRecords
    BY <1>1, PaginateIs, KindsDiffer DEF RequestsInv
  <2>2. req[r].page \in Nat /\ req[r].w.size \in Nat
    BY <2>1, ModelAssumption DEF WalkRecords
  <2>3. CASE PageCount(r)
    BY <2>3, CountIsNumber DEF PaginatorInv
  <2>4. CASE PageNumber(r)
    BY <2>2, <2>4 DEF PageNumber, PaginatorInv
  <2>5. CASE PageSize(r)
    BY <2>2, <2>5 DEF PageSize, PaginatorInv
  <2>. QED BY <1>1, <2>3, <2>4, <2>5 DEF Paginate
<1>2. ASSUME paginator' = paginator PROVE PaginatorInv'
  BY <1>2 DEF PaginatorInv
<1>3. CASE UNCHANGED vars
  BY <1>2, <1>3 DEF vars
<1>4. ASSUME NEW r \in Requests, Start(r) PROVE PaginatorInv'
  BY <1>2, <1>4 DEF Start, StartWalk, StartSiblings, StartWrite, StartBulk, StartReorder, StartReset
<1>5. ASSUME NEW r \in Requests, Step(r) PROVE PaginatorInv'
  BY <1>1, <1>2, <1>5 DEF Step, Paginate, PageData, Answer, RowsCount, RowNumber, RowSiblings, Update, Destroy,
     CreateInvalid, CreateSql, CreateMongo, ReadSegment, Shift, Place, ReorderFails, ResetCommit
<1>. QED BY <1>3, <1>4, <1>5 DEF Next

LEMMA RequestsInvAlways == Spec => [](RequestsInv /\ PaginatorInv)
BY InitHolds, NextHolds, NextKeepsPage, PTL DEF Spec

\* "has_more" is not false before the end of a list (CustomPageNumberPagination), whatever
\* is written and whoever uses the paginator meanwhile: see NoEarlyEnd.
THEOREM NoEarlyEndAlways == Spec => []NoEarlyEnd
<1>1. RequestsInv => NoEarlyEnd
  <2>. SUFFICES ASSUME RequestsInv, NEW r \in Requests, At(r, "walk", "full"), ~HasMore(req[r]),
                       paginator.size = req[r].w.size
       PROVE  req[r].end
    BY DEF NoEarlyEnd
  <2>1. WalkSound(req[r])
    BY KindsDiffer DEF At, RequestsInv
  <2>. QED BY <2>1 DEF WalkSound, At, HasMore, Paginating
<1>. QED BY <1>1, RequestsInvAlways, PTL

\* What bulk_create reports of its items is true of the database, also after statements
\* that failed (BulkCreate, ModelSerializer.create, MongoSession.commit): see BulkReportIsTrue.
THEOREM BulkReportIsTrueAlways == Spec => []BulkReportIsTrue
<1>1. RequestsInv => BulkReportIsTrue
  <2>. SUFFICES ASSUME RequestsInv, NEW r \in Requests, req[r].kind = "bulk"
       PROVE  LET with(result) == {n \in DOMAIN req[r].report : req[r].report[n] = result} IN
              /\ with("ok") \subseteq req[r].inserted
              /\ IF engine = "sql" THEN req[r].inserted = with("ok")
                 ELSE \A m \in with("refused"), n \in with("ok") : m < n => m \in req[r].inserted
    BY DEF BulkReportIsTrue
  <2>1. req[r] \in BulkRecords /\ BulkSound(req[r], engine)
    BY KindsDiffer DEF RequestsInv
  <2>. DEFINE report == req[r].report
              inserted == req[r].inserted
              with(result) == {n \in DOMAIN report : report[n] = result}
  <2>2. report \in Seq({"ok", "refused", "invalid"}) /\ DOMAIN report = 1..Len(report) /\ Len(report) \in Nat
    BY <2>1 DEF BulkRecords
  <2>3. /\ \A n \in inserted : n \in DOMAIN report
        /\ \A n \in DOMAIN report :
            /\ report[n] = "ok" => n \in inserted
            /\ engine = "sql" => (n \in inserted => report[n] = "ok")
            /\ engine # "sql" /\ report[n] = "ok" =>
                \A m \in 1..(n - 1) : report[m] = "refused" => m \in inserted
    BY <2>1, <2>2 DEF BulkSound
  <2>4. \A m, n \in DOMAIN report : m < n => m \in 1..(n - 1)
    BY <2>2
  <2>. HIDE DEF report, inserted
  <2>5. with("ok") \subseteq inserted
    BY <2>3
  <2>6. engine = "sql" => inserted = with("ok")
    BY <2>3
  <2>7. engine # "sql" => \A m \in with("refused"), n \in with("ok") : m < n => m \in inserted
    BY <2>3, <2>4
  <2>. QED BY <2>5, <2>6, <2>7 DEF report, inserted
<1>. QED BY <1>1, RequestsInvAlways, PTL

-----------------------------------------------------------------------------
\* The least-number principle: finite intervals are well-founded under inclusion.
LEMMA LeastNatural ==
    ASSUME NEW T, T \subseteq Nat, T # {}
    PROVE  \E x \in T : \A y \in T : x <= y
<1>. DEFINE F == {1..n : n \in T}
<1>1. F \subseteq FiniteSubsetsOf(Nat) /\ F # {}
  <2>1. ASSUME NEW n \in T PROVE 1..n \in SUBSET Nat /\ IsFiniteSet(1..n)
    BY FS_Interval
  <2>. QED BY <2>1 DEF FiniteSubsetsOf
<1>2. IsWellFoundedOn(StrictSubsetOrdering(Nat), FiniteSubsetsOf(Nat))
  BY FS_StrictSubsetOrderingWellFounded
<1>. HIDE DEF F
<1>3. PICK x \in F : \A y \in F : ~(<<y, x>> \in StrictSubsetOrdering(Nat))
  BY <1>1, <1>2, WFMin
<1>. USE DEF F
<1>4. PICK n \in T : x = 1..n
  BY <1>3
<1>5. ASSUME NEW m \in T, m < n PROVE FALSE
  <2>1. 1..m \in F /\ 1..m \in SUBSET Nat /\ 1..n \in SUBSET Nat
    OBVIOUS
  <2>2. ~(<<1..m, 1..n>> \in StrictSubsetOrdering(Nat))
    BY <1>3, <1>4, <2>1
  <2>3. 1..m \subseteq 1..n /\ 1..m # 1..n
    <3>1. n \notin 1..m /\ n \in 1..n
      BY <1>5
    <3>. QED BY <1>5, <3>1
  <2>. QED BY <2>1, <2>2, <2>3 DEF StrictSubsetOrdering
<1>. QED BY <1>5

(* Type correctness, and what a step of one request leaves to the others   *)

Cell == Int \cup {Null, Absent}

\* What the requests that change rows hold.
Fits(x) ==
    /\ x.kind \in {"update", "destroy"} /\ x.pc = "commit" => x.id \in Ids /\ x.v \in Int
    /\ x.kind = "bulk" /\ x.pc = "items" => x.next <= Len(x.body)
    /\ x.kind = "reorder" /\ x.pc # "over" =>
        "pc" \in DOMAIN x /\ x.a \in Reorders /\ x.from \in Int /\ x.to \in Int
    /\ x.kind = "reset" /\ x.pc = "commit" => x.list \in Seq(Ids)

Written(r) ==
    /\ \A i \in DOMAIN writes[r] : i \in Ids /\ writes[r][i] \in Int
    /\ writes[r] # <<>> => At(r, "reorder", "place")

TypeInv ==
    /\ rows \in [Ids -> Cell]
    /\ DOMAIN writes = Requests /\ \A r \in Requests : Written(r)
    /\ \A r, s \in Requests : r # s => DOMAIN writes[r] \cap DOMAIN writes[s] = {}
    /\ \A r \in Requests : Fits(req[r])
    /\ calm \in [Requests -> BOOLEAN] /\ tidy \in {Unknown} \cup (Nat \X Nat)

\* The others keep their place and what they have written, and they are no longer calm
\* when the rows change; only a list takes the paginator from other lists.
Steady(r) ==
    /\ engine' = engine /\ DOMAIN req' = Requests /\ DOMAIN writes' = Requests
    /\ calm' \in [Requests -> BOOLEAN]
    /\ \A s \in Requests \ {r} :
        /\ Paginate(r) \/ req'[s] = req[s]
        /\ writes'[s] = writes[s]
        /\ calm'[s] => calm[s] /\ rows' = rows

LEMMA BeginIsSteady ==
    ASSUME RequestsInv, TypeInv, NEW r \in Requests, NEW x, Begin(r, x), UNCHANGED <<engine, rows, writes>>
    PROVE  Steady(r)
BY DEF Begin, Steady, RequestsInv, TypeInv

LEMMA StartIsSteady ==
    ASSUME RequestsInv, TypeInv, NEW r \in Requests, Start(r)
    PROVE  Steady(r)
<1>1. ASSUME NEW w, NEW i, StartWalk(r, w) \/ StartSiblings(r, w, i) PROVE Steady(r)
  BY <1>1, BeginIsSteady DEF StartWalk, StartSiblings
<1>2. ASSUME NEW kind, NEW i, NEW v, StartWrite(r, kind, i, v) PROVE Steady(r)
  BY <1>2, BeginIsSteady DEF StartWrite
<1>3. ASSUME NEW body, StartBulk(r, body) PROVE Steady(r)
  BY <1>3, BeginIsSteady DEF StartBulk
<1>4. ASSUME NEW a, StartReorder(r, a) PROVE Steady(r)
  BY <1>4, BeginIsSteady DEF StartReorder
<1>5. ASSUME NEW terms, StartReset(r, terms) PROVE Steady(r)
  <2>1. \E s : Begin(r, [kind |-> "reset", pc |-> "commit", list |-> s, loaded |-> rows])
    BY <1>5 DEF StartReset
  <2>. QED BY <1>5, <2>1, BeginIsSteady DEF StartReset
<1>. QED BY <1>1, <1>2, <1>3, <1>4, <1>5 DEF Start

LEMMA NoticedIsSteady ==
    ASSUME TypeInv, NEW r \in Requests, Noticed(r)
    PROVE  calm' \in [Requests -> BOOLEAN] /\ \A s \in Requests \ {r} : ~calm'[s]
BY DEF Noticed, TypeInv

\* The place of a key among the free ones.
LEMMA FreePlace ==
    ASSUME NEW i \in Ids \ Present
    PROVE  Cardinality({j \in Ids \ Present : j <= i}) \in Nat \ {0}
<1>. DEFINE S == {j \in Ids \ Present : j <= i}
<1>1. S \subseteq Ids /\ i \in S
  BY ModelAssumption
<1>2. IsFiniteSet(S)
  BY <1>1, ModelAssumption, FS_Subset
<1>. HIDE DEF S
<1>3. Cardinality(S) \in Nat /\ (Cardinality(S) = 0 <=> S = {})
  BY <1>2, FS_CardinalityType, FS_EmptySet
<1>4. Cardinality(S) \in Nat \ {0}
  BY <1>1, <1>3
<1>. QED BY <1>4 DEF S

LEMMA MongoRows ==
    ASSUME TypeInv, NEW r \in Requests, CreateMongo(r)
    PROVE  rows' = rows \/ (Noticed(r) /\ tidy' = Unknown)
<1>. DEFINE queue == Append(req[r].queue, req[r].next)
            nth(i) == Cardinality({j \in Ids \ Present : j <= i})
<1>1. PICK n \in 0..Min({Len(queue), Cardinality(Ids \ Present)}) :
        /\ rows' = [i \in Ids |-> IF i \notin Present /\ nth(i) <= n
                                  THEN req[r].body[SubSeq(queue, 1, n)[nth(i)]].v ELSE rows[i]]
        /\ IF n = 0 THEN UNCHANGED <<tidy, calm>> ELSE tidy' = Unknown /\ Noticed(r)
  BY DEF CreateMongo
<1>2. CASE n = 0
  <2>1. \A i \in Ids : i \notin Present => ~(nth(i) <= n)
    BY <1>2, FreePlace
  <2>2. rows' = [i \in Ids |-> rows[i]]
    BY <1>1, <2>1
  <2>3. rows = [i \in Ids |-> rows[i]]
    BY DEF TypeInv
  <2>4. rows' = rows
    BY <2>2, <2>3
  <2>. QED BY <2>4
<1>. QED BY <1>1, <1>2

LEMMA StepIsSteady ==
    ASSUME RequestsInv, TypeInv, NEW r \in Requests, Step(r)
    PROVE  Steady(r)
<1>0. DOMAIN req = Requests /\ DOMAIN writes = Requests /\ calm \in [Requests -> BOOLEAN]
  BY DEF RequestsInv, TypeInv
<1>1. CASE Paginate(r)
  <2>1. UNCHANGED <<engine, rows, writes, calm>> /\ DOMAIN req' = Requests
    BY <1>1, PaginateIs DEF Paginates
  <2>. QED BY <1>0, <1>1, <2>1 DEF Steady
<1>2. CASE PageData(r) \/ Answer(r)
  BY <1>0, <1>2 DEF PageData, Answer, Goto, Steady
<1>3. CASE RowsCount(r) \/ RowNumber(r) \/ RowSiblings(r)
  BY <1>0, <1>3 DEF RowsCount, RowNumber, RowSiblings, Steady, End, Goto
<1>4. CASE Update(r) \/ Destroy(r)
  BY <1>0, <1>4, NoticedIsSteady DEF Update, Destroy, Steady, End
<1>5. CASE CreateInvalid(r)
  BY <1>0, <1>5 DEF CreateInvalid, Steady
<1>6. CASE CreateSql(r)
  BY <1>0, <1>6, NoticedIsSteady DEF CreateSql, Steady
<1>7. CASE CreateMongo(r)
  <2>1. /\ \E x : req' = [req EXCEPT ![r] = x]
        /\ UNCHANGED <<engine, writes>> /\ (calm' = calm \/ Noticed(r))
    BY <1>7 DEF CreateMongo
  <2>. QED BY <1>0, <1>7, <2>1, MongoRows, NoticedIsSteady DEF Steady
<1>8. CASE ReadSegment(r) \/ Shift(r) \/ ReorderFails(r)
  BY <1>0, <1>8 DEF ReadSegment, Shift, ReorderFails, Steady, End, Goto
<1>9. CASE Place(r)
  BY <1>0, <1>9, NoticedIsSteady DEF Place, Steady, End
<1>10. CASE ResetCommit(r)
  BY <1>0, <1>10, NoticedIsSteady DEF ResetCommit, Steady, End
<1>. QED BY <1>1, <1>2, <1>3, <1>4, <1>5, <1>6, <1>7, <1>8, <1>9, <1>10 DEF Step, Paginate

\* The record that an item of a bulk is taken from.
LEMMA ItemOf ==
    ASSUME NEW x \in BulkRecords, NEW n \in 1..Len(x.body)
    PROVE  x.body[n] \in [id : Ids \cup {Absent}, v : Int]
<1>. DEFINE Items == [id : Ids \cup {Absent}, v : Int]
<1>1. x.body \in Seq(Items)
  BY ModelAssumption DEF BulkRecords
<1>. HIDE DEF Items
<1>2. x.body[n] \in Items
  BY <1>1
<1>. QED BY <1>2 DEF Items

LEMMA NextItem ==
    ASSUME RequestsInv, TypeInv, NEW r \in Requests, At(r, "bulk", "items")
    PROVE  req[r] \in BulkRecords /\ BulkSound(req[r], engine) /\ req[r].next \in 1..Len(req[r].body)
<1>1. req[r] \in BulkRecords /\ BulkSound(req[r], engine)
  BY KindsDiffer DEF At, RequestsInv
<1>2. req[r].next <= Len(req[r].body)
  BY DEF At, TypeInv, Fits
<1>3. req[r].body \in Seq([id : Ids \cup {Absent}, v : Int]) /\ req[r].report \in Seq({"ok", "refused", "invalid"})
  BY <1>1, ModelAssumption DEF BulkRecords
<1>4. Len(req[r].body) \in Nat /\ Len(req[r].report) \in Nat /\ req[r].next = Len(req[r].report) + 1
  BY <1>1, <1>3 DEF BulkSound
<1>. QED BY <1>1, <1>2, <1>4

\* The free key of the next row.
LEMMA FreeIdIsFree ==
    ASSUME Present # Ids
    PROVE  FreeId \in Ids \ Present
<1>1. Ids \ Present \subseteq Nat /\ Ids \ Present # {}
  BY ModelAssumption DEF Present
<1>2. \E i \in Ids \ Present : \A j \in Ids \ Present : i <= j
  BY <1>1, LeastNatural
<1>. QED BY <1>2 DEF FreeId

LEMMA MongoRowsTyped ==
    ASSUME RequestsInv, TypeInv, NEW r \in Requests, CreateMongo(r)
    PROVE  rows' \in [Ids -> Cell]
<1>. DEFINE x == req[r]
            queue == Append(x.queue, x.next)
            nth(i) == Cardinality({j \in Ids \ Present : j <= i})
<1>1. x \in BulkRecords /\ BulkSound(x, engine) /\ x.next \in 1..Len(x.body)
  BY NextItem DEF CreateMongo
<1>2. PICK n \in 0..Min({Len(queue), Cardinality(Ids \ Present)}) :
        rows' = [i \in Ids |-> IF i \notin Present /\ nth(i) <= n
                               THEN x.body[SubSeq(queue, 1, n)[nth(i)]].v ELSE rows[i]]
  BY DEF CreateMongo
<1>3. queue \in Seq(Nat) /\ Len(queue) = Len(x.queue) + 1 /\ Len(x.queue) \in Nat
  BY <1>1 DEF BulkRecords
<1>4. n \in 0..Len(queue)
  <2>1. Cardinality(Ids \ Present) \in Nat
    BY ModelAssumption, FS_Subset, FS_CardinalityType
  <2>. HIDE DEF queue
  <2>2. Min({Len(queue), Cardinality(Ids \ Present)}) <= Len(queue)
        /\ Min({Len(queue), Cardinality(Ids \ Present)}) \in Int
    <3>1. Len(queue) \in Int /\ Cardinality(Ids \ Present) \in Int
      BY <1>3, <2>1
    <3>2. \A m \in {Len(queue), Cardinality(Ids \ Present)} : m \in Int
      BY <3>1
    <3>. QED BY <3>1, <3>2, MinOfTwo
  <2>. QED BY <2>2, <1>3
<1>5. \A k \in 1..Len(queue) : queue[k] \in 1..Len(x.body)
  <2>1. \A k \in 1..Len(x.queue) : queue[k] = x.queue[k] /\ x.queue[k] \in 1..Len(x.report)
    BY <1>1 DEF BulkRecords, BulkSound, Range
  <2>2. x.next = Len(x.report) + 1 /\ Len(x.report) \in Nat /\ x.next \in 1..Len(x.body)
    BY <1>1 DEF BulkRecords, BulkSound
  <2>3. queue[Len(x.queue) + 1] = x.next
    BY <1>1 DEF BulkRecords
  <2>4. Len(x.body) \in Nat
    BY <1>1, ModelAssumption DEF BulkRecords
  <2>5. ASSUME NEW k \in 1..Len(queue) PROVE queue[k] \in 1..Len(x.body)
    <3>1. k \in 1..Len(x.queue) \/ k = Len(x.queue) + 1
      BY <1>3
    <3>. HIDE DEF queue
    <3>. QED BY <3>1, <2>1, <2>2, <2>3, <2>4
  <2>. QED BY <2>5
<1>. HIDE DEF queue
<1>6. ASSUME NEW i \in Ids, i \notin Present, nth(i) <= n
      PROVE  x.body[SubSeq(queue, 1, n)[nth(i)]].v \in Int
  <2>1. nth(i) \in 1..n
    BY <1>6, <1>4, FreePlace
  <2>. HIDE DEF nth
  <2>2. SubSeq(queue, 1, n)[nth(i)] = queue[nth(i)] /\ nth(i) \in 1..Len(queue)
    BY <2>1, <1>3, <1>4
  <2>3. queue[nth(i)] \in 1..Len(x.body)
    BY <1>5, <2>2
  <2>4. x.body[queue[nth(i)]] \in [id : Ids \cup {Absent}, v : Int]
    BY <1>1, <2>3, ItemOf
  <2>. QED BY <2>2, <2>4
<1>. HIDE DEF nth, x
<1>7. \A i \in Ids : rows[i] \in Cell
  BY DEF TypeInv
<1>. QED BY <1>2, <1>6, <1>7 DEF Cell

LEMMA RowsTyped ==
    ASSUME RequestsInv, TypeInv, NEW r \in Requests, Start(r) \/ Step(r)
    PROVE  rows' \in [Ids -> Cell]
<1>0. rows \in [Ids -> Cell] /\ Int \subseteq Cell /\ Absent \in Cell
  BY DEF TypeInv, Cell
<1>1. CASE Update(r)
  <2>1. req[r].v \in Cell
    BY <1>0, <1>1 DEF Update, At, TypeInv, Fits
  <2>. QED BY <1>0, <1>1, <2>1 DEF Update
<1>2. CASE Destroy(r)
  BY <1>0, <1>2 DEF Destroy
<1>3. CASE CreateSql(r)
  <2>1. req[r].body[req[r].next] \in [id : Ids \cup {Absent}, v : Int]
    BY <1>3, NextItem, ItemOf DEF CreateSql
  <2>2. req[r].body[req[r].next].v \in Cell
    BY <1>0, <2>1
  <2>3. rows' = rows \/ \E i : rows' = [rows EXCEPT ![i] = req[r].body[req[r].next].v]
    BY <1>3 DEF CreateSql
  <2>. QED BY <1>0, <2>2, <2>3
<1>4. CASE CreateMongo(r)
  BY <1>4, MongoRowsTyped
<1>5. CASE Place(r)
  <2>1. req[r].to \in Cell /\ \A j \in DOMAIN writes[r] : writes[r][j] \in Cell
    BY <1>0, <1>5 DEF Place, At, TypeInv, Fits, Written
  <2>. QED BY <1>0, <1>5, <2>1 DEF Place
<1>6. CASE ResetCommit(r)
  <2>. DEFINE s == req[r].list
              changed == {n \in DOMAIN s : req[r].loaded[s[n]] # n}
              ids == {s[n] : n \in changed}
  <2>1. s \in Seq(Ids) /\ changed \subseteq Int
    BY <1>6 DEF ResetCommit, At, TypeInv, Fits
  <2>2. \A i \in ids : (CHOOSE n \in changed : s[n] = i) \in Int
    BY <2>1
  <2>3. rows' = rows \/ rows' = [i \in Ids |-> IF i \in ids THEN CHOOSE n \in changed : s[n] = i ELSE rows[i]]
    BY <1>6 DEF ResetCommit
  <2>. HIDE DEF ids, changed
  <2>. QED BY <1>0, <2>2, <2>3
<1>7. CASE Start(r)
  BY <1>0, <1>7 DEF Start, StartWalk, StartSiblings, StartWrite, StartBulk, StartReorder, StartReset
<1>8. CASE \/ PageData(r) \/ Paginate(r) \/ Answer(r) \/ RowsCount(r) \/ RowNumber(r) \/ RowSiblings(r)
           \/ CreateInvalid(r) \/ ReadSegment(r) \/ Shift(r) \/ ReorderFails(r)
  BY <1>0, <1>8, PaginateIs DEF PageData, Answer, RowsCount, RowNumber, RowSiblings, CreateInvalid, ReadSegment,
     Shift, ReorderFails
<1>. QED BY <1>1, <1>2, <1>3, <1>4, <1>5, <1>6, <1>7, <1>8 DEF Step, Paginate

LEMMA SomeoneElse ==
    ASSUME RequestsInv, NEW r \in Requests, Steady(r), NEW s \in Requests, s # r
    PROVE  \/ req'[s] = req[s]
           \/ req[s].kind = "walk" /\ req[s].pc \in Paginating /\ req'[s] = [req[s] EXCEPT !.own = FALSE]
<1>1. CASE Paginate(r)
  <2>1. PICK pc : Paginates(r, pc)
    BY <1>1, PaginateIs
  <2>. QED BY <2>1 DEF Paginates
<1>2. CASE ~Paginate(r)
  BY <1>2 DEF Steady
<1>. QED BY <1>1, <1>2

\* A list that learns that the paginator is not its own is at the same place.
LEMMA StaysThere ==
    ASSUME RequestsInv, NEW r \in Requests, Steady(r), NEW s \in Requests, s # r
    PROVE  /\ req'[s].kind = req[s].kind /\ req'[s].pc = req[s].pc
           /\ req[s].kind # "walk" => req'[s] = req[s]
<1>1. CASE req[s].kind = "walk" /\ req[s].pc \in Paginating /\ req'[s] = [req[s] EXCEPT !.own = FALSE]
  <2>1. req[s] \in WalkRecords
    BY <1>1, KindsDiffer DEF RequestsInv
  <2>. QED BY <1>1, <2>1 DEF WalkRecords
<1>. QED BY <1>1, SomeoneElse

LEMMA OthersFit ==
    ASSUME RequestsInv, TypeInv, NEW r \in Requests, Steady(r), Fits(req'[r])
    PROVE  \A s \in Requests : Fits(req'[s])
<1>1. ASSUME NEW s \in Requests, s # r PROVE Fits(req'[s])
  <2>1. CASE req[s].kind = "walk"
    <3>1. req'[s].kind = "walk"
      BY <1>1, <2>1, StaysThere
    <3>. QED BY <3>1 DEF Fits
  <2>2. CASE req[s].kind # "walk"
    BY <1>1, <2>2, StaysThere DEF TypeInv
  <2>. QED BY <2>1, <2>2
<1>. QED BY <1>1

LEMMA OverFits == ASSUME NEW kind PROVE Fits(Over(kind))
BY DEF Fits, Over

LEMMA StartFits ==
    ASSUME RequestsInv, NEW r \in Requests, Start(r)
    PROVE  Fits(req'[r])
<1>0. \A x : Begin(r, x) => req'[r] = x
  BY DEF Begin, RequestsInv
<1>1. ASSUME NEW w, NEW i, StartWalk(r, w) \/ StartSiblings(r, w, i) PROVE Fits(req'[r])
  BY <1>0, <1>1 DEF StartWalk, StartSiblings, Fits
<1>2. ASSUME NEW kind, NEW i \in Ids, NEW v \in Int, StartWrite(r, kind, i, v), kind \in {"update", "destroy"}
      PROVE  Fits(req'[r])
  BY <1>0, <1>2 DEF StartWrite, Fits
<1>3. ASSUME NEW body \in Bulks, StartBulk(r, body) PROVE Fits(req'[r])
  <2>1. req'[r] = [kind |-> "bulk", pc |-> IF body = <<>> THEN "over" ELSE "items", body |-> body,
                   next |-> 1, active |-> TRUE, queue |-> <<>>, report |-> <<>>, inserted |-> {}]
    BY <1>0, <1>3 DEF StartBulk
  <2>2. body # <<>> => 1 <= Len(body)
    <3>. DEFINE Items == [id : Ids \cup {Absent}, v : Int]
    <3>1. body \in Seq(Items)
      BY ModelAssumption
    <3>. HIDE DEF Items
    <3>. QED BY <3>1
  <2>. QED BY <2>1, <2>2 DEF Fits
<1>4. ASSUME NEW a \in Reorders, StartReorder(r, a) PROVE Fits(req'[r])
  <2>1. req'[r] = [kind |-> "reorder", pc |-> "from", a |-> a, from |-> a.from, to |-> a.to]
    BY <1>0, <1>4 DEF StartReorder
  <2>. QED BY <2>1, ModelAssumption DEF Fits
<1>5. ASSUME NEW terms, StartReset(r, terms) PROVE Fits(req'[r])
  <2>1. PICK s \in Sorted(terms, Present) :
          Begin(r, [kind |-> "reset", pc |-> "commit", list |-> s, loaded |-> rows])
    BY <1>5 DEF StartReset
  <2>2. s \in Seq(Ids)
    <3>1. Cardinality(Present) \in Nat /\ Present \subseteq Ids
      BY ModelAssumption, FS_Subset, FS_CardinalityType DEF Present
    <3>2. s \in [1..Cardinality(Present) -> Present]
      BY DEF Sorted, SetToSeqs
    <3>. QED BY <3>1, <3>2
  <2>3. req'[r] = [kind |-> "reset", pc |-> "commit", list |-> s, loaded |-> rows]
    BY <1>0, <2>1
  <2>. QED BY <2>2, <2>3 DEF Fits
<1>6. Cells \subseteq Int /\ 0 \in Int
  BY ModelAssumption
<1>. QED BY <1>1, <1>2, <1>3, <1>4, <1>5, <1>6 DEF Start

LEMMA ReportsFits ==
    ASSUME RequestsInv, TypeInv, NEW r \in Requests, At(r, "bulk", "items"), NEW result \in {"ok", "refused", "invalid"}
    PROVE  Reports(r, result).pc = "items" => Reports(r, result).next <= Len(Reports(r, result).body)
<1>1. req[r] \in BulkRecords /\ req[r].next \in 1..Len(req[r].body)
  BY NextItem
<1>2. Reports(r, result) = [req[r] EXCEPT !.next = @ + 1, !.report = Append(@, result),
                                 !.pc = IF req[r].next = Len(req[r].body) THEN "over" ELSE "items"]
  BY DEF Reports
<1>3. /\ Reports(r, result).pc = IF req[r].next = Len(req[r].body) THEN "over" ELSE "items"
      /\ Reports(r, result).next = req[r].next + 1 /\ Reports(r, result).body = req[r].body
  BY <1>1, <1>2 DEF BulkRecords
<1>4. Len(req[r].body) \in Nat
  BY <1>1, ModelAssumption DEF BulkRecords
<1>. QED BY <1>1, <1>3, <1>4

LEMMA BulkStays ==
    ASSUME RequestsInv, TypeInv, NEW r \in Requests, CreateInvalid(r) \/ CreateSql(r) \/ CreateMongo(r)
    PROVE  req'[r].kind = "bulk" /\ Fits(req'[r])
<1>1. At(r, "bulk", "items") /\ DOMAIN req = Requests
  BY DEF CreateInvalid, CreateSql, CreateMongo, RequestsInv
<1>2. req[r] \in BulkRecords
  BY <1>1, NextItem
<1>. DEFINE Same(y) == req'[r].kind = "bulk" /\ req'[r].pc = y.pc /\ req'[r].next = y.next /\ req'[r].body = y.body
<1>3. \E result \in {"ok", "refused", "invalid"} : Same(Reports(r, result))
  <2>1. \A result \in {"ok", "refused", "invalid"} : Reports(r, result) \in BulkRecords
    BY <1>2, ReportsStep
  <2>2. CASE CreateInvalid(r)
    <3>1. req'[r] = Reports(r, "invalid")
      BY <1>1, <2>2 DEF CreateInvalid
    <3>. QED BY <2>1, <3>1 DEF BulkRecords
  <2>3. CASE CreateSql(r)
    <3>1. ASSUME req'[r] = [[Reports(r, "ok") EXCEPT !.active = TRUE] EXCEPT !.inserted = @ \cup {req[r].next}]
          PROVE  Same(Reports(r, "ok"))
      BY <2>1, <3>1 DEF BulkRecords
    <3>2. ASSUME NEW active, req'[r] = [Reports(r, "refused") EXCEPT !.active = active]
          PROVE  Same(Reports(r, "refused"))
      BY <2>1, <3>2 DEF BulkRecords
    <3>. HIDE DEF Same
    <3>. QED BY <1>1, <2>3, <3>1, <3>2 DEF CreateSql
  <2>4. CASE CreateMongo(r)
    <3>. DEFINE queue == Append(req[r].queue, req[r].next)
    <3>1. PICK n : req' = [req EXCEPT ![r] = [Reports(r, IF n = Len(queue) THEN "ok" ELSE "refused") EXCEPT
                                                !.queue = SubSeq(queue, n + 1, Len(queue)),
                                                !.inserted = @ \cup Range(SubSeq(queue, 1, n))]]
      BY <2>4 DEF CreateMongo
    <3>. DEFINE result == IF n = Len(queue) THEN "ok" ELSE "refused"
                rest == SubSeq(queue, n + 1, Len(queue))
                taken == Range(SubSeq(queue, 1, n))
    <3>2. result \in {"ok", "refused", "invalid"}
      OBVIOUS
    <3>3. req'[r] = [Reports(r, result) EXCEPT !.queue = rest, !.inserted = @ \cup taken]
      BY <1>1, <3>1
    <3>. HIDE DEF result, rest, taken
    <3>4. Same(Reports(r, result))
      BY <2>1, <3>2, <3>3 DEF BulkRecords
    <3>. QED BY <3>2, <3>4
  <2>. QED BY <2>2, <2>3, <2>4
<1>4. PICK result \in {"ok", "refused", "invalid"} : Same(Reports(r, result))
  BY <1>3
<1>5. /\ req'[r].kind = "bulk" /\ req'[r].pc = Reports(r, result).pc
      /\ req'[r].next = Reports(r, result).next /\ req'[r].body = Reports(r, result).body
  BY <1>4
<1>. QED BY <1>1, <1>5, ReportsFits DEF Fits

LEMMA WalkStays ==
    ASSUME RequestsInv, PaginatorInv, NEW r \in Requests, PageData(r) \/ Paginate(r) \/ Answer(r)
    PROVE  req'[r].kind = "walk"
<1>0. DOMAIN req = Requests
  BY DEF RequestsInv
<1>1. req[r] \in WalkRecords
  <2>1. req[r].kind = "walk"
    BY PaginateIs DEF PageData, Answer, At
  <2>. QED BY <2>1, KindsDiffer DEF RequestsInv
<1>2. CASE PageData(r)
  <2>1. "kind" \in DOMAIN req[r] /\ req[r].kind = "walk"
    BY <1>1 DEF WalkRecords
  <2>. DEFINE first == (req[r].page - 1) * req[r].w.size
  <2>2. PICK s \in Sorted(DefaultOrdering(req[r].w.order), Matching(req[r].w.filter)) :
          LET page == SubSeq(s, first + 1, Min({first + req[r].w.size, Len(s)}))
          IN req' = [req EXCEPT ![r].pc = "count", ![r].data = page,
                                ![r].seen = @ \o page, ![r].end = first + Len(page) >= Len(s)]
    BY <1>2 DEF PageData
  <2>. DEFINE page == SubSeq(s, first + 1, Min({first + req[r].w.size, Len(s)}))
              end == first + Len(page) >= Len(s)
              seen == req[r].seen \o page
  <2>3. req'[r] = [req[r] EXCEPT !.pc = "count", !.data = page, !.seen = seen, !.end = end]
    BY <1>0, <1>1, <2>2
  <2>. HIDE DEF page, end, seen
  <2>. QED BY <2>1, <2>3
<1>3. CASE Paginate(r)
  <2>1. PICK pc : Paginates(r, pc)
    BY <1>3, PaginateIs
  <2>2. req'[r] = [req[r] EXCEPT !.pc = pc]
    BY <2>1 DEF Paginates
  <2>. QED BY <1>1, <2>2 DEF WalkRecords
<1>4. CASE Answer(r)
  <2>. DEFINE next == paginator.page < PagesCount(req[r])
              page == paginator.page + 1
  <2>1. \/ req'[r] = [req[r] EXCEPT !.pc = "pages", !.count = paginator.count]
        \/ req'[r] = [req[r] EXCEPT !.pc = "next", !.size = paginator.size]
        \/ req'[r] = [req[r] EXCEPT !.pc = "full", !.next = next]
        \/ req'[r] = [req[r] EXCEPT !.pc = "link"]
        \/ req'[r] = [req[r] EXCEPT !.pc = "over"]
        \/ req'[r] = [req[r] EXCEPT !.pc = "data", !.page = page]
    BY <1>4, AnswerIs
  <2>. HIDE DEF next, page
  <2>. QED BY <1>1, <2>1 DEF WalkRecords
<1>. QED BY <1>2, <1>3, <1>4

LEMMA StepFits ==
    ASSUME RequestsInv, PaginatorInv, TypeInv, NEW r \in Requests, Step(r)
    PROVE  Fits(req'[r])
<1>0. DOMAIN req = Requests /\ Fits(req[r]) /\ "kind" \in DOMAIN req[r]
  BY KindsDiffer DEF RequestsInv, TypeInv
<1>1. CASE PageData(r) \/ Paginate(r) \/ Answer(r)
  <2>1. req'[r].kind = "walk"
    BY <1>1, WalkStays
  <2>. QED BY <2>1 DEF Fits
<1>2. CASE End(r)
  BY <1>0, <1>2, OverFits DEF End
<1>3. CASE RowsCount(r) \/ RowNumber(r) \/ RowSiblings(r)
  <2>1. End(r) \/ req'[r].kind = "siblings"
    BY <1>3, SiblingsStay
  <2>. QED BY <1>2, <2>1 DEF Fits
<1>4. CASE Update(r) \/ Destroy(r) \/ Place(r) \/ ReorderFails(r) \/ ResetCommit(r)
  BY <1>2, <1>4 DEF Update, Destroy, Place, ReorderFails, ResetCommit
<1>5. CASE ReadSegment(r)
  <2>1. req[r].kind = "reorder" /\ req[r].pc \in {"from", "to"}
    BY <1>5 DEF ReadSegment
  <2>2. req[r].a \in Reorders /\ req[r].from \in Int /\ req[r].to \in Int
    BY <1>0, <2>1 DEF Fits
  <2>3. ASSUME NEW v \in Int, req'[r] = [req[r] EXCEPT !.from = v, !.pc = "to"] PROVE Fits(req'[r])
    BY <1>0, <2>1, <2>2, <2>3 DEF Fits
  <2>4. ASSUME NEW v \in Int, req'[r] = [req[r] EXCEPT !.to = v, !.pc = "shift"] PROVE Fits(req'[r])
    BY <1>0, <2>1, <2>2, <2>4 DEF Fits
  <2>5. \A i \in Present : rows[i] # Null => rows[i] \in Int
    BY DEF Present, TypeInv, Cell
  <2>6. req[r].a.from \in Int /\ req[r].a.to \in Int
    BY <2>2, ModelAssumption
  <2>7. CASE req[r].pc = "from"
    <3>1. \/ End(r)
          \/ \E v \in Int : req' = [req EXCEPT ![r] = [req[r] EXCEPT !.from = v, !.pc = "to"]]
      BY <1>5, <2>5, <2>6, <2>7 DEF ReadSegment
    <3>. QED BY <1>0, <1>2, <2>3, <3>1
  <2>8. CASE req[r].pc # "from"
    <3>1. \/ End(r)
          \/ \E v \in Int : req' = [req EXCEPT ![r] = [req[r] EXCEPT !.to = v, !.pc = "shift"]]
      BY <1>5, <2>5, <2>6, <2>8 DEF ReadSegment
    <3>. QED BY <1>0, <1>2, <2>4, <3>1
  <2>. QED BY <2>7, <2>8
<1>6. CASE Shift(r)
  <2>1. req'[r] = [req[r] EXCEPT !.pc = "place"] /\ req[r].kind = "reorder" /\ req[r].pc = "shift"
    BY <1>0, <1>6 DEF Shift, Goto, At
  <2>. QED BY <1>0, <2>1 DEF Fits
<1>. QED BY <1>1, <1>3, <1>4, <1>5, <1>6, BulkStays DEF Step, Paginate

\* Only a reorder between its two statements has written anything.
LEMMA WrittenSteps ==
    ASSUME RequestsInv, TypeInv, NEW r \in Requests, Steady(r), Start(r) \/ Step(r)
    PROVE  /\ \A s \in Requests : Written(s)'
           /\ \A s, t \in Requests : s # t => DOMAIN writes'[s] \cap DOMAIN writes'[t] = {}
<1>0. DOMAIN req = Requests /\ DOMAIN writes = Requests /\ \A s \in Requests : Written(s)
  BY DEF RequestsInv, TypeInv
<1>1. ASSUME NEW s \in Requests, s # r PROVE Written(s)' /\ writes'[s] = writes[s]
  <2>1. writes'[s] = writes[s] /\ req'[s].kind = req[s].kind /\ req'[s].pc = req[s].pc
    BY <1>1, StaysThere DEF Steady
  <2>. QED BY <1>0, <2>1 DEF Written, At
<1>2. ASSUME writes'[r] = <<>> PROVE Written(r)'
  BY <1>2 DEF Written
<1>3. ASSUME UNCHANGED writes, ~At(r, "reorder", "place") PROVE writes'[r] = <<>>
  BY <1>0, <1>3 DEF Written
<1>4. CASE Start(r)
  <2>1. UNCHANGED writes
    BY <1>4 DEF Start, StartWalk, StartSiblings, StartWrite, StartBulk, StartReorder, StartReset
  <2>2. req[r].pc = "idle"
    BY <1>4 DEF Start, StartWalk, StartSiblings, StartWrite, StartBulk, StartReorder, StartReset, Begin
  <2>3. writes'[r] = <<>>
    BY <1>3, <2>1, <2>2 DEF At
  <2>. QED BY <1>1, <1>2, <2>3 DEF TypeInv
<1>5. CASE Shift(r)
  <2>. DEFINE new == [i \in Segment(r) |-> rows[i] + (IF req[r].a.forward THEN -1 ELSE 1)]
  <2>1. writes'[r] = new /\ Unlocked(r, Segment(r))
    BY <1>0, <1>5 DEF Shift
  <2>2. \A i \in Segment(r) : i \in Ids /\ rows[i] \in Int
    BY DEF Segment, Present, TypeInv, Cell
  <2>3. At(r, "reorder", "place")'
    <3>1. req'[r] = [req[r] EXCEPT !.pc = "place"] /\ req[r].kind = "reorder" /\ "kind" \in DOMAIN req[r]
          /\ "pc" \in DOMAIN req[r]
      <4>1. Goto(r, "place") /\ At(r, "reorder", "shift")
        BY <1>5 DEF Shift
      <4>2. "pc" \in DOMAIN req[r]
        BY <4>1 DEF At, TypeInv, Fits
      <4>. QED BY <1>0, <4>1, <4>2, KindsDiffer DEF Goto, At, RequestsInv
    <3>. QED BY <3>1 DEF At
  <2>4. Written(r)'
    BY <2>1, <2>2, <2>3 DEF Written
  <2>5. \A s \in Requests : s # r => DOMAIN writes'[s] \cap DOMAIN writes'[r] = {}
    BY <1>1, <2>1 DEF Unlocked
  <2>. QED BY <1>1, <2>4, <2>5 DEF TypeInv
<1>6. CASE Place(r) \/ ReorderFails(r)
  <2>1. writes'[r] = <<>>
    BY <1>0, <1>6 DEF Place, ReorderFails
  <2>. QED BY <1>1, <1>2, <2>1 DEF TypeInv
<1>7. CASE Step(r) /\ ~Shift(r) /\ ~Place(r) /\ ~ReorderFails(r)
  <2>1. UNCHANGED writes /\ ~At(r, "reorder", "place")
    BY <1>7 DEF Step, PageData, PageCount, PageNumber, PageSize, Answer, RowsCount, RowNumber, RowSiblings, Update,
       Destroy, CreateInvalid, CreateSql, CreateMongo, ReadSegment, ResetCommit, At
  <2>2. writes'[r] = <<>>
    BY <1>3, <2>1
  <2>. QED BY <1>1, <1>2, <2>1, <2>2 DEF TypeInv
<1>. QED BY <1>4, <1>5, <1>6, <1>7

LEMMA TypeInvInit == Init => TypeInv
<1>. SUFFICES ASSUME Init PROVE TypeInv
  OBVIOUS
<1>1. rows \in [Ids -> Cell]
  BY ModelAssumption DEF Init, Cell
<1>2. \A r \in Requests : writes[r] = <<>> /\ req[r] = Idle
  BY DEF Init
<1>3. \A r \in Requests : Written(r) /\ Fits(req[r])
  BY <1>2 DEF Written, Fits, Idle
<1>4. tidy \in {Unknown} \cup (Nat \X Nat)
  BY DEF Init, NoGap
<1>. QED BY <1>1, <1>2, <1>3, <1>4 DEF Init, TypeInv

LEMMA TidyTyped ==
    ASSUME RequestsInv, TypeInv, NEW r \in Requests, Start(r) \/ Step(r)
    PROVE  tidy' \in {Unknown} \cup (Nat \X Nat)
<1>1. tidy \in {Unknown} \cup (Nat \X Nat) /\ NoGap \in Nat \X Nat
  BY DEF TypeInv, NoGap
<1>2. CASE Place(r)
  <2>1. req[r].from \in Int /\ req[r].to \in Int
    BY <1>2 DEF Place, At, TypeInv, Fits
  <2>2. AfterMove(r) \in {Unknown} \cup (Nat \X Nat)
    <3>1. WellFormed(r) => req[r].from \in Nat /\ req[r].to \in Nat
      BY <2>1 DEF WellFormed
    <3>. QED BY <1>1, <3>1 DEF AfterMove
  <2>. QED BY <1>2, <2>2 DEF Place
<1>3. CASE ResetCommit(r)
  <2>1. tidy' \in {NoGap, tidy, Unknown}
    BY <1>3 DEF ResetCommit
  <2>. QED BY <1>1, <2>1
<1>4. CASE CreateMongo(r)
  <2>1. tidy' \in {tidy, Unknown}
    BY <1>4 DEF CreateMongo
  <2>. QED BY <1>1, <2>1
<1>5. CASE ~Place(r) /\ ~ResetCommit(r) /\ ~CreateMongo(r)
  <2>1. tidy' \in {tidy, Unknown}
    BY <1>5, PaginateIs DEF Start, StartWalk, StartSiblings, StartWrite, StartBulk, StartReorder, StartReset,
       Step, Paginate, PageData, Answer, RowsCount, RowNumber, RowSiblings, Update, Destroy, CreateInvalid,
       CreateSql, ReadSegment, Shift, ReorderFails
  <2>. QED BY <1>1, <2>1
<1>. QED BY <1>2, <1>3, <1>4, <1>5

LEMMA TypeInvNext == ASSUME RequestsInv, PaginatorInv, TypeInv, [Next]_vars PROVE TypeInv'
<1>1. CASE UNCHANGED vars
  BY <1>1 DEF vars, TypeInv, Written, At
<1>2. ASSUME NEW r \in Requests, Start(r) \/ Step(r) PROVE TypeInv'
  <2>1. Steady(r)
    BY <1>2, StartIsSteady, StepIsSteady
  <2>2. rows' \in [Ids -> Cell]
    BY <1>2, RowsTyped
  <2>3. \A s \in Requests : Fits(req'[s])
    BY <1>2, <2>1, StartFits, StepFits, OthersFit
  <2>4. tidy' \in {Unknown} \cup (Nat \X Nat)
    BY <1>2, TidyTyped
  <2>5. /\ \A s \in Requests : Written(s)'
        /\ \A s, t \in Requests : s # t => DOMAIN writes'[s] \cap DOMAIN writes'[t] = {}
    BY <1>2, <2>1, WrittenSteps
  <2>6. Unknown' = Unknown
    BY DEF Unknown
  <2>. QED BY <2>1, <2>2, <2>3, <2>4, <2>5, <2>6 DEF TypeInv, Steady
<1>. QED BY <1>1, <1>2 DEF Next

LEMMA TypeInvAlways == Spec => []TypeInv
BY TypeInvInit, TypeInvNext, RequestsInvAlways, PTL DEF Spec

\* Rows hold cells, only a reorder between its two statements has written rows that are
\* not committed, no two of them the same row, and the paginator has numbers: see TypeOK.
THEOREM TypeCorrect == Spec => []TypeOK
<1>1. RequestsInv /\ PaginatorInv /\ TypeInv => TypeOK
  BY DEF RequestsInv, PaginatorInv, TypeInv, TypeOK, Written, Cell
<1>. QED BY <1>1, RequestsInvAlways, TypeInvAlways, PTL

-----------------------------------------------------------------------------
(* What becomes of the order                                               *)

Move(r) == IF req[r].a.forward THEN -1 ELSE 1

\* What a request that nobody has disturbed has written, or has loaded, is true of the rows.
UpToDate(r) ==
    calm[r] =>
        /\ At(r, "reorder", "place") => writes[r] = [i \in Segment(r) |-> rows[i] + Move(r)]
        /\ At(r, "reset", "commit") => req[r].loaded = rows /\ req[r].list \in SetToSeqs(Present)

\* The first part of OrderIsKnown.
AsTidied ==
    tidy # Unknown =>
        /\ {rows[i] : i \in Present} = (1..Cardinality(Present)) \ {tidy[1]}
        /\ tidy # NoGap => \E i, j \in Present : i # j /\ rows[i] = tidy[2] /\ rows[j] = tidy[2]

\* The second part: what is not committed is one off what is.
OneOff(r) == \A i \in DOMAIN writes[r] : rows[i] \in Int /\ writes[r][i] = rows[i] + Move(r)

OrderInv == AsTidied /\ \A r \in Requests : UpToDate(r) /\ OneOff(r)

LEMMA NoGapIsDense == tidy = NoGap => (AsTidied <=> Dense)
<1>1. ASSUME tidy = NoGap PROVE tidy # Unknown /\ tidy[1] = 0
  BY <1>1 DEF NoGap, Unknown
<1>2. \A N \in Nat : (1..N) \ {0} = 1..N
  OBVIOUS
<1>3. Cardinality(Present) \in Nat
  BY ModelAssumption, FS_Subset, FS_CardinalityType DEF Present
<1>. QED BY <1>1, <1>2, <1>3 DEF AsTidied, Dense

LEMMA PresentIsFinite ==
    Present \subseteq Ids /\ IsFiniteSet(Present) /\ Cardinality(Present) \in Nat
BY ModelAssumption, FS_Subset, FS_CardinalityType DEF Present

\* In an order without gaps no two rows share a place.
LEMMA DenseIsInjective ==
    ASSUME Dense
    PROVE  \A i, j \in Present : rows[i] = rows[j] => i = j
<1>. DEFINE N == Cardinality(Present)
            f == [i \in Present |-> rows[i]]
<1>1. f \in Surjection(Present, 1..N)
  <2>1. {rows[i] : i \in Present} = 1..N
    BY DEF Dense
  <2>. HIDE DEF N
  <2>2. f \in [Present -> 1..N] /\ \A n \in 1..N : \E i \in Present : f[i] = n
    BY <2>1
  <2>. QED BY <2>2 DEF Surjection
<1>2. N \in Nat /\ Cardinality(1..N) = N
  BY PresentIsFinite, FS_Interval
<1>. HIDE DEF f
<1>3. f \in Injection(Present, 1..N)
  BY <1>1, <1>2, PresentIsFinite, FS_Surjection
<1>4. \A i, j \in Present : f[i] = f[j] => i = j
  BY <1>3 DEF Injection, IsInjective
<1>. QED BY <1>4 DEF f

LEMMA DenseAgain ==
    ASSUME Present' = Present, NEW N, N = Cardinality(Present),
           \A i \in Present : rows'[i] \in 1..N,
           \A n \in 1..N : \E i \in Present : rows'[i] = n
    PROVE  Dense'
<1>1. {rows'[i] : i \in Present} = 1..N
  OBVIOUS
<1>. QED BY <1>1 DEF Dense

\* The rows after a move in an order without gaps.
LEMMA PlaceMoves ==
    ASSUME TypeInv, NEW r \in Requests, Place(r), Dense, calm[r], UpToDate(r), WellFormed(r)
    PROVE  LET item == req[r].a.item
               from == req[r].from
               to == req[r].to
               N == Cardinality(Present)
               forward == req[r].a.forward
           IN /\ from \in Int /\ to \in Int /\ N \in Nat /\ Present \subseteq Ids
              /\ item \in Present /\ from <= to /\ from \in 1..N /\ to \in 1..N
              /\ rows[item] \in (IF forward THEN {from - 1, from} ELSE {to, to + 1})
              /\ \A i \in Present : rows[i] \in 1..N
              /\ \A n \in 1..N : \E i \in Present : rows[i] = n
              /\ \A i, j \in Present : rows[i] = rows[j] => i = j
              /\ \A j \in Present : rows'[j] = IF j = item THEN to
                                               ELSE IF from <= rows[j] /\ rows[j] <= to
                                                    THEN rows[j] + (IF forward THEN -1 ELSE 1) ELSE rows[j]
              /\ Present' = Present
<1>. DEFINE item == req[r].a.item
            from == req[r].from
            to == req[r].to
            N == Cardinality(Present)
            forward == req[r].a.forward
<1>1. /\ At(r, "reorder", "place")
      /\ rows' = [j \in Ids |-> IF j = item /\ item \in Present THEN to
                                ELSE IF j \in DOMAIN writes[r] THEN writes[r][j] ELSE rows[j]]
  BY DEF Place
<1>2. writes[r] = [i \in Segment(r) |-> rows[i] + Move(r)]
  BY <1>1 DEF UpToDate
<1>3. from \in Int /\ to \in Int /\ N \in Nat /\ Present \subseteq Ids
  BY <1>1, PresentIsFinite DEF TypeInv, Fits, At
<1>4. /\ item \in Present /\ from <= to /\ from \in 1..N /\ to \in 1..N
      /\ rows[item] \in (IF forward THEN {from - 1, from} ELSE {to, to + 1})
  <2>1. /\ item \in Present /\ 1 <= from /\ from <= to /\ to <= N
        /\ rows[item] \in {IF forward THEN from - 1 ELSE to, (IF forward THEN from - 1 ELSE to) + 1}
    BY DEF WellFormed
  <2>. HIDE DEF item, from, to, N, forward
  <2>2. from \in 1..N /\ to \in 1..N /\ (from - 1) + 1 = from
    BY <1>3, <2>1
  <2>. QED BY <2>1, <2>2
<1>5. /\ \A i \in Present : rows[i] \in 1..N
      /\ \A n \in 1..N : \E i \in Present : rows[i] = n
      /\ \A i, j \in Present : rows[i] = rows[j] => i = j
  BY DenseIsInjective DEF Dense
<1>6. \A i \in Present : rows[i] \in Int /\ rows[i] # Null /\ rows[i] # Absent
  BY <1>5, ModelAssumption
<1>7. \A i \in Present : i \in Segment(r) <=> from <= rows[i] /\ rows[i] <= to
  BY <1>6, <1>3 DEF Segment
<1>8. \A j \in Ids : rows'[j] = IF j = item THEN to ELSE IF j \in Segment(r) THEN rows[j] + Move(r) ELSE rows[j]
  BY <1>1, <1>2, <1>4
<1>9. Move(r) = IF forward THEN -1 ELSE 1
  BY DEF Move
<1>10. \A j \in Present : rows'[j] = IF j = item THEN to
                                     ELSE IF from <= rows[j] /\ rows[j] <= to
                                          THEN rows[j] + (IF forward THEN -1 ELSE 1) ELSE rows[j]
  BY <1>3, <1>7, <1>8, <1>9
<1>11. Present' = Present
  <2>1. \A j \in Present : rows'[j] # Absent
    BY <1>3, <1>6, <1>10, ModelAssumption
  <2>2. \A j \in Ids : j \notin Present => rows'[j] = Absent
    BY <1>4, <1>8 DEF Segment, Present
  <2>. QED BY <1>3, <2>1, <2>2 DEF Present
<1>. HIDE DEF item, from, to, N, forward
<1>12. /\ from \in Int /\ to \in Int /\ N \in Nat /\ Present \subseteq Ids
       /\ item \in Present /\ from <= to /\ from \in 1..N /\ to \in 1..N
       /\ rows[item] \in (IF forward THEN {from - 1, from} ELSE {to, to + 1})
       /\ \A i \in Present : rows[i] \in 1..N
       /\ \A n \in 1..N : \E i \in Present : rows[i] = n
       /\ \A i, j \in Present : rows[i] = rows[j] => i = j
       /\ \A j \in Present : rows'[j] = IF j = item THEN to
                                        ELSE IF from <= rows[j] /\ rows[j] <= to
                                             THEN rows[j] + (IF forward THEN -1 ELSE 1) ELSE rows[j]
       /\ Present' = Present
  BY <1>3, <1>4, <1>5, <1>10, <1>11
<1>. QED BY <1>12 DEF item, from, to, N, forward

LEMMA PlaceKeepsDense ==
    ASSUME TypeInv, NEW r \in Requests, Place(r), Dense, calm[r], UpToDate(r), WellFormed(r),
           req[r].a.forward \/ req[r].from = req[r].to
    PROVE  Dense'
<1>. DEFINE item == req[r].a.item
            from == req[r].from
            to == req[r].to
            N == Cardinality(Present)
            forward == req[r].a.forward
<1>0. /\ from \in Int /\ to \in Int /\ N \in Nat /\ Present \subseteq Ids
      /\ item \in Present /\ from <= to /\ from \in 1..N /\ to \in 1..N
      /\ rows[item] \in (IF forward THEN {from - 1, from} ELSE {to, to + 1})
      /\ \A i \in Present : rows[i] \in 1..N
      /\ \A n \in 1..N : \E i \in Present : rows[i] = n
      /\ \A i, j \in Present : rows[i] = rows[j] => i = j
      /\ \A j \in Present : rows'[j] = IF j = item THEN to
                                       ELSE IF from <= rows[j] /\ rows[j] <= to
                                            THEN rows[j] + (IF forward THEN -1 ELSE 1) ELSE rows[j]
      /\ Present' = Present
  BY PlaceMoves
<1>1. forward \/ from = to
  OBVIOUS
<1>. HIDE DEF item, from, to, N, forward
<1>4. /\ item \in Present /\ from <= to /\ from \in 1..N /\ to \in 1..N
      /\ \/ forward /\ rows[item] \in {from - 1, from}
         \/ ~forward /\ from = to /\ rows[item] \in {to, to + 1}
  BY <1>0, <1>1
<1>3. from \in Int /\ to \in Int /\ N \in Nat
  BY <1>0
<1>5. /\ \A i \in Present : rows[i] \in 1..N
      /\ \A n \in 1..N : \E i \in Present : rows[i] = n
      /\ \A i, j \in Present : rows[i] = rows[j] => i = j
  BY <1>0
<1>10. \A j \in Present : rows'[j] = IF j = item THEN to
                                     ELSE IF from <= rows[j] /\ rows[j] <= to
                                          THEN rows[j] + (IF forward THEN -1 ELSE 1) ELSE rows[j]
  BY <1>0
<1>11. Present' = Present
  BY <1>0
<1>12. ASSUME NEW i \in Present PROVE rows'[i] \in 1..N
  <2>1. CASE i = item
    BY <2>1, <1>4, <1>10
  <2>2. CASE i # item /\ ~(from <= rows[i] /\ rows[i] <= to)
    BY <2>2, <1>5, <1>10
  <2>3. CASE i # item /\ from <= rows[i] /\ rows[i] <= to
    <3>1. rows'[i] = rows[i] + (IF forward THEN -1 ELSE 1) /\ rows[i] # rows[item] /\ rows[i] \in 1..N
          /\ rows[item] \in 1..N
      BY <2>3, <1>4, <1>5, <1>10
    <3>. QED BY <2>3, <3>1, <1>3, <1>4
  <2>. QED BY <2>1, <2>2, <2>3
<1>13. ASSUME NEW n \in 1..N PROVE \E i \in Present : rows'[i] = n
  <2>1. CASE n = to
    BY <2>1, <1>4, <1>10
  <2>2. ASSUME NEW m \in 1..N, m # rows[item],
               n = IF from <= m /\ m <= to THEN m + (IF forward THEN -1 ELSE 1) ELSE m
        PROVE  \E i \in Present : rows'[i] = n
    <3>1. PICK i \in Present : rows[i] = m
      BY <1>5
    <3>. QED BY <2>2, <3>1, <1>10
  <2>3. CASE n # to /\ forward
    <3>1. CASE rows[item] = from - 1 /\ from - 1 <= n /\ n < to
      <4>1. n + 1 \in 1..N /\ n + 1 # rows[item] /\ from <= n + 1 /\ n + 1 <= to /\ (n + 1) + (-1) = n
        BY <3>1, <1>3, <1>4
      <4>. QED BY <2>2, <2>3, <4>1
    <3>2. CASE rows[item] = from - 1 /\ ~(from - 1 <= n /\ n < to)
      BY <2>2, <2>3, <3>2, <1>3, <1>4
    <3>3. CASE rows[item] = from /\ from <= n /\ n < to
      BY <2>2, <2>3, <3>3, <1>3, <1>4
    <3>4. CASE rows[item] = from /\ ~(from <= n /\ n < to)
      BY <2>2, <2>3, <3>4, <1>3, <1>4
    <3>. QED BY <2>3, <3>1, <3>2, <3>3, <3>4, <1>4
  <2>4. CASE n # to /\ ~forward
    <3>1. CASE rows[item] = to + 1 /\ n = to + 1
      BY <2>2, <2>4, <3>1, <1>3, <1>4
    <3>2. CASE rows[item] = to \/ n # to + 1
      BY <2>2, <2>4, <3>2, <1>3, <1>4
    <3>. QED BY <2>4, <3>1, <3>2, <1>4
  <2>. QED BY <2>1, <2>3, <2>4
<1>. QED BY <1>11, <1>12, <1>13, DenseAgain DEF N

\* A backward move past several rows: nobody is at the first place of the segment, and
\* two rows are at the last one.
LEMMA PlaceLeavesGap ==
    ASSUME TypeInv, NEW r \in Requests, Place(r), Dense, calm[r], UpToDate(r), WellFormed(r),
           ~req[r].a.forward, req[r].from # req[r].to
    PROVE  /\ {rows'[i] : i \in Present'} = (1..Cardinality(Present')) \ {req[r].from}
           /\ \E i, j \in Present' : i # j /\ rows'[i] = req[r].to /\ rows'[j] = req[r].to
<1>. DEFINE item == req[r].a.item
            from == req[r].from
            to == req[r].to
            N == Cardinality(Present)
<1>. DEFINE forward == req[r].a.forward
<1>00. /\ from \in Int /\ to \in Int /\ N \in Nat /\ Present \subseteq Ids
       /\ item \in Present /\ from <= to /\ from \in 1..N /\ to \in 1..N
       /\ rows[item] \in (IF forward THEN {from - 1, from} ELSE {to, to + 1})
       /\ \A i \in Present : rows[i] \in 1..N
       /\ \A n \in 1..N : \E i \in Present : rows[i] = n
       /\ \A i, j \in Present : rows[i] = rows[j] => i = j
       /\ \A j \in Present : rows'[j] = IF j = item THEN to
                                        ELSE IF from <= rows[j] /\ rows[j] <= to
                                             THEN rows[j] + (IF forward THEN -1 ELSE 1) ELSE rows[j]
       /\ Present' = Present
  BY PlaceMoves
<1>01. ~forward /\ from # to
  OBVIOUS
<1>. HIDE DEF item, from, to, N, forward
<1>0. /\ from \in Int /\ to \in Int /\ N \in Nat
      /\ item \in Present /\ from < to /\ from \in 1..N /\ to \in 1..N
      /\ rows[item] \in {to, to + 1}
      /\ \A i \in Present : rows[i] \in 1..N
      /\ \A n \in 1..N : \E i \in Present : rows[i] = n
      /\ \A i, j \in Present : rows[i] = rows[j] => i = j
      /\ \A j \in Present : rows'[j] = IF j = item THEN to
                                       ELSE IF from <= rows[j] /\ rows[j] <= to THEN rows[j] + 1 ELSE rows[j]
      /\ Present' = Present
  BY <1>00, <1>01
<1>1. ASSUME NEW i \in Present PROVE rows'[i] \in (1..N) \ {from}
  <2>1. CASE i = item
    BY <2>1, <1>0
  <2>2. CASE i # item
    <3>1. rows[i] # rows[item] /\ rows[i] \in 1..N /\ rows[item] \in 1..N
      BY <2>2, <1>0
    <3>2. rows'[i] = IF from <= rows[i] /\ rows[i] <= to THEN rows[i] + 1 ELSE rows[i]
      BY <2>2, <1>0
    <3>. QED BY <3>1, <3>2, <1>0
  <2>. QED BY <2>1, <2>2
<1>2. ASSUME NEW m \in 1..N, m # rows[item]
      PROVE  \E i \in Present : i # item /\ rows'[i] = IF from <= m /\ m <= to THEN m + 1 ELSE m
  <2>1. PICK i \in Present : rows[i] = m
    BY <1>0
  <2>. QED BY <1>0, <1>2, <2>1
<1>3. ASSUME NEW n \in (1..N) \ {from} PROVE \E i \in Present : rows'[i] = n
  <2>1. CASE n = to
    BY <2>1, <1>0
  <2>2. CASE n < from \/ n > to + 1 \/ (n = to + 1 /\ rows[item] = to)
    <3>1. n # rows[item] /\ ~(from <= n /\ n <= to)
      BY <2>2, <1>0
    <3>. QED BY <3>1, <1>2
  <2>3. CASE (from < n /\ n < to) \/ (n = to + 1 /\ rows[item] # to)
    <3>1. n - 1 \in 1..N /\ n - 1 # rows[item] /\ from <= n - 1 /\ n - 1 <= to /\ (n - 1) + 1 = n
      BY <2>3, <1>0
    <3>. QED BY <3>1, <1>2
  <2>. QED BY <2>1, <2>2, <2>3, <1>0
<1>4. {rows'[i] : i \in Present} = (1..N) \ {from}
  BY <1>1, <1>3
<1>5. \E i \in Present : i # item /\ rows'[i] = to
  <2>1. to - 1 \in 1..N /\ to - 1 # rows[item] /\ from <= to - 1 /\ to - 1 <= to /\ (to - 1) + 1 = to
    BY <1>0
  <2>. QED BY <2>1, <1>2
<1>6. rows'[item] = to /\ item \in Present
  BY <1>0
<1>. QED BY <1>0, <1>4, <1>5, <1>6 DEF from, to, N

LEMMA ResetMakesDense ==
    ASSUME TypeInv, NEW r \in Requests, ResetCommit(r), calm[r], UpToDate(r)
    PROVE  (rows' = rows /\ tidy' = tidy) \/ (Dense' /\ tidy' = NoGap)
<1>. DEFINE s == req[r].list
            N == Cardinality(Present)
            changed == {n \in DOMAIN s : req[r].loaded[s[n]] # n}
            ids == {s[n] : n \in changed}
<1>1. req[r].loaded = rows /\ s \in SetToSeqs(Present)
  BY DEF ResetCommit, UpToDate
<1>2. N \in Nat /\ Present \subseteq Ids
  BY PresentIsFinite
<1>3. s \in [1..N -> Present] /\ \A m, n \in 1..N : m # n => s[m] # s[n]
  BY <1>1 DEF SetToSeqs
<1>4. \A i \in Present : \E n \in 1..N : s[n] = i
  <2>1. s \in Injection(1..N, Present)
    BY <1>3 DEF Injection, IsInjective
  <2>2. Cardinality(1..N) = N /\ IsFiniteSet(Present)
    BY <1>2, FS_Interval, PresentIsFinite
  <2>3. s \in Surjection(1..N, Present)
    BY <2>1, <2>2, FS_Injection
  <2>. QED BY <2>3 DEF Surjection
<1>5. ids \subseteq Present
  BY <1>3
<1>. SUFFICES ASSUME rows' # rows \/ tidy' # tidy PROVE Dense' /\ tidy' = NoGap
  OBVIOUS
<1>6. /\ rows' = [i \in Ids |-> IF i \in ids THEN CHOOSE n \in changed : s[n] = i ELSE rows[i]]
      /\ tidy' = NoGap
  BY DEF ResetCommit
<1>7. ASSUME NEW n \in 1..N PROVE rows'[s[n]] = n
  <2>1. s[n] \in Ids
    BY <1>2, <1>3
  <2>2. CASE n \in changed
    <3>1. \A m \in changed : s[m] = s[n] => m = n
      BY <1>3
    <3>. QED BY <2>1, <2>2, <3>1, <1>6
  <2>3. CASE n \notin changed
    <3>1. rows[s[n]] = n
      BY <1>1, <1>3, <2>3
    <3>2. s[n] \notin ids
      BY <1>3, <2>3
    <3>. QED BY <2>1, <3>1, <3>2, <1>6
  <2>. QED BY <2>2, <2>3
<1>8. Present' = Present
  <2>1. \A i \in Present : rows'[i] # Absent
    BY <1>2, <1>4, <1>7, ModelAssumption
  <2>2. \A i \in Ids : i \notin Present => rows'[i] = Absent
    BY <1>5, <1>6 DEF Present
  <2>. QED BY <1>2, <2>1, <2>2 DEF Present
<1>. HIDE DEF s, N
<1>9. /\ \A i \in Present : rows'[i] \in 1..N
      /\ \A n \in 1..N : \E i \in Present : rows'[i] = n
  BY <1>3, <1>4, <1>7
<1>. QED BY <1>6, <1>8, <1>9, DenseAgain DEF N

\* Only a move and reset_order keep the order when they change rows.
LEMMA TidySteps ==
    ASSUME RequestsInv, TypeInv, NEW r \in Requests, Start(r) \/ Step(r), tidy' # Unknown
    PROVE  \/ tidy' = tidy /\ rows' = rows
           \/ Place(r) /\ tidy = NoGap /\ calm[r] /\ tidy' = AfterMove(r)
           \/ ResetCommit(r) /\ calm[r]
<1>0. Unknown' = Unknown
  BY DEF Unknown
<1>1. CASE Start(r)
  BY <1>1 DEF Start, StartWalk, StartSiblings, StartWrite, StartBulk, StartReorder, StartReset
<1>2. CASE CreateMongo(r)
  <2>1. tidy' = tidy
    BY <1>2 DEF CreateMongo
  <2>. QED BY <1>2, <2>1, MongoRows
<1>3. CASE ResetCommit(r)
  <2>1. CASE ~calm[r]
    <3>. DEFINE s == req[r].list
                changed == {n \in DOMAIN s : req[r].loaded[s[n]] # n}
                ids == {s[n] : n \in changed}
    <3>1. \/ UNCHANGED <<rows, tidy>>
          \/ /\ rows' = [i \in Ids |-> IF i \in ids THEN CHOOSE n \in changed : s[n] = i ELSE rows[i]]
             /\ tidy' = IF ids = {} THEN tidy ELSE Unknown
      BY <1>3, <2>1 DEF ResetCommit
    <3>. HIDE DEF ids
    <3>2. CASE ids = {} /\ rows' = [i \in Ids |-> IF i \in ids THEN CHOOSE n \in changed : s[n] = i ELSE rows[i]]
      <4>1. rows' = [i \in Ids |-> rows[i]]
        BY <3>2
      <4>2. rows = [i \in Ids |-> rows[i]]
        BY DEF TypeInv
      <4>3. rows' = rows
        BY <4>1, <4>2
      <4>. QED BY <3>1, <3>2, <4>3
    <3>. QED BY <3>1, <3>2
  <2>. QED BY <1>3, <2>1 DEF TypeInv
<1>4. CASE Place(r)
  BY <1>4 DEF Place
<1>5. CASE Step(r) /\ ~CreateMongo(r) /\ ~ResetCommit(r) /\ ~Place(r)
  BY <1>5, PaginateIs DEF Step, Paginate, PageData, Answer, RowsCount, RowNumber, RowSiblings, Update, Destroy,
     CreateInvalid, CreateSql, ReadSegment, Shift, ReorderFails
<1>. QED BY <1>1, <1>2, <1>3, <1>4, <1>5

\* A row that an open reorder has written is not touched by another request.
LEMMA WrittenRowsStay ==
    ASSUME RequestsInv, TypeInv, NEW r \in Requests, Start(r) \/ Step(r),
           NEW s \in Requests, s # r, NEW i \in DOMAIN writes[s], rows[i] \in Int
    PROVE  rows'[i] = rows[i]
<1>0. i \in Ids /\ i \in Present /\ rows \in [Ids -> Cell]
  BY ModelAssumption DEF TypeInv, Written, Present
<1>1. \A ids : Unlocked(r, ids) => i \notin ids
  BY DEF Unlocked
<1>2. CASE Update(r) \/ Destroy(r)
  BY <1>0, <1>1, <1>2 DEF Update, Destroy
<1>3. CASE CreateSql(r)
  <2>1. rows' = rows \/ \E k, v : rows[k] = Absent /\ rows' = [rows EXCEPT ![k] = v]
    BY <1>3 DEF CreateSql
  <2>. QED BY <1>0, <2>1, ModelAssumption
<1>4. CASE CreateMongo(r)
  <2>. DEFINE queue == Append(req[r].queue, req[r].next)
              nth(k) == Cardinality({j \in Ids \ Present : j <= k})
  <2>1. PICK n \in 0..Min({Len(queue), Cardinality(Ids \ Present)}) :
          rows' = [k \in Ids |-> IF k \notin Present /\ nth(k) <= n
                                 THEN req[r].body[SubSeq(queue, 1, n)[nth(k)]].v ELSE rows[k]]
    BY <1>4 DEF CreateMongo
  <2>. QED BY <1>0, <2>1
<1>5. CASE Place(r)
  <2>1. i # req[r].a.item /\ i \notin DOMAIN writes[r]
    BY <1>1, <1>5 DEF Place, TypeInv
  <2>. QED BY <1>0, <1>5, <2>1 DEF Place
<1>6. CASE ResetCommit(r)
  <2>. DEFINE t == req[r].list
              changed == {n \in DOMAIN t : req[r].loaded[t[n]] # n}
              ids == {t[n] : n \in changed}
  <2>1. /\ Unlocked(r, ids)
        /\ \/ rows' = rows
           \/ rows' = [k \in Ids |-> IF k \in ids THEN CHOOSE n \in changed : t[n] = k ELSE rows[k]]
    BY <1>6 DEF ResetCommit
  <2>. HIDE DEF ids, changed
  <2>. QED BY <1>0, <1>1, <2>1
<1>7. CASE Start(r)
  BY <1>7 DEF Start, StartWalk, StartSiblings, StartWrite, StartBulk, StartReorder, StartReset
<1>8. CASE \/ PageData(r) \/ Paginate(r) \/ Answer(r) \/ RowsCount(r) \/ RowNumber(r) \/ RowSiblings(r)
           \/ CreateInvalid(r) \/ ReadSegment(r) \/ Shift(r) \/ ReorderFails(r)
  BY <1>8, PaginateIs DEF PageData, Answer, RowsCount, RowNumber, RowSiblings, CreateInvalid, ReadSegment,
     Shift, ReorderFails
<1>. QED BY <1>2, <1>3, <1>4, <1>5, <1>6, <1>7, <1>8 DEF Step, Paginate

LEMMA OneOffSteps ==
    ASSUME RequestsInv, TypeInv, OrderInv, NEW r \in Requests, Start(r) \/ Step(r), Steady(r)
    PROVE  \A s \in Requests : OneOff(s)'
<1>0. DOMAIN req = Requests /\ DOMAIN writes = Requests /\ \A s \in Requests : OneOff(s) /\ Written(s)
  BY DEF RequestsInv, TypeInv, OrderInv
<1>1. ASSUME NEW s \in Requests, s # r PROVE OneOff(s)'
  <2>1. writes'[s] = writes[s]
    BY <1>1 DEF Steady
  <2>2. CASE writes[s] = <<>>
    BY <2>1, <2>2 DEF OneOff
  <2>3. CASE writes[s] # <<>>
    <3>1. req[s].kind = "reorder"
      BY <1>0, <2>3 DEF Written, At
    <3>2. req'[s] = req[s]
      BY <1>1, <3>1, StaysThere
    <3>3. Move(s)' = Move(s)
      BY <3>2 DEF Move
    <3>4. \A i \in DOMAIN writes[s] : rows[i] \in Int /\ writes[s][i] = rows[i] + Move(s) /\ rows'[i] = rows[i]
      BY <1>0, <1>1, WrittenRowsStay DEF OneOff
    <3>. QED BY <2>1, <3>3, <3>4 DEF OneOff
  <2>. QED BY <2>2, <2>3
<1>2. OneOff(r)'
  <2>1. ASSUME writes'[r] = <<>> PROVE OneOff(r)'
    BY <2>1 DEF OneOff
  <2>2. CASE Shift(r)
    <3>1. /\ writes' = [writes EXCEPT ![r] = [i \in Segment(r) |-> rows[i] + (IF req[r].a.forward THEN -1 ELSE 1)]]
          /\ Goto(r, "place") /\ rows' = rows
      BY <2>2 DEF Shift
    <3>2. writes'[r] = [i \in Segment(r) |-> rows[i] + Move(r)]
      BY <1>0, <3>1 DEF Move
    <3>3. req'[r] = [req[r] EXCEPT !.pc = "place"]
      BY <1>0, <3>1 DEF Goto
    <3>4. Move(r)' = Move(r)
      BY <3>3 DEF Move
    <3>5. \A i \in Segment(r) : rows[i] \in Int
      BY DEF Segment, Present, TypeInv, Cell
    <3>. QED BY <3>1, <3>2, <3>4, <3>5 DEF OneOff
  <2>3. CASE Place(r) \/ ReorderFails(r)
    <3>1. writes'[r] = <<>>
      BY <1>0, <2>3 DEF Place, ReorderFails
    <3>. QED BY <2>1, <3>1
  <2>4. CASE Start(r)
    <3>1. UNCHANGED writes /\ req[r].pc = "idle"
      BY <2>4 DEF Start, StartWalk, StartSiblings, StartWrite, StartBulk, StartReorder, StartReset, Begin
    <3>2. writes'[r] = <<>>
      BY <1>0, <3>1 DEF Written, At
    <3>. QED BY <2>1, <3>2
  <2>5. CASE Step(r) /\ ~Shift(r) /\ ~Place(r) /\ ~ReorderFails(r)
    <3>1. UNCHANGED writes /\ ~At(r, "reorder", "place")
      BY <2>5, PaginateIs DEF Step, Paginate, PageData, Answer, RowsCount, RowNumber, RowSiblings, Update, Destroy,
         CreateInvalid, CreateSql, CreateMongo, ReadSegment, ResetCommit, At
    <3>2. writes'[r] = <<>>
      BY <1>0, <3>1 DEF Written
    <3>. QED BY <2>1, <3>2
  <2>. QED BY <2>2, <2>3, <2>4, <2>5
<1>. QED BY <1>1, <1>2

LEMMA UpToDateSteps ==
    ASSUME RequestsInv, PaginatorInv, TypeInv, OrderInv, NEW r \in Requests, Start(r) \/ Step(r), Steady(r)
    PROVE  \A s \in Requests : UpToDate(s)'
<1>0. DOMAIN req = Requests /\ "kind" \in DOMAIN req[r]
  BY KindsDiffer DEF RequestsInv
<1>1. ASSUME NEW s \in Requests, s # r, calm'[s]
      PROVE  UpToDate(s)'
  <2>1. calm[s] /\ rows' = rows /\ writes'[s] = writes[s]
    BY <1>1 DEF Steady
  <2>2. req'[s].kind = req[s].kind /\ req'[s].pc = req[s].pc /\ (req[s].kind # "walk" => req'[s] = req[s])
    BY <1>1, StaysThere
  <2>3. CASE req[s].kind = "walk"
    BY <2>2, <2>3 DEF UpToDate, At
  <2>4. CASE req'[s] = req[s]
    <3>1. Present' = Present
      BY <2>1 DEF Present
    <3>2. Segment(s)' = Segment(s) /\ Move(s)' = Move(s)
      BY <2>1, <2>4, <3>1 DEF Segment, Move
    <3>3. UpToDate(s)
      BY DEF OrderInv
    <3>. QED BY <2>1, <2>4, <3>1, <3>2, <3>3 DEF UpToDate, At
  <2>. QED BY <2>2, <2>3, <2>4
<1>2. UpToDate(r)'
  <2>1. CASE Shift(r)
    <3>1. req'[r] = [req[r] EXCEPT !.pc = "place"] /\ rows' = rows /\ req[r].kind = "reorder"
      BY <1>0, <2>1 DEF Shift, Goto, At
    <3>2. /\ req'[r].kind = "reorder" /\ req'[r].from = req[r].from /\ req'[r].to = req[r].to
          /\ req'[r].a = req[r].a
      BY <1>0, <3>1
    <3>3. Present' = Present
      BY <3>1 DEF Present
    <3>4. Segment(r)' = Segment(r) /\ Move(r)' = Move(r)
      BY <3>1, <3>2, <3>3 DEF Segment, Move
    <3>5. writes'[r] = [i \in Segment(r) |-> rows[i] + Move(r)]
      BY <2>1 DEF Shift, Move, TypeInv
    <3>. QED BY <3>1, <3>2, <3>4, <3>5 DEF UpToDate, At
  <2>2. ASSUME NEW w \in Walks, StartReset(r, w.order) PROVE UpToDate(r)'
    <3>1. PICK s \in Sorted(w.order, Present) :
            Begin(r, [kind |-> "reset", pc |-> "commit", list |-> s, loaded |-> rows])
      BY <2>2 DEF StartReset
    <3>2. req'[r] = [kind |-> "reset", pc |-> "commit", list |-> s, loaded |-> rows] /\ rows' = rows
      BY <1>0, <2>2, <3>1 DEF StartReset, Begin
    <3>3. s \in SetToSeqs(Present) /\ Present' = Present
      BY <3>2 DEF Sorted, Present
    <3>. QED BY <3>2, <3>3 DEF UpToDate, At
  <2>3. ASSUME ~At(r, "reorder", "place")', ~At(r, "reset", "commit")' PROVE UpToDate(r)'
    BY <2>3 DEF UpToDate
  <2>4. CASE Start(r) /\ \A w \in Walks : ~StartReset(r, w.order)
    <3>1. \A x : Begin(r, x) => req'[r] = x
      BY <1>0 DEF Begin
    <3>2. ASSUME NEW x, Begin(r, x), x.kind \notin {"reorder", "reset"} \/ x.pc = "from" PROVE UpToDate(r)'
      BY <2>3, <3>1, <3>2 DEF At
    <3>3. ASSUME NEW w, NEW i, StartWalk(r, w) \/ StartSiblings(r, w, i) PROVE UpToDate(r)'
      BY <3>2, <3>3 DEF StartWalk, StartSiblings
    <3>4. ASSUME NEW kind \in {"update", "destroy"}, NEW i, NEW v, StartWrite(r, kind, i, v) PROVE UpToDate(r)'
      BY <3>2, <3>4 DEF StartWrite
    <3>5. ASSUME NEW body, StartBulk(r, body) PROVE UpToDate(r)'
      BY <3>2, <3>5 DEF StartBulk
    <3>6. ASSUME NEW a, StartReorder(r, a) PROVE UpToDate(r)'
      BY <3>2, <3>6 DEF StartReorder
    <3>. QED BY <2>4, <3>3, <3>4, <3>5, <3>6 DEF Start
  <2>5. CASE End(r)
    <3>1. req'[r] = Over(req[r].kind)
      BY <1>0, <2>5 DEF End
    <3>. QED BY <2>3, <3>1 DEF Over, At
  <2>6. CASE ReadSegment(r)
    <3>1. \/ End(r)
          \/ \E v : req'[r] = [req[r] EXCEPT !.from = v, !.pc = "to"]
          \/ \E v : req'[r] = [req[r] EXCEPT !.to = v, !.pc = "shift"]
      BY <1>0, <2>6 DEF ReadSegment
    <3>2. "pc" \in DOMAIN req[r] /\ req[r].kind = "reorder"
      BY <2>6 DEF ReadSegment, TypeInv, Fits
    <3>. QED BY <1>0, <2>3, <2>5, <3>1, <3>2 DEF At
  <2>7. CASE PageData(r) \/ Paginate(r) \/ Answer(r)
    <3>1. req'[r].kind = "walk"
      BY <2>7, WalkStays
    <3>. QED BY <2>3, <3>1 DEF At
  <2>8. CASE CreateInvalid(r) \/ CreateSql(r) \/ CreateMongo(r)
    <3>1. req'[r].kind = "bulk"
      BY <2>8, BulkStays
    <3>. QED BY <2>3, <3>1 DEF At
  <2>9. CASE RowsCount(r) \/ RowNumber(r) \/ RowSiblings(r)
    <3>1. End(r) \/ req'[r].kind = "siblings"
      BY <2>9, SiblingsStay
    <3>. QED BY <2>3, <2>5, <3>1 DEF At
  <2>10. CASE Update(r) \/ Destroy(r) \/ Place(r) \/ ReorderFails(r) \/ ResetCommit(r)
    BY <2>5, <2>10 DEF Update, Destroy, Place, ReorderFails, ResetCommit
  <2>. QED BY <2>1, <2>2, <2>4, <2>6, <2>7, <2>8, <2>9, <2>10 DEF Step, Paginate
<1>3. ASSUME NEW s \in Requests, ~calm'[s] PROVE UpToDate(s)'
  BY <1>3 DEF UpToDate
<1>. QED BY <1>1, <1>2, <1>3

LEMMA OrderInit == Init => OrderInv
<1>. SUFFICES ASSUME Init PROVE OrderInv
  OBVIOUS
<1>1. \A r \in Requests : UpToDate(r) /\ OneOff(r)
  BY DEF Init, UpToDate, OneOff
<1>2. AsTidied
  <2>1. tidy = NoGap => Dense
    BY DEF Init, NoGap, Unknown
  <2>2. tidy = NoGap \/ tidy = Unknown
    BY DEF Init
  <2>. QED BY <2>1, <2>2, NoGapIsDense DEF AsTidied
<1>. QED BY <1>1, <1>2 DEF OrderInv

LEMMA OrderNext == ASSUME RequestsInv, PaginatorInv, TypeInv, OrderInv, [Next]_vars PROVE OrderInv'
<1>0. NoGap' = NoGap /\ Unknown' = Unknown
  BY DEF NoGap, Unknown
<1>1. CASE UNCHANGED vars
  <2>1. rows' = rows /\ req' = req /\ writes' = writes /\ calm' = calm /\ tidy' = tidy
    BY <1>1 DEF vars
  <2>2. Present' = Present
    BY <2>1 DEF Present
  <2>3. AsTidied' = AsTidied
    BY <1>0, <2>1, <2>2 DEF AsTidied
  <2>4. ASSUME NEW r \in Requests PROVE UpToDate(r)' /\ OneOff(r)'
    <3>1. Segment(r)' = Segment(r) /\ Move(r)' = Move(r)
      BY <2>1, <2>2 DEF Segment, Move
    <3>. QED BY <2>1, <2>2, <3>1 DEF OrderInv, UpToDate, OneOff, At
  <2>. QED BY <2>3, <2>4 DEF OrderInv
<1>2. ASSUME NEW r \in Requests, Start(r) \/ Step(r) PROVE OrderInv'
  <2>1. Steady(r)
    BY <1>2, StartIsSteady, StepIsSteady
  <2>2. \A s \in Requests : UpToDate(s)' /\ OneOff(s)'
    BY <1>2, <2>1, UpToDateSteps, OneOffSteps
  <2>3. ASSUME tidy' = NoGap, Dense' PROVE AsTidied'
    <3>1. tidy'[1] = 0
      BY <2>3 DEF NoGap
    <3>2. \A N \in Nat : (1..N) \ {0} = 1..N
      OBVIOUS
    <3>3. Cardinality(Present') \in Nat
      BY ModelAssumption, FS_Subset, FS_CardinalityType DEF Present
    <3>. QED BY <1>0, <2>3, <3>1, <3>2, <3>3 DEF AsTidied, Dense
  <2>4. ASSUME tidy' # Unknown PROVE AsTidied'
    <3>1. UpToDate(r) /\ AsTidied
      BY DEF OrderInv
    <3>2. CASE tidy' = tidy /\ rows' = rows
      <4>1. Present' = Present
        BY <3>2 DEF Present
      <4>. QED BY <1>0, <3>1, <3>2, <4>1 DEF AsTidied
    <3>3. CASE Place(r) /\ tidy = NoGap /\ calm[r] /\ tidy' = AfterMove(r)
      <4>1. Dense
        BY <3>1, <3>3, NoGapIsDense
      <4>2. WellFormed(r)
        BY <2>4, <3>3 DEF AfterMove
      <4>3. CASE req[r].a.forward \/ req[r].from = req[r].to
        <5>1. tidy' = NoGap /\ Dense'
          BY <3>1, <3>3, <4>1, <4>2, <4>3, PlaceKeepsDense DEF AfterMove
        <5>. QED BY <2>3, <5>1
      <4>4. CASE ~(req[r].a.forward \/ req[r].from = req[r].to)
        <5>1. tidy' = <<req[r].from, req[r].to>>
          BY <3>3, <4>2, <4>4 DEF AfterMove
        <5>2. /\ {rows'[i] : i \in Present'} = (1..Cardinality(Present')) \ {req[r].from}
              /\ \E i, j \in Present' : i # j /\ rows'[i] = req[r].to /\ rows'[j] = req[r].to
          BY <3>1, <3>3, <4>1, <4>2, <4>4, PlaceLeavesGap
        <5>3. tidy'[1] = req[r].from /\ tidy'[2] = req[r].to
          BY <5>1
        <5>. QED BY <5>2, <5>3 DEF AsTidied
      <4>. QED BY <4>3, <4>4
    <3>4. CASE ResetCommit(r) /\ calm[r]
      <4>1. CASE rows' = rows /\ tidy' = tidy
        BY <3>2, <4>1
      <4>. QED BY <2>3, <3>1, <3>2, <3>4, ResetMakesDense
    <3>. QED BY <1>2, <2>4, <1>0, <3>2, <3>3, <3>4, TidySteps
  <2>5. AsTidied'
    BY <1>0, <2>4 DEF AsTidied
  <2>. QED BY <2>2, <2>5 DEF OrderInv
<1>. QED BY <1>1, <1>2 DEF Next

\* What reorder and reset_order make of the order while nobody else writes, the empty
\* place that a backward move past several rows leaves included, and that what a reorder
\* has written is never overtaken, for tables of any size: see OrderIsKnown.
THEOREM OrderIsKnownAlways == Spec => []OrderIsKnown
<1>1. Spec => []OrderInv
  BY OrderInit, OrderNext, RequestsInvAlways, TypeInvAlways, PTL DEF Spec
<1>2. OrderInv => OrderIsKnown
  BY DEF OrderInv, AsTidied, OneOff, Move, OrderIsKnown
<1>. QED BY <1>1, <1>2, PTL

-----------------------------------------------------------------------------
(* The order of a list is one                                              *)

Terms == Seq([by : {"pk", "cell"}, desc : BOOLEAN])

Key(t, i) == (IF t.by = "pk" THEN i ELSE Rank(i)) * (IF t.desc THEN -1 ELSE 1)

LEMMA BeforeByKeys ==
    ASSUME NEW terms, NEW i, NEW j
    PROVE  Before(terms, i, j) <=>
             \E n \in 1..Len(terms) : /\ Key(terms[n], i) < Key(terms[n], j)
                                      /\ \A m \in 1..(n - 1) : Key(terms[m], i) = Key(terms[m], j)
BY DEF Before, Key

LEMMA TermOf ==
    ASSUME NEW terms \in Terms, NEW n \in 1..Len(terms)
    PROVE  terms[n].by \in {"pk", "cell"} /\ terms[n].desc \in BOOLEAN
<1>. DEFINE T == [by : {"pk", "cell"}, desc : BOOLEAN]
<1>1. terms \in Seq(T)
  BY DEF Terms
<1>. HIDE DEF T
<1>2. terms[n] \in T
  BY <1>1
<1>. QED BY <1>2 DEF T

LEMMA KeysAreNumbers ==
    ASSUME TypeInv, NEW terms \in Terms, NEW n \in 1..Len(terms), NEW i \in Present
    PROVE  Key(terms[n], i) \in Int
<1>1. i \in Int
  BY PresentIsFinite, ModelAssumption
<1>2. Rank(i) \in Int
  BY DEF Rank, TypeInv, Cell, Present
<1>3. \A a \in Int : a * 1 \in Int /\ a * (-1) \in Int
  OBVIOUS
<1>. QED BY <1>1, <1>2, <1>3 DEF Key

LEMMA BeforeIsTotal ==
    ASSUME TypeInv, NEW terms \in Terms, NEW p \in 1..Len(terms), terms[p].by = "pk",
           NEW i \in Present, NEW j \in Present, i # j
    PROVE  Before(terms, i, j) \/ Before(terms, j, i)
<1>. DEFINE D == {n \in 1..Len(terms) : Key(terms[n], i) # Key(terms[n], j)}
<1>1. p \in D
  <2>1. i \in Int /\ j \in Int /\ terms[p].desc \in BOOLEAN
    BY PresentIsFinite, ModelAssumption, TermOf
  <2>2. i * (-1) # j * (-1) /\ i * 1 # j * 1
    BY <2>1
  <2>. QED BY <2>1, <2>2 DEF Key
<1>2. PICK n \in D : \A m \in D : n <= m
  <2>1. D \subseteq Nat /\ D # {}
    BY <1>1
  <2>. HIDE DEF D
  <2>. QED BY <2>1, LeastNatural
<1>3. Len(terms) \in Nat
  BY DEF Terms
<1>4. \A m \in 1..(n - 1) : Key(terms[m], i) = Key(terms[m], j)
  BY <1>2, <1>3
<1>5. Key(terms[n], i) \in Int /\ Key(terms[n], j) \in Int
  BY KeysAreNumbers
<1>6. Key(terms[n], i) < Key(terms[n], j) \/ Key(terms[n], j) < Key(terms[n], i)
  BY <1>2, <1>5
<1>. QED BY <1>4, <1>6, BeforeByKeys

\* A sequence of a set's elements, each once, that is as long as the set has all of them.
LEMMA AllOf ==
    ASSUME NEW T, T \subseteq Ids, NEW s \in SetToSeqs(T)
    PROVE  /\ Cardinality(T) \in Nat /\ s \in [1..Cardinality(T) -> T]
           /\ s \in Seq(Ids) /\ Len(s) = Cardinality(T) /\ DOMAIN s = 1..Cardinality(T)
           /\ \A m, n \in 1..Cardinality(T) : s[m] = s[n] => m = n
           /\ \A i \in T : \E n \in 1..Cardinality(T) : s[n] = i
<1>. DEFINE N == Cardinality(T)
<1>1. IsFiniteSet(T) /\ N \in Nat
  BY ModelAssumption, FS_Subset, FS_CardinalityType
<1>2. s \in [1..N -> T] /\ \A m, n \in 1..N : m # n => s[m] # s[n]
  BY DEF SetToSeqs
<1>. HIDE DEF N
<1>3. s \in Seq(Ids) /\ Len(s) = N
  BY <1>1, <1>2
<1>4. \A i \in T : \E n \in 1..N : s[n] = i
  <2>1. s \in Injection(1..N, T)
    BY <1>2 DEF Injection, IsInjective
  <2>2. Cardinality(1..N) = N
    BY <1>1, FS_Interval
  <2>3. s \in Surjection(1..N, T)
    BY <1>1, <2>1, <2>2, FS_Injection DEF N
  <2>. QED BY <2>3 DEF Surjection
<1>. QED BY <1>1, <1>2, <1>3, <1>4 DEF N

LEMMA SortedIsOne ==
    ASSUME TypeInv, NEW terms \in Terms, NEW p \in 1..Len(terms), terms[p].by = "pk",
           NEW T, T \subseteq Present, NEW s \in Sorted(terms, T), NEW t \in Sorted(terms, T)
    PROVE  s = t
<1>. DEFINE N == Cardinality(T)
<1>1. s \in SetToSeqs(T) /\ t \in SetToSeqs(T) /\ T \subseteq Ids
  BY PresentIsFinite DEF Sorted
<1>2. /\ N \in Nat /\ s \in [1..N -> T] /\ Len(s) = N
      /\ \A m, n \in 1..N : s[m] = s[n] => m = n
      /\ \A i \in T : \E n \in 1..N : s[n] = i
  BY <1>1, AllOf
<1>3. /\ t \in [1..N -> T] /\ Len(t) = N
      /\ \A m, n \in 1..N : t[m] = t[n] => m = n
      /\ \A i \in T : \E n \in 1..N : t[n] = i
  BY <1>1, AllOf
<1>4. \A m, n \in 1..N : m < n => ~Before(terms, s[n], s[m]) /\ ~Before(terms, t[n], t[m])
  BY <1>2, <1>3 DEF Sorted
<1>. DEFINE D == {n \in 1..N : s[n] # t[n]}
<1>. HIDE DEF N
<1>5. ASSUME D # {} PROVE FALSE
  <2>1. PICK k \in D : \A m \in D : k <= m
    <3>1. D \subseteq Nat
      OBVIOUS
    <3>. HIDE DEF D
    <3>. QED BY <1>5, <3>1, LeastNatural
  <2>2. k \in 1..N /\ s[k] # t[k] /\ s[k] \in Present /\ t[k] \in Present
    BY <1>2, <1>3
  <2>3. \A m \in 1..N : m < k => s[m] = t[m]
    BY <2>1, <1>2
  <2>4. PICK m \in 1..N : t[m] = s[k]
    BY <1>2, <1>3, <2>2
  <2>5. PICK n \in 1..N : s[n] = t[k]
    BY <1>2, <1>3, <2>2
  <2>6. k < m /\ k < n
    <3>1. m # k /\ n # k
      BY <2>2, <2>4, <2>5
    <3>2. ~(m < k) /\ ~(n < k)
      BY <1>2, <1>3, <2>2, <2>3, <2>4, <2>5
    <3>. QED BY <3>1, <3>2, <2>2, <1>2
  <2>7. ~Before(terms, s[k], t[k]) /\ ~Before(terms, t[k], s[k])
    <3>1. ~Before(terms, t[m], t[k]) /\ ~Before(terms, s[n], s[k])
      BY <1>4, <2>2, <2>6
    <3>. QED BY <3>1, <2>4, <2>5
  <2>. QED BY <2>2, <2>7, BeforeIsTotal
<1>6. \A n \in 1..N : s[n] = t[n]
  BY <1>5
<1>7. s = [n \in 1..N |-> s[n]] /\ t = [n \in 1..N |-> t[n]]
  BY <1>2, <1>3
<1>8. [n \in 1..N |-> s[n]] = [n \in 1..N |-> t[n]]
  BY <1>6
<1>. QED BY <1>7, <1>8

\* What a list, or the row number of get_siblings, may read.
Lists(w) == Sorted(DefaultOrdering(w.order), Matching(w.filter))

LEMMA DefaultOrderingHasKey ==
    ASSUME NEW w \in Walks
    PROVE  /\ DefaultOrdering(w.order) \in Terms
           /\ \E p \in 1..Len(DefaultOrdering(w.order)) : DefaultOrdering(w.order)[p].by = "pk"
<1>. DEFINE T == [by : {"pk", "cell"}, desc : BOOLEAN]
            terms == w.order
            key == [by |-> "pk", desc |-> TRUE]
<1>1. terms \in Seq(T) /\ key \in T /\ key.by = "pk"
  BY ModelAssumption
<1>. HIDE DEF T, key
<1>2. CASE \E n \in 1..Len(terms) : terms[n].by = "pk"
  BY <1>1, <1>2 DEF DefaultOrdering, Terms, T
<1>3. CASE ~\E n \in 1..Len(terms) : terms[n].by = "pk"
  <2>1. DefaultOrdering(terms) = Append(terms, key)
    BY <1>3 DEF DefaultOrdering, key
  <2>2. /\ Append(terms, key) \in Seq(T) /\ Len(Append(terms, key)) = Len(terms) + 1 /\ Len(terms) \in Nat
        /\ Append(terms, key)[Len(terms) + 1] = key
    BY <1>1
  <2>3. Len(terms) + 1 \in 1..Len(DefaultOrdering(terms))
    BY <2>1, <2>2
  <2>. QED BY <1>1, <2>1, <2>2, <2>3 DEF Terms, T
<1>. QED BY <1>2, <1>3

LEMMA ListIsOne ==
    ASSUME TypeInv, NEW w \in Walks, NEW s \in Lists(w), NEW t \in Lists(w)
    PROVE  s = t
<1>1. Matching(w.filter) \subseteq Present
  BY DEF Matching
<1>. QED BY <1>1, DefaultOrderingHasKey, SortedIsOne DEF Lists

LEMMA ListHasAll ==
    ASSUME NEW w, NEW s \in Lists(w)
    PROVE  /\ s \in Seq(Ids) /\ Len(s) \in Nat /\ DOMAIN s = 1..Len(s)
           /\ Len(s) = Cardinality(Matching(w.filter)) /\ Range(s) = Matching(w.filter)
           /\ \A m, n \in 1..Len(s) : s[m] = s[n] => m = n
<1>1. Matching(w.filter) \subseteq Ids /\ s \in SetToSeqs(Matching(w.filter))
  BY DEF Matching, Present, Lists, Sorted
<1>2. /\ s \in Seq(Ids) /\ Len(s) \in Nat /\ DOMAIN s = 1..Len(s) /\ Len(s) = Cardinality(Matching(w.filter))
      /\ \A m, n \in 1..Len(s) : s[m] = s[n] => m = n
      /\ \A i \in Matching(w.filter) : \E n \in 1..Len(s) : s[n] = i
      /\ \A n \in 1..Len(s) : s[n] \in Matching(w.filter)
  BY <1>1, AllOf
<1>. QED BY <1>2 DEF Range

-----------------------------------------------------------------------------
(* Siblings                                                                *)

\* The neighbours of the row at a place of a list.
Around(n, s) == [prev |-> IF n > 1 THEN s[n - 1] ELSE Absent, next |-> IF n < Len(s) THEN s[n + 1] ELSE Absent]

LEMMA SiblingsAreAround ==
    ASSUME NEW s \in Seq(Ids), NEW n \in 1..Len(s)
    PROVE  Siblings(n, s) = Around(n, s)
<1>0. Len(s) \in Nat /\ \A i \in 1..Len(s) : s[i] \in Ids
  OBVIOUS
<1>1. CASE n > 1
  <2>. DEFINE last == Min({n - 2 + 3, Len(s)})
              got == SubSeq(s, n - 2 + 1, last)
  <2>1. last = IF n + 1 <= Len(s) THEN n + 1 ELSE n
    <3>1. n - 2 + 3 \in Int /\ Len(s) \in Int
      BY <1>0
    <3>2. last \in {n - 2 + 3, Len(s)} /\ last <= n - 2 + 3 /\ last <= Len(s)
      BY <3>1, MinOfTwo
    <3>. HIDE DEF last
    <3>. QED BY <3>2, <1>0
  <2>. HIDE DEF last
  <2>2. /\ got \in Seq(Ids) /\ Len(got) = last - n + 2 /\ DOMAIN got = 1..(last - n + 2)
        /\ \A k \in 1..(last - n + 2) : got[k] = s[n - 2 + k]
    <3>1. last \in 1..Len(s) /\ n - 2 + 1 \in 1..Len(s) /\ n - 2 + 1 <= last /\ last - (n - 2 + 1) + 1 = last - n + 2
      BY <1>0, <1>1, <2>1
    <3>2. /\ got \in Seq(Ids) /\ Len(got) = last - (n - 2 + 1) + 1
          /\ \A k \in 1..(last - (n - 2 + 1) + 1) : got[k] = s[n - 2 + 1 + k - 1]
      BY <3>1
    <3>3. \A k \in 1..(last - n + 2) : n - 2 + 1 + k - 1 = n - 2 + k
      BY <3>1
    <3>4. DOMAIN got = 1..Len(got)
      BY <3>2
    <3>. HIDE DEF got
    <3>. QED BY <3>1, <3>2, <3>3, <3>4
  <2>3. 1 \in DOMAIN got /\ got[1] = s[n - 1]
    BY <2>1, <2>2
  <2>4. n < Len(s) => 3 \in DOMAIN got /\ got[3] = s[n + 1]
    BY <2>1, <2>2, <1>0
  <2>5. ~(n < Len(s)) => 3 \notin DOMAIN got
    BY <2>1, <2>2, <1>0
  <2>6. Siblings(n, s) = [prev |-> IF 1 \in DOMAIN got THEN got[1] ELSE Absent,
                          next |-> IF 3 \in DOMAIN got THEN got[3] ELSE Absent]
    BY <1>1 DEF Siblings, last
  <2>. HIDE DEF got
  <2>. QED BY <1>1, <2>3, <2>4, <2>5, <2>6 DEF Around
<1>2. CASE n = 1
  <2>. DEFINE last == Min({n - 1 + 2, Len(s)})
              got == SubSeq(s, n - 1 + 1, last)
  <2>1. last = IF 2 <= Len(s) THEN 2 ELSE 1
    <3>1. n - 1 + 2 \in Int /\ Len(s) \in Int /\ n - 1 + 2 = 2
      BY <1>0, <1>2
    <3>2. last \in {n - 1 + 2, Len(s)} /\ last <= n - 1 + 2 /\ last <= Len(s)
      BY <3>1, MinOfTwo
    <3>. HIDE DEF last
    <3>. QED BY <3>1, <3>2, <1>0
  <2>. HIDE DEF last
  <2>2. /\ got \in Seq(Ids) /\ Len(got) = last /\ DOMAIN got = 1..last
        /\ \A k \in 1..last : got[k] = s[k]
    BY <1>0, <1>2, <2>1
  <2>3. n < Len(s) => 2 \in DOMAIN got /\ got[2] = s[2]
    BY <2>1, <2>2, <1>0, <1>2
  <2>4. ~(n < Len(s)) => 2 \notin DOMAIN got
    BY <2>1, <2>2, <1>0, <1>2
  <2>5. Siblings(n, s) = [prev |-> Absent, next |-> IF 2 \in DOMAIN got THEN got[2] ELSE Absent]
    BY <1>2 DEF Siblings, last
  <2>. HIDE DEF got
  <2>. QED BY <1>2, <2>3, <2>4, <2>5 DEF Around
<1>. QED BY <1>1, <1>2

\* Until somebody commits, the number that was read is the place of the row in the list.
Placed(r) ==
    req[r].kind = "siblings" =>
        /\ req[r].pc \in {"count", "number", "rows"} => req[r].w \in Walks
        /\ \A w \in Walks : req[r].pc = "rows" /\ req[r].w = w /\ calm[r] =>
            \E s \in Lists(w) : req[r].number \in 1..Len(s) /\ s[req[r].number] = req[r].id
        /\ req[r].pc = "over" /\ "got" \in DOMAIN req[r] /\ req[r].calm =>
            req[r].got = Around(CHOOSE k \in DOMAIN req[r].list : req[r].list[k] = req[r].id, req[r].list)

SiblingsInv == \A r \in Requests : Placed(r)

LEMMA SameLists ==
    ASSUME NEW w, rows' = rows, engine' = engine
    PROVE  Lists(w)' = Lists(w)
<1>1. Present' = Present
  BY DEF Present
<1>2. Matching(w.filter)' = Matching(w.filter)
  BY <1>1 DEF Matching
<1>3. \A i : Rank(i)' = Rank(i)
  BY DEF Rank
<1>4. \A terms, i, j : Before(terms, i, j)' <=> Before(terms, i, j)
  BY <1>3 DEF Before
<1>. QED BY <1>2, <1>4 DEF Lists, Sorted

LEMMA KindIsKept ==
    ASSUME RequestsInv, PaginatorInv, TypeInv, NEW r \in Requests, Step(r)
    PROVE  req'[r].kind = req[r].kind
<1>0. DOMAIN req = Requests /\ "kind" \in DOMAIN req[r]
  BY KindsDiffer DEF RequestsInv
<1>1. CASE End(r)
  BY <1>0, <1>1 DEF End, Over
<1>2. CASE PageData(r) \/ Paginate(r) \/ Answer(r)
  BY <1>2, WalkStays, PaginateIs DEF PageData, Answer, At
<1>3. CASE CreateInvalid(r) \/ CreateSql(r) \/ CreateMongo(r)
  BY <1>3, BulkStays DEF CreateInvalid, CreateSql, CreateMongo, At
<1>4. CASE RowsCount(r) \/ RowNumber(r) \/ RowSiblings(r)
  <2>1. req[r].kind = "siblings" /\ (End(r) \/ req'[r].kind = "siblings")
    BY <1>4, SiblingsStay
  <2>. QED BY <1>1, <2>1
<1>5. CASE ReadSegment(r)
  <2>1. \/ End(r)
        \/ \E v : req'[r] = [req[r] EXCEPT !.from = v, !.pc = "to"]
        \/ \E v : req'[r] = [req[r] EXCEPT !.to = v, !.pc = "shift"]
    BY <1>0, <1>5 DEF ReadSegment
  <2>. QED BY <1>0, <1>1, <2>1
<1>6. CASE Shift(r)
  <2>1. req'[r] = [req[r] EXCEPT !.pc = "place"]
    BY <1>0, <1>6 DEF Shift, Goto
  <2>. QED BY <1>0, <2>1
<1>7. CASE Update(r) \/ Destroy(r) \/ Place(r) \/ ReorderFails(r) \/ ResetCommit(r)
  BY <1>1, <1>7 DEF Update, Destroy, Place, ReorderFails, ResetCommit
<1>. QED BY <1>2, <1>3, <1>4, <1>5, <1>6, <1>7 DEF Step, Paginate

LEMMA RowsCountPlaces ==
    ASSUME RequestsInv, TypeInv, NEW r \in Requests, Placed(r), RowsCount(r)
    PROVE  Placed(r)'
<1>0. DOMAIN req = Requests /\ At(r, "siblings", "count") /\ "kind" \in DOMAIN req[r]
  BY KindsDiffer DEF RequestsInv, RowsCount
<1>1. req[r].w \in Walks
  BY <1>0 DEF Placed, At
<1>2. CASE End(r)
  <2>1. req'[r] = Over(req[r].kind)
    BY <1>0, <1>2 DEF End
  <2>2. req'[r].pc = "over" /\ "got" \notin DOMAIN req'[r]
    BY <2>1 DEF Over
  <2>. QED BY <2>2 DEF Placed
<1>3. CASE Goto(r, "number")
  <2>1. req'[r] = [req[r] EXCEPT !.pc = "number"]
    BY <1>0, <1>3 DEF Goto
  <2>2. req'[r].w = req[r].w /\ req'[r].pc # "rows" /\ req'[r].pc # "over"
    <3>1. CASE "pc" \in DOMAIN req[r]
      BY <2>1, <3>1
    <3>2. CASE "pc" \notin DOMAIN req[r]
      BY <2>1, <3>2
    <3>. QED BY <3>1, <3>2
  <2>. QED BY <1>1, <2>2 DEF Placed
<1>. QED BY <1>2, <1>3 DEF RowsCount

LEMMA RowNumberPlaces ==
    ASSUME RequestsInv, TypeInv, NEW r \in Requests, Placed(r), RowNumber(r)
    PROVE  Placed(r)'
<1>0. DOMAIN req = Requests /\ UNCHANGED <<engine, rows, calm>>
  BY DEF RequestsInv, RowNumber
<1>1. req[r].w \in Walks
  BY DEF RowNumber, Placed, At
<1>2. PICK s \in Lists(req[r].w) :
        IF req[r].id \in Range(s)
        THEN req' = [req EXCEPT ![r] = [kind |-> "siblings", pc |-> "rows", w |-> @.w, id |-> @.id,
                                        number |-> CHOOSE n \in DOMAIN s : s[n] = @.id]]
        ELSE End(r)
  BY DEF RowNumber, Lists
<1>3. CASE req[r].id \in Range(s)
  <2>. DEFINE n == CHOOSE n \in DOMAIN s : s[n] = req[r].id
  <2>1. n \in 1..Len(s) /\ s[n] = req[r].id
    BY <1>3, ListHasAll DEF Range
  <2>. HIDE DEF n
  <2>2. req'[r] = [kind |-> "siblings", pc |-> "rows", w |-> req[r].w, id |-> req[r].id, number |-> n]
    BY <1>0, <1>2, <1>3 DEF n
  <2>3. \A w \in Walks : Lists(w)' = Lists(w)
    BY <1>0, SameLists
  <2>4. \A w \in Walks : req'[r].w = w => s \in Lists(w)'
    BY <2>2, <2>3
  <2>5. req'[r].w \in Walks /\ req'[r].number = n /\ req'[r].id = req[r].id /\ req'[r].pc = "rows"
    BY <1>1, <2>2
  <2>. QED BY <2>1, <2>4, <2>5 DEF Placed
<1>4. CASE End(r)
  <2>1. req'[r] = Over(req[r].kind)
    BY <1>0, <1>4 DEF End
  <2>2. req'[r].pc = "over" /\ "got" \notin DOMAIN req'[r]
    BY <2>1 DEF Over
  <2>. QED BY <2>2 DEF Placed
<1>. QED BY <1>2, <1>3, <1>4

LEMMA RowSiblingsPlaces ==
    ASSUME RequestsInv, TypeInv, NEW r \in Requests, Placed(r), RowSiblings(r)
    PROVE  Placed(r)'
<1>0. DOMAIN req = Requests
  BY DEF RequestsInv
<1>1. req[r].w \in Walks /\ At(r, "siblings", "rows")
  BY DEF RowSiblings, Placed, At
<1>2. PICK s \in Lists(req[r].w) :
        \/ End(r)
        \/ req' = [req EXCEPT ![r] = [kind |-> "siblings", pc |-> "over", id |-> @.id, list |-> s,
                                      got |-> Siblings(@.number, s), calm |-> calm[r]]]
  BY DEF RowSiblings, Lists
<1>3. CASE End(r)
  <2>1. req'[r] = Over(req[r].kind)
    BY <1>0, <1>3 DEF End
  <2>2. req'[r].pc = "over" /\ "got" \notin DOMAIN req'[r]
    BY <2>1 DEF Over
  <2>. QED BY <2>2 DEF Placed
<1>4. CASE req'[r] = [kind |-> "siblings", pc |-> "over", id |-> req[r].id, list |-> s,
                      got |-> Siblings(req[r].number, s), calm |-> calm[r]]
  <2>1. /\ req'[r].pc = "over" /\ req'[r].id = req[r].id /\ req'[r].list = s
        /\ req'[r].got = Siblings(req[r].number, s) /\ req'[r].calm = calm[r]
    BY <1>4
  <2>2. ASSUME calm[r] PROVE Siblings(req[r].number, s) = Around(CHOOSE k \in DOMAIN s : s[k] = req[r].id, s)
    <3>1. PICK t \in Lists(req[r].w) : req[r].number \in 1..Len(t) /\ t[req[r].number] = req[r].id
      BY <1>1, <2>2 DEF Placed, At
    <3>2. t = s
      BY <1>1, ListIsOne
    <3>3. /\ s \in Seq(Ids) /\ DOMAIN s = 1..Len(s)
          /\ \A m, n \in 1..Len(s) : s[m] = s[n] => m = n
      BY ListHasAll
    <3>4. (CHOOSE k \in DOMAIN s : s[k] = req[r].id) = req[r].number
      BY <3>1, <3>2, <3>3
    <3>. QED BY <3>1, <3>2, <3>3, <3>4, SiblingsAreAround
  <2>. QED BY <2>1, <2>2 DEF Placed
<1>. QED BY <1>0, <1>2, <1>3, <1>4

LEMMA SiblingsInit == Init => SiblingsInv
BY DEF Init, Idle, SiblingsInv, Placed

LEMMA SiblingsNext == ASSUME RequestsInv, PaginatorInv, TypeInv, SiblingsInv, [Next]_vars PROVE SiblingsInv'
<1>1. ASSUME NEW s \in Requests, req'[s] = req[s], engine' = engine, calm'[s] => calm[s] /\ rows' = rows
      PROVE  Placed(s)'
  <2>1. Placed(s)
    BY DEF SiblingsInv
  <2>2. calm'[s] => \A w \in Walks : Lists(w)' = Lists(w)
    BY <1>1, SameLists
  <2>. QED BY <1>1, <2>1, <2>2 DEF Placed
<1>2. CASE UNCHANGED vars
  BY <1>1, <1>2 DEF vars, SiblingsInv
<1>3. ASSUME NEW r \in Requests, Start(r) \/ Step(r) PROVE SiblingsInv'
  <2>0. DOMAIN req = Requests /\ Steady(r)
    BY <1>3, StartIsSteady, StepIsSteady DEF RequestsInv
  <2>1. ASSUME NEW s \in Requests, s # r PROVE Placed(s)'
    <3>1. req'[s].kind = req[s].kind /\ (req[s].kind # "walk" => req'[s] = req[s])
      BY <2>0, <2>1, StaysThere
    <3>2. CASE req[s].kind = "walk"
      BY <3>1, <3>2 DEF Placed
    <3>. QED BY <1>1, <2>0, <2>1, <3>1, <3>2 DEF Steady
  <2>2. ASSUME req'[r].kind # "siblings" PROVE Placed(r)'
    BY <2>2 DEF Placed
  <2>3. ASSUME Start(r) PROVE Placed(r)'
    <3>1. \A x : Begin(r, x) => req'[r] = x
      BY <2>0 DEF Begin
    <3>2. ASSUME NEW w \in Walks, NEW i, StartSiblings(r, w, i) PROVE Placed(r)'
      <4>1. req'[r] = [kind |-> "siblings", pc |-> "count", w |-> w, id |-> i]
        BY <3>1, <3>2 DEF StartSiblings
      <4>. QED BY <4>1 DEF Placed
    <3>3. ASSUME NEW w, StartWalk(r, w) PROVE Placed(r)'
      BY <2>2, <3>1, <3>3 DEF StartWalk
    <3>4. ASSUME NEW kind \in {"update", "destroy"}, NEW i, NEW v, StartWrite(r, kind, i, v) PROVE Placed(r)'
      BY <2>2, <3>1, <3>4 DEF StartWrite
    <3>5. ASSUME NEW body, StartBulk(r, body) PROVE Placed(r)'
      BY <2>2, <3>1, <3>5 DEF StartBulk
    <3>6. ASSUME NEW a, StartReorder(r, a) PROVE Placed(r)'
      BY <2>2, <3>1, <3>6 DEF StartReorder
    <3>7. ASSUME NEW terms, StartReset(r, terms) PROVE Placed(r)'
      <4>1. \E s : Begin(r, [kind |-> "reset", pc |-> "commit", list |-> s, loaded |-> rows])
        BY <3>7 DEF StartReset
      <4>. QED BY <2>2, <3>1, <4>1
    <3>. QED BY <2>3, <3>2, <3>3, <3>4, <3>5, <3>6, <3>7 DEF Start
  <2>4. ASSUME RowsCount(r) \/ RowNumber(r) \/ RowSiblings(r) PROVE Placed(r)'
    BY <2>4, RowsCountPlaces, RowNumberPlaces, RowSiblingsPlaces DEF SiblingsInv
  <2>5. ASSUME Step(r), ~RowsCount(r), ~RowNumber(r), ~RowSiblings(r) PROVE Placed(r)'
    <3>1. req[r].kind # "siblings"
      BY <2>5, PaginateIs DEF Step, Paginate, PageData, Answer, Update, Destroy, CreateInvalid, CreateSql, CreateMongo,
         ReadSegment, Shift, Place, ReorderFails, ResetCommit, At
    <3>. QED BY <2>2, <2>5, <3>1, KindIsKept
  <2>. QED BY <1>3, <2>1, <2>3, <2>4, <2>5 DEF SiblingsInv
<1>. QED BY <1>2, <1>3 DEF Next

\* The siblings of a row are the rows next to it in the list (get_row_number,
\* get_row_siblings), unless something was committed between the two statements, in lists
\* of any length, order and filter: see SiblingsAreNeighbours.
THEOREM SiblingsAreNeighboursAlways == Spec => []SiblingsAreNeighbours
<1>1. Spec => []SiblingsInv
  BY SiblingsInit, SiblingsNext, RequestsInvAlways, TypeInvAlways, PTL DEF Spec
<1>2. SiblingsInv => SiblingsAreNeighbours
  BY DEF SiblingsInv, Placed, SiblingsAreNeighbours, At, Around
<1>. QED BY <1>1, <1>2, PTL

-----------------------------------------------------------------------------
(* A list that nobody disturbs                                             *)

UpTo(s, k) == SubSeq(s, 1, Min({k, Len(s)}))

LEMMA UpToIs ==
    ASSUME NEW s \in Seq(Ids), NEW k \in Nat
    PROVE  /\ UpTo(s, k) \in Seq(Ids) /\ Len(UpTo(s, k)) = IF k <= Len(s) THEN k ELSE Len(s)
           /\ \A i \in 1..Len(UpTo(s, k)) : UpTo(s, k)[i] = s[i]
<1>. DEFINE n == Min({k, Len(s)})
<1>1. n = IF k <= Len(s) THEN k ELSE Len(s)
  <2>1. k \in Int /\ Len(s) \in Int
    OBVIOUS
  <2>2. n \in {k, Len(s)} /\ n <= k /\ n <= Len(s)
    BY <2>1, MinOfTwo
  <2>. HIDE DEF n
  <2>. QED BY <2>1, <2>2
<1>2. n \in Nat /\ n <= Len(s) /\ Len(s) \in Nat
  BY <1>1
<1>. HIDE DEF n
<1>3. /\ SubSeq(s, 1, n) \in Seq(Ids) /\ Len(SubSeq(s, 1, n)) = n
      /\ \A i \in 1..n : SubSeq(s, 1, n)[i] = s[i]
  BY <1>2
<1>. QED BY <1>1, <1>3 DEF UpTo, n

\* The pages before one, and that page.
LEMMA PagesFit ==
    ASSUME NEW s \in Seq(Ids), NEW first \in Nat, NEW size \in Nat
    PROVE  LET page == SubSeq(s, first + 1, Min({first + size, Len(s)}))
           IN /\ UpTo(s, first) \o page = UpTo(s, first + size)
              /\ first + Len(page) >= Len(s) => UpTo(s, first + size) = s
<1>. DEFINE last == Min({first + size, Len(s)})
            page == SubSeq(s, first + 1, last)
            before == UpTo(s, first)
            all == UpTo(s, first + size)
<1>1. last = (IF first + size <= Len(s) THEN first + size ELSE Len(s)) /\ last <= Len(s) /\ last \in Nat
      /\ Len(s) \in Nat
  <2>1. first + size \in Int /\ Len(s) \in Int
    OBVIOUS
  <2>2. last \in {first + size, Len(s)} /\ last <= first + size /\ last <= Len(s)
    BY <2>1, MinOfTwo
  <2>. HIDE DEF last
  <2>. QED BY <2>1, <2>2
<1>. HIDE DEF last
<1>2. /\ before \in Seq(Ids) /\ Len(before) = IF first <= Len(s) THEN first ELSE Len(s)
      /\ \A i \in 1..Len(before) : before[i] = s[i]
  BY UpToIs
<1>3. all \in Seq(Ids) /\ Len(all) = last /\ \A i \in 1..Len(all) : all[i] = s[i]
  BY <1>1, UpToIs
<1>4. /\ page \in Seq(Ids) /\ Len(page) = IF first + 1 <= last THEN last - first ELSE 0
      /\ \A i \in 1..(last - first) : page[i] = s[first + i]
  <2>1. \A i \in (first + 1)..last : s[i] \in Ids
    BY <1>1
  <2>2. /\ page \in Seq(Ids) /\ Len(page) = IF first + 1 <= last THEN last - (first + 1) + 1 ELSE 0
        /\ \A i \in 1..(last - (first + 1) + 1) : page[i] = s[(first + 1) + i - 1]
    BY <1>1, <2>1, SubSeqProperties
  <2>3. last - (first + 1) + 1 = last - first /\ \A i \in 1..(last - first) : (first + 1) + i - 1 = first + i
    BY <1>1
  <2>. HIDE DEF page
  <2>. QED BY <2>2, <2>3
<1>. HIDE DEF before, all, page
<1>5. /\ before \o page \in Seq(Ids) /\ Len(before \o page) = Len(before) + Len(page)
      /\ \A i \in 1..(Len(before) + Len(page)) :
           (before \o page)[i] = IF i <= Len(before) THEN before[i] ELSE page[i - Len(before)]
  BY <1>2, <1>4, ConcatProperties
<1>6. Len(before) + Len(page) = last /\ Len(before) \in Nat
  <2>1. CASE first <= Len(s)
    <3>1. Len(before) = first /\ first <= last
      BY <2>1, <1>1, <1>2
    <3>. QED BY <3>1, <1>1, <1>4
  <2>2. CASE first > Len(s)
    <3>1. Len(before) = Len(s) /\ last = Len(s)
      BY <2>2, <1>1, <1>2
    <3>2. Len(page) = 0
      BY <2>2, <3>1, <1>1, <1>4
    <3>. QED BY <3>1, <3>2, <1>1
  <2>. QED BY <2>1, <2>2, <1>1
<1>7. ASSUME NEW i \in 1..last PROVE (before \o page)[i] = all[i]
  <2>1. CASE i <= Len(before)
    BY <2>1, <1>1, <1>2, <1>3, <1>5, <1>6
  <2>2. CASE i > Len(before)
    <3>1. Len(before) = first /\ i - first \in 1..(last - first) /\ first + (i - first) = i
      BY <2>2, <1>1, <1>2
    <3>2. page[i - first] = s[i]
      BY <3>1, <1>4
    <3>. QED BY <2>2, <3>1, <3>2, <1>1, <1>2, <1>3, <1>5, <1>6
  <2>. QED BY <2>1, <2>2, <1>1, <1>6
<1>8. before \o page = all
  BY <1>3, <1>5, <1>6, <1>7, SeqEqual
<1>9. ASSUME first + Len(page) >= Len(s) PROVE all = s
  <2>1. Len(all) = Len(s)
    BY <1>1, <1>3, <1>4, <1>9
  <2>. QED BY <2>1, <1>3, SeqEqual
<1>. QED BY <1>8, <1>9 DEF before, all, page, last

\* Until somebody commits, a list has seen its pages so far, and its last page if it is
\* over; until another list takes the paginator it is this one's.
Followed(r) ==
    req[r].kind = "walk" /\ req[r].own =>
        /\ req[r].pc \in Paginating \ {"page", "size"} => paginator.page = req[r].page /\ paginator.size = req[r].w.size
        /\ req[r].pc = "size" => paginator.page = req[r].page
        /\ \A w \in Walks : req[r].w = w /\ calm[r] =>
            /\ req[r].pc = "data" => \A s \in Lists(w) : req[r].seen = UpTo(s, (req[r].page - 1) * w.size)
            /\ req[r].pc \in {"count"} \cup Paginating =>
                \E s \in Lists(w) : req[r].seen = UpTo(s, req[r].page * w.size) /\ (req[r].end => req[r].seen = s)
            /\ req[r].pc = "over" => req[r].seen \in Lists(w)

FollowedInv == \A r \in Requests : Followed(r)

LEMMA StartWalkFollows ==
    ASSUME RequestsInv, TypeInv, NEW r \in Requests, NEW v \in Walks, StartWalk(r, v)
    PROVE  Followed(r)'
<1>0. DOMAIN req = Requests /\ UNCHANGED <<engine, rows>>
  BY DEF RequestsInv, StartWalk
<1>1. req'[r] = [kind |-> "walk", pc |-> "data", w |-> v, page |-> 1, data |-> <<>>,
                 seen |-> <<>>, end |-> FALSE, count |-> 0, size |-> 0, next |-> FALSE, own |-> TRUE]
  BY <1>0 DEF StartWalk, Begin
<1>2. ASSUME NEW w \in Walks, NEW s \in Lists(w) PROVE UpTo(s, (1 - 1) * w.size) = <<>>
  <2>1. (1 - 1) * w.size = 0
    BY ModelAssumption
  <2>2. s \in Seq(Ids)
    BY ListHasAll
  <2>3. UpTo(s, 0) \in Seq(Ids) /\ Len(UpTo(s, 0)) = 0
    BY <2>2, UpToIs
  <2>. HIDE DEF UpTo
  <2>. QED BY <2>1, <2>3, EmptySeq
<1>3. \A w \in Walks : Lists(w)' = Lists(w)
  BY <1>0, SameLists
<1>4. /\ req'[r].pc = "data" /\ req'[r].page = 1 /\ req'[r].seen = <<>>
  BY <1>1
<1>. QED BY <1>2, <1>3, <1>4 DEF Followed, Paginating

LEMMA PageDataFollows ==
    ASSUME RequestsInv, TypeInv, NEW r \in Requests, Followed(r), PageData(r)
    PROVE  Followed(r)'
<1>0. DOMAIN req = Requests /\ UNCHANGED <<engine, rows, calm>> /\ At(r, "walk", "data")
  BY DEF RequestsInv, PageData
<1>1. req[r] \in WalkRecords
  BY <1>0, KindsDiffer DEF At, RequestsInv
<1>. DEFINE v == req[r].w
            first == (req[r].page - 1) * v.size
<1>2. PICK s \in Lists(v) :
        LET page == SubSeq(s, first + 1, Min({first + v.size, Len(s)}))
        IN req' = [req EXCEPT ![r].pc = "count", ![r].data = page,
                              ![r].seen = @ \o page, ![r].end = first + Len(page) >= Len(s)]
  BY DEF PageData, Lists
<1>. DEFINE page == SubSeq(s, first + 1, Min({first + v.size, Len(s)}))
            end == first + Len(page) >= Len(s)
            seen == req[r].seen \o page
<1>3. req'[r] = [req[r] EXCEPT !.pc = "count", !.data = page, !.seen = seen, !.end = end]
  BY <1>0, <1>1, <1>2
<1>4. v \in Walks /\ v.size \in Nat /\ req[r].page \in Nat \ {0}
  BY <1>1, ModelAssumption DEF WalkRecords
<1>5. first \in Nat /\ first + v.size = req[r].page * v.size
  BY <1>4
<1>6. s \in Seq(Ids)
  BY ListHasAll
<1>7. UpTo(s, first) \o page = UpTo(s, first + v.size) /\ (end => UpTo(s, first + v.size) = s)
  BY <1>4, <1>5, <1>6, PagesFit
<1>8. ASSUME calm[r], req[r].own PROVE seen = UpTo(s, req[r].page * v.size) /\ (end => seen = s)
  <2>1. req[r].seen = UpTo(s, first)
    BY <1>0, <1>4, <1>8 DEF Followed, At
  <2>. QED BY <2>1, <1>5, <1>7
<1>9. \A w \in Walks : Lists(w)' = Lists(w)
  BY <1>0, SameLists
<1>. HIDE DEF page, end, seen, first
<1>10. /\ req'[r].pc = "count" /\ req'[r].seen = seen /\ req'[r].end = end /\ req'[r].w = v
       /\ req'[r].page = req[r].page /\ req'[r].own = req[r].own
  BY <1>1, <1>3 DEF WalkRecords
<1>. QED BY <1>0, <1>4, <1>8, <1>9, <1>10 DEF Followed, Paginating

LEMMA PaginateFollows ==
    ASSUME RequestsInv, PaginatorInv, TypeInv, NEW r \in Requests, Followed(r), Paginate(r)
    PROVE  Followed(r)'
<1>0. UNCHANGED <<engine, rows, calm>> /\ req[r].kind = "walk" /\ req[r].pc \in {"count", "page", "size"}
  BY PaginateIs
<1>1. req[r] \in WalkRecords
  BY <1>0, KindsDiffer DEF RequestsInv
<1>2. \A w \in Walks : Lists(w)' = Lists(w)
  BY <1>0, SameLists
<1>3. ASSUME NEW pc, Paginates(r, pc)
      PROVE  /\ req'[r].pc = pc /\ req'[r].seen = req[r].seen /\ req'[r].end = req[r].end
             /\ req'[r].w = req[r].w /\ req'[r].page = req[r].page /\ req'[r].own = req[r].own
  <2>1. req'[r] = [req[r] EXCEPT !.pc = pc]
    BY <1>3 DEF Paginates
  <2>. QED BY <1>1, <2>1 DEF WalkRecords
<1>4. ASSUME req[r].own
      PROVE  /\ req[r].pc = "size" => paginator.page = req[r].page
             /\ \A w \in Walks : req[r].w = w /\ calm[r] =>
                  \E s \in Lists(w) : req[r].seen = UpTo(s, req[r].page * w.size) /\ (req[r].end => req[r].seen = s)
  BY <1>0, <1>4 DEF Followed, Paginating
<1>5. ASSUME NEW pc \in {"page", "size", "answer"}, Paginates(r, pc),
             req[r].own /\ pc # "page" => paginator'.page = req[r].page,
             pc = "answer" => paginator'.size = req[r].w.size
      PROVE  Followed(r)'
  <2>1. /\ req'[r].pc = pc /\ req'[r].seen = req[r].seen /\ req'[r].end = req[r].end
        /\ req'[r].w = req[r].w /\ req'[r].page = req[r].page /\ req'[r].own = req[r].own
    BY <1>3, <1>5
  <2>2. req[r].own /\ req'[r].pc \in Paginating \ {"page", "size"} =>
          paginator'.page = req'[r].page /\ paginator'.size = req'[r].w.size
    BY <1>5, <2>1
  <2>3. req[r].own /\ req'[r].pc = "size" => paginator'.page = req'[r].page
    BY <1>5, <2>1
  <2>4. req[r].own => \A w \in Walks : req'[r].w = w /\ calm'[r] =>
          \E s \in Lists(w)' : req'[r].seen = UpTo(s, req'[r].page * w.size) /\ (req'[r].end => req'[r].seen = s)
    BY <1>0, <1>2, <1>4, <2>1
  <2>5. req'[r].pc # "data" /\ req'[r].pc # "over"
    BY <2>1
  <2>. QED BY <2>1, <2>2, <2>3, <2>4, <2>5 DEF Followed, Paginating
<1>6. CASE PageCount(r)
  BY <1>5, <1>6 DEF PageCount
<1>7. CASE PageNumber(r)
  BY <1>5, <1>7 DEF PageNumber, PaginatorInv
<1>8. CASE PageSize(r)
  <2>1. /\ Paginates(r, "answer") /\ paginator'.size = req[r].w.size /\ paginator'.page = paginator.page
        /\ req[r].pc = "size"
    BY <1>8 DEF PageSize, PaginatorInv, At
  <2>. QED BY <1>4, <1>5, <2>1
<1>. QED BY <1>6, <1>7, <1>8 DEF Paginate

LEMMA AnswerFollows ==
    ASSUME RequestsInv, PaginatorInv, TypeInv, NEW r \in Requests, Followed(r), Answer(r)
    PROVE  Followed(r)'
<1>. DEFINE v == req[r].w
            next == paginator.page < PagesCount(req[r])
            page == paginator.page + 1
<1>0. /\ UNCHANGED <<engine, rows, calm, paginator>>
      /\ req[r] \in WalkRecords /\ WalkSound(req[r]) /\ req[r].pc \in Paginating /\ req[r].kind = "walk"
  BY AnswerIs DEF WalkRecords
<1>1. \A w \in Walks : Lists(w)' = Lists(w)
  BY <1>0, SameLists
<1>2. v \in Walks /\ req[r].page \in Nat
  BY <1>0 DEF WalkRecords
<1>3. CASE At(r, "walk", "link") /\ req[r].own
  <2>1. req'[r] = [req[r] EXCEPT !.pc = "data", !.page = page]
    BY <1>3, AnswerIs DEF At
  <2>2. page - 1 = req[r].page
    BY <1>2, <1>3 DEF Followed, At, Paginating
  <2>. HIDE DEF page
  <2>3. /\ req'[r].pc = "data" /\ req'[r].seen = req[r].seen /\ req'[r].w = v /\ req'[r].page = page
    BY <1>0, <2>1 DEF WalkRecords
  <2>4. ASSUME calm[r] PROVE \A s \in Lists(v) : req[r].seen = UpTo(s, (page - 1) * v.size)
    <3>1. PICK s \in Lists(v) : req[r].seen = UpTo(s, req[r].page * v.size)
      BY <1>0, <1>2, <1>3, <2>4 DEF Followed, At, Paginating
    <3>. QED BY <1>2, <2>2, <3>1, ListIsOne
  <2>. QED BY <1>0, <1>1, <1>2, <2>3, <2>4 DEF Followed, Paginating
<1>4. CASE At(r, "walk", "link") /\ ~req[r].own
  <2>1. req'[r] = [req[r] EXCEPT !.pc = "over"]
    BY <1>4, AnswerIs DEF At
  <2>2. ~req'[r].own
    BY <1>0, <1>4, <2>1 DEF WalkRecords
  <2>. QED BY <2>2 DEF Followed
<1>5. CASE At(r, "walk", "full") /\ ~HasMore(req[r])
  <2>1. req'[r] = [req[r] EXCEPT !.pc = "over"]
    BY <1>5, AnswerIs DEF At
  <2>2. req'[r].pc = "over" /\ req'[r].seen = req[r].seen /\ req'[r].w = v /\ req'[r].own = req[r].own
    BY <1>0, <2>1 DEF WalkRecords
  <2>3. ASSUME calm[r], req[r].own PROVE req[r].seen \in Lists(v)
    <3>1. Len(req[r].data) # v.size
      BY <1>0, <1>5, <2>3 DEF Followed, At, HasMore, Paginating
    <3>2. req[r].end
      BY <1>0, <3>1 DEF WalkSound
    <3>. QED BY <1>0, <1>2, <2>3, <3>2 DEF Followed
  <2>. QED BY <1>0, <1>1, <1>2, <2>2, <2>3 DEF Followed, Paginating
<1>6. CASE \/ At(r, "walk", "answer") \/ At(r, "walk", "pages") \/ At(r, "walk", "next")
           \/ At(r, "walk", "full") /\ HasMore(req[r])
  <2>1. \/ req'[r] = [req[r] EXCEPT !.pc = "pages", !.count = paginator.count]
        \/ req'[r] = [req[r] EXCEPT !.pc = "next", !.size = paginator.size]
        \/ req'[r] = [req[r] EXCEPT !.pc = "full", !.next = next]
        \/ req'[r] = [req[r] EXCEPT !.pc = "link"]
    BY <1>6, AnswerIs DEF At
  <2>. HIDE DEF next
  <2>2. /\ req'[r].pc \in {"pages", "next", "full", "link"} /\ req'[r].seen = req[r].seen
        /\ req'[r].end = req[r].end /\ req'[r].w = req[r].w /\ req'[r].page = req[r].page
        /\ req'[r].own = req[r].own
    BY <1>0, <2>1 DEF WalkRecords
  <2>3. req[r].pc \in Paginating \ {"page", "size"}
    BY <1>6 DEF At, Paginating
  <2>. QED BY <1>0, <1>1, <2>2, <2>3 DEF Followed, Paginating
<1>. QED BY <1>3, <1>4, <1>5, <1>6, AnswerIs

LEMMA FollowedInit == Init => FollowedInv
BY DEF Init, Idle, FollowedInv, Followed

LEMMA FollowedNext == ASSUME RequestsInv, PaginatorInv, TypeInv, FollowedInv, [Next]_vars PROVE FollowedInv'
<1>1. ASSUME NEW s \in Requests, req'[s] = req[s], engine' = engine, calm'[s] => calm[s] /\ rows' = rows,
             paginator' = paginator \/ ~(req[s].kind = "walk" /\ req[s].pc \in Paginating)
      PROVE  Followed(s)'
  <2>1. Followed(s)
    BY DEF FollowedInv
  <2>2. calm'[s] => \A w \in Walks : Lists(w)' = Lists(w)
    BY <1>1, SameLists
  <2>. QED BY <1>1, <2>1, <2>2 DEF Followed, Paginating
<1>2. CASE UNCHANGED vars
  BY <1>1, <1>2 DEF vars, FollowedInv
<1>3. ASSUME NEW r \in Requests, Start(r) \/ Step(r) PROVE FollowedInv'
  <2>0. DOMAIN req = Requests /\ Steady(r)
    BY <1>3, StartIsSteady, StepIsSteady DEF RequestsInv
  <2>1. Paginate(r) \/ paginator' = paginator
    BY <1>3 DEF Start, StartWalk, StartSiblings, StartWrite, StartBulk, StartReorder, StartReset,
       Step, Paginate, PageData, Answer, RowsCount, RowNumber, RowSiblings, Update, Destroy, CreateInvalid,
       CreateSql, CreateMongo, ReadSegment, Shift, Place, ReorderFails, ResetCommit
  <2>2. ASSUME NEW s \in Requests, s # r PROVE Followed(s)'
    <3>1. CASE Paginate(r) /\ req[s].kind = "walk" /\ req[s].pc \in Paginating
      <4>1. req'[s] = [req[s] EXCEPT !.own = FALSE]
        BY <2>2, <3>1, PaginateIs DEF Paginates
      <4>2. req[s] \in WalkRecords
        BY <3>1, KindsDiffer DEF RequestsInv
      <4>3. ~req'[s].own
        BY <4>1, <4>2 DEF WalkRecords
      <4>. QED BY <4>3 DEF Followed
    <3>2. CASE ~(Paginate(r) /\ req[s].kind = "walk" /\ req[s].pc \in Paginating)
      <4>1. req'[s] = req[s]
        BY <2>0, <2>2, <3>2, PaginateIs DEF Paginates, Steady
      <4>. QED BY <1>1, <2>0, <2>1, <2>2, <3>2, <4>1 DEF Steady
    <3>. QED BY <3>1, <3>2
  <2>3. ASSUME req'[r].kind # "walk" PROVE Followed(r)'
    BY <2>3 DEF Followed
  <2>4. ASSUME Start(r) PROVE Followed(r)'
    <3>1. \A x : Begin(r, x) => req'[r] = x
      BY <2>0 DEF Begin
    <3>2. ASSUME NEW w, NEW i, StartSiblings(r, w, i) PROVE Followed(r)'
      BY <2>3, <3>1, <3>2 DEF StartSiblings
    <3>3. ASSUME NEW w \in Walks, StartWalk(r, w) PROVE Followed(r)'
      BY <3>3, StartWalkFollows
    <3>4. ASSUME NEW kind \in {"update", "destroy"}, NEW i, NEW v, StartWrite(r, kind, i, v) PROVE Followed(r)'
      BY <2>3, <3>1, <3>4 DEF StartWrite
    <3>5. ASSUME NEW body, StartBulk(r, body) PROVE Followed(r)'
      BY <2>3, <3>1, <3>5 DEF StartBulk
    <3>6. ASSUME NEW a, StartReorder(r, a) PROVE Followed(r)'
      BY <2>3, <3>1, <3>6 DEF StartReorder
    <3>7. ASSUME NEW terms, StartReset(r, terms) PROVE Followed(r)'
      <4>1. \E s : Begin(r, [kind |-> "reset", pc |-> "commit", list |-> s, loaded |-> rows])
        BY <3>7 DEF StartReset
      <4>. QED BY <2>3, <3>1, <4>1
    <3>. QED BY <2>4, <3>2, <3>3, <3>4, <3>5, <3>6, <3>7 DEF Start
  <2>5. ASSUME PageData(r) \/ Paginate(r) \/ Answer(r) PROVE Followed(r)'
    BY <2>5, PageDataFollows, PaginateFollows, AnswerFollows DEF FollowedInv
  <2>6. ASSUME Step(r), ~PageData(r), ~Paginate(r), ~Answer(r) PROVE Followed(r)'
    <3>1. req[r].kind # "walk"
      BY <2>6 DEF Step, Paginate, RowsCount, RowNumber, RowSiblings, Update, Destroy, CreateInvalid, CreateSql, CreateMongo,
         ReadSegment, Shift, Place, ReorderFails, ResetCommit, At
    <3>. QED BY <2>3, <2>6, <3>1, KindIsKept
  <2>. QED BY <1>3, <2>2, <2>4, <2>5, <2>6 DEF FollowedInv
<1>. QED BY <1>2, <1>3 DEF Next

\* A client that follows the links of a list gets every row that its filter keeps once
\* (apply_default_ordering, CustomPageNumberPagination), if nobody writes and nobody
\* overwrites the paginator, for any order, filter and page size: see WalkIsComplete.
THEOREM WalkIsCompleteAlways == Spec => []WalkIsComplete
<1>1. Spec => []FollowedInv
  BY FollowedInit, FollowedNext, RequestsInvAlways, TypeInvAlways, PTL DEF Spec
<1>2. RequestsInv /\ FollowedInv => WalkIsComplete
  <2>. SUFFICES ASSUME RequestsInv, FollowedInv, NEW r \in Requests,
                       At(r, "walk", "over"), calm[r], req[r].own
       PROVE  /\ Range(req[r].seen) = Matching(req[r].w.filter)
              /\ Len(req[r].seen) = Cardinality(Range(req[r].seen))
    BY DEF WalkIsComplete
  <2>1. req[r].w \in Walks
    BY KindsDiffer DEF At, RequestsInv, WalkRecords
  <2>2. req[r].seen \in Lists(req[r].w)
    BY <2>1 DEF FollowedInv, Followed, At
  <2>. QED BY <2>2, ListHasAll
<1>. QED BY <1>1, <1>2, RequestsInvAlways, PTL
=============================================================================
