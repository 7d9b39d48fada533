---------------------- MODULE RelationOverrides_proofs ----------------------
(***************************************************************************)
(* Theorems about RelationOverrides, for every set of requests, bodies and *)
(* models.                                                                 *)
(***************************************************************************)
EXTENDS RelationOverrides, TLAPS, FiniteSetTheorems, WellFoundedInduction

-----------------------------------------------------------------------------
(* Naturals                                                                *)

\* The least-number principle: finite intervals are well-founded under inclusion.
LEMMA LeastNatural ==
    ASSUME NEW T, T \subseteq Nat, T # {}
    PROVE  \E x \in T : \A y \in T : x <= y
<1>. DEFINE F == {1..n : n \in T}
<1>1. F \subseteq FiniteSubsetsOf(Nat) /\ F # {}
  <2>1. ASSUME NEW n \in T PROVE 1..n \in SUBSET Nat /\ IsFiniteSet(1..n)
    BY FS_Interval
  <2>. QED BY <2>1 DEF FiniteSubsetsOf
<1>2. IsWellFoundedOn(StrictSubsetOrdering(Nat), FiniteSubsetsOf(Nat))
  BY FS_StrictSubsetOrderingWellFounded
<1>. HIDE DEF F
<1>3. PICK x \in F : \A y \in F : ~(<<y, x>> \in StrictSubsetOrdering(Nat))
  BY <1>1, <1>2, WFMin
<1>. USE DEF F
<1>4. PICK n \in T : x = 1..n
  BY <1>3
<1>5. ASSUME NEW m \in T, m < n PROVE FALSE
  <2>1. 1..m \in F /\ 1..m \in SUBSET Nat /\ 1..n \in SUBSET Nat
    OBVIOUS
  <2>2. ~(<<1..m, 1..n>> \in StrictSubsetOrdering(Nat))
    BY <1>3, <1>4, <2>1
  <2>3. 1..m \subseteq 1..n /\ 1..m # 1..n
    <3>1. n \notin 1..m /\ n \in 1..n
      BY <1>5
    <3>. QED BY <1>5, <3>1
  <2>. QED BY <2>1, <2>2, <2>3 DEF StrictSubsetOrdering
<1>. QED BY <1>5

LEMMA MaxOfBounded ==
    ASSUME NEW S, S \subseteq Nat, S # {}, NEW n \in Nat, \A x \in S : x <= n
    PROVE  Max(S) \in S /\ \A x \in S : x <= Max(S)
<1>. DEFINE U == {m \in Nat : \A x \in S : x <= m}
<1>1. PICK u \in U : \A m \in U : u <= m
  <2>1. U \subseteq Nat /\ n \in U
    OBVIOUS
  <2>. HIDE DEF U
  <2>. QED BY <2>1, LeastNatural
<1>2. u \in S
  <2>. SUFFICES ASSUME u \notin S PROVE FALSE
    OBVIOUS
  <2>1. \A x \in S : x <= u - 1
    OBVIOUS
  <2>2. u - 1 \in U
    <3>1. PICK x \in S : x <= u
      OBVIOUS
    <3>2. u \in Nat /\ x \in Nat /\ x # u
      BY <3>1
    <3>. QED BY <2>1, <3>1, <3>2
  <2>3. u \in Nat /\ u <= u - 1
    BY <1>1, <2>2
  <2>. QED BY <2>3
<1>3. \E m \in S : \A x \in S : m >= x
  BY <1>2
<1>. QED BY <1>3 DEF Max

-----------------------------------------------------------------------------
(* Type correctness                                                        *)

\* Stores of rows whose ids are bounded, as those of finitely many rows are.
Stored(store) ==
    /\ DOMAIN store \subseteq Nat \ {0} /\ \A id \in DOMAIN store : store[id] \in Row
    /\ \E n \in Nat : \A id \in DOMAIN store : id <= n

\* What TypeOK says of one save; before it begins it is at its first item.
SaveOK(s) ==
    /\ pc[s] \in {"query", "write", "flush"} => at[s] \in DOMAIN body[s]
    /\ pc[s] = "idle" => at[s] = 1
    /\ found[s] \in Seq(Found)

TypeInv ==
    /\ Stored(rows) /\ Stored(work)
    /\ writer \in Saves \cup {NoOne}
    /\ pc \in [Saves -> SavePCs]
    /\ draft \in [Saves -> BOOLEAN]
    /\ body \in [Saves -> Bodies \cup {<<>>}]
    /\ DOMAIN at = Saves /\ DOMAIN found = Saves
    /\ \A s \in Saves : SaveOK(s)
    /\ alone \in [Saves -> BOOLEAN]
    /\ schema \in [BOOLEAN -> SUBSET Image]
    /\ untold \in [BOOLEAN -> BOOLEAN]

LEMMA InitTypes == Init => TypeInv
BY DEF Init, TypeInv, Stored, NoRows, SaveOK, SavePCs, NotGenerated

\* What a query returns.
LEMMA ExistingTypes ==
    ASSUME NEW store, Stored(store), NEW m, NEW f \in Existing(store, m)
    PROVE  f \in Seq(Found)
<1>. DEFINE ids == {id \in DOMAIN store : store[id].model = m}
<1>1. PICK order \in SetToSeqs(ids) : f = [k \in DOMAIN order |-> [id |-> order[k], name |-> store[order[k]].name]]
  BY DEF Existing
<1>2. Cardinality(ids) \in Nat
  <2>1. PICK n \in Nat : \A id \in DOMAIN store : id <= n
    BY DEF Stored
  <2>2. ids \in SUBSET Nat /\ \A id \in ids : id <= n
    BY <2>1 DEF Stored
  <2>. HIDE DEF ids
  <2>. QED BY <2>2, FS_BoundedSetOfNaturals, FS_CardinalityType
<1>3. order \in [1..Cardinality(ids) -> ids]
  BY DEF SetToSeqs
<1>4. \A k \in 1..Cardinality(ids) : [id |-> order[k], name |-> store[order[k]].name] \in Found
  BY <1>3 DEF Stored, Row, Found
<1>. HIDE DEF ids
<1>. QED BY <1>1, <1>2, <1>3, <1>4

LEMMA NextIdTypes ==
    ASSUME NEW store, Stored(store)
    PROVE  NextId(store) \in Nat \ {0} /\ \A id \in DOMAIN store : id < NextId(store)
<1>1. CASE DOMAIN store = {}
  BY <1>1 DEF NextId
<1>2. CASE DOMAIN store # {}
  <2>1. PICK n \in Nat : \A id \in DOMAIN store : id <= n
    BY DEF Stored
  <2>2. Max(DOMAIN store) \in DOMAIN store /\ \A id \in DOMAIN store : id <= Max(DOMAIN store)
    BY <1>2, <2>1, MaxOfBounded DEF Stored
  <2>. QED BY <1>2, <2>2 DEF NextId, Stored
<1>. QED BY <1>1, <1>2

\* The item of a save that is at one.
LEMMA ItemTypes ==
    ASSUME TypeInv, NEW s \in Saves, pc[s] \in {"query", "write", "flush"}
    PROVE  /\ Item(s).model \in Models /\ Wanted(s) \in Seq(Names)
           /\ found[s] \in Seq(Found) /\ draft[s] \in BOOLEAN
           /\ at[s] \in 1..Len(body[s]) /\ DOMAIN body[s] = 1..Len(body[s])
<1>1. at[s] \in DOMAIN body[s] /\ found[s] \in Seq(Found)
  BY DEF TypeInv, SaveOK
<1>. DEFINE Items == [model : Models, names : {names \in Seq(Names) : Ordered(names)}]
<1>2. body[s] \in Seq(Items)
  <2>1. body[s] \in Bodies \cup {<<>>}
    BY DEF TypeInv
  <2>2. Bodies \subseteq Seq(Items)
    BY OverridesAssumption DEF OverridesAssumption
  <2>3. <<>> \in Seq(Items)
    OBVIOUS
  <2>. HIDE DEF Items
  <2>. QED BY <2>1, <2>2, <2>3
<1>3. at[s] \in 1..Len(body[s]) /\ body[s][at[s]] \in Items
  <2>. HIDE DEF Items
  <2>. QED BY <1>1, <1>2
<1>. QED BY <1>1, <1>2, <1>3 DEF TypeInv, Item, Wanted

LEMMA NewIds ==
    ASSUME NEW next \in Nat \ {0}, NEW l \in Nat, NEW w \in Nat, NEW i \in Nat, i > l, i <= w
    PROVE  LET new == next + i - l - 1 IN new \in Nat \ {0} /\ new <= next + w /\ new - next + l + 1 = i
OBVIOUS

\* A flush leaves rows.
LEMMA FlushedTypes ==
    ASSUME TypeInv, NEW s \in Saves, pc[s] = "flush"
    PROVE  Stored(Flushed(s, work))
<1>. DEFINE store == work
            next == NextId(work)
            len == Len(found[s])
            new(i) == next + i - len - 1
            inserted == {new(i) : i \in Added(s)}
            ids == (DOMAIN work \cup inserted) \ Surplus(s)
<1>1. Stored(work) /\ next \in Nat \ {0}
  BY NextIdTypes DEF TypeInv
<1>2. Wanted(s) \in Seq(Names) /\ found[s] \in Seq(Found) /\ draft[s] \in BOOLEAN /\ Item(s).model \in Models
  BY ItemTypes
<1>3. ASSUME NEW i \in Added(s)
      PROVE  /\ i \in 1..Len(Wanted(s)) /\ i > len
             /\ new(i) \in Nat \ {0} /\ new(i) <= next + Len(Wanted(s))
             /\ new(i) - next + len + 1 = i
  <2>1. i \in 1..Len(Wanted(s)) /\ i \notin 1..Len(found[s])
    BY <1>2 DEF Added
  <2>2. len \in Nat /\ Len(Wanted(s)) \in Nat
    BY <1>2
  <2>3. i \in Nat /\ i > len /\ i <= Len(Wanted(s)) /\ next \in Nat \ {0}
    BY <1>1, <2>1, <2>2
  <2>. HIDE DEF next, len
  <2>4. new(i) \in Nat \ {0} /\ new(i) <= next + Len(Wanted(s)) /\ new(i) - next + len + 1 = i
    BY <2>2, <2>3, NewIds
  <2>. QED BY <2>1, <2>3, <2>4
<1>4. ids \subseteq Nat \ {0}
  BY <1>1, <1>3 DEF Stored
<1>5. \E n \in Nat : \A id \in ids : id <= n
  <2>1. PICK n \in Nat : \A id \in DOMAIN work : id <= n
    BY <1>1 DEF Stored
  <2>. DEFINE m == n + next + Len(Wanted(s))
  <2>2. m \in Nat /\ \A id \in ids : id <= m
    <3>1. Len(Wanted(s)) \in Nat
      BY <1>2
    <3>. HIDE DEF next
    <3>. QED BY <1>1, <1>3, <1>4, <2>1, <3>1 DEF Stored
  <2>. HIDE DEF m, ids
  <2>. QED BY <2>2
<1>. DEFINE renamed(id) == IF \E i \in Updated(s) : found[s][i].id = id
                           THEN [work[id] EXCEPT !.name =
                                   Wanted(s)[CHOOSE i \in Updated(s) : found[s][i].id = id]]
                           ELSE work[id]
            row(id) == [model |-> Item(s).model, draft |-> draft[s],
                        name |-> Wanted(s)[id - next + len + 1]]
<1>6. ASSUME NEW id \in inserted PROVE row(id) \in Row
  <2>1. PICK i \in Added(s) : id = new(i)
    OBVIOUS
  <2>2. Wanted(s)[id - next + len + 1] \in Names
    BY <1>2, <1>3, <2>1
  <2>. QED BY <1>2, <2>2 DEF Row
<1>7. ASSUME NEW id \in DOMAIN work PROVE renamed(id) \in Row
  <2>1. work[id] \in Row
    BY <1>1 DEF Stored
  <2>2. CASE \E i \in Updated(s) : found[s][i].id = id
    <3>. DEFINE c == CHOOSE i \in Updated(s) : found[s][i].id = id
    <3>1. c \in Updated(s)
      BY <2>2
    <3>2. Wanted(s)[c] \in Names
      BY <1>2, <3>1 DEF Updated, Shared
    <3>. HIDE DEF c
    <3>3. [work[id] EXCEPT !.name = Wanted(s)[c]] \in Row
      BY <2>1, <3>2 DEF Row
    <3>. QED BY <2>2, <3>3 DEF c
  <2>. QED BY <2>1, <2>2
<1>8. Flushed(s, work) = [id \in ids |-> IF id \in inserted THEN row(id) ELSE renamed(id)]
  BY DEF Flushed
<1>. HIDE DEF renamed, row
<1>9. \A id \in ids : id \in inserted \/ id \in DOMAIN work
  OBVIOUS
<1>. HIDE DEF ids, inserted
<1>. QED BY <1>4, <1>5, <1>6, <1>7, <1>8, <1>9 DEF Stored

\* A save's next item, or the end of its body.
LEMMA AdvanceTypes ==
    ASSUME TypeInv, NEW s \in Saves, pc[s] \in {"write", "flush"}, Advance(s),
           body' = body, found' = found
    PROVE  pc' \in [Saves -> SavePCs] /\ DOMAIN at' = Saves /\ \A t \in Saves : SaveOK(t)'
<1>1. at[s] \in 1..Len(body[s]) /\ DOMAIN body[s] = 1..Len(body[s])
  BY ItemTypes
<1>2. CASE at[s] < Len(body[s])
  <2>1. at' = [at EXCEPT ![s] = at[s] + 1] /\ pc' = [pc EXCEPT ![s] = "query"]
    BY <1>2 DEF Advance
  <2>2. at[s] + 1 \in DOMAIN body[s]
    BY <1>1, <1>2
  <2>. QED BY <2>1, <2>2 DEF TypeInv, SaveOK, SavePCs
<1>3. CASE ~(at[s] < Len(body[s]))
  <2>1. at' = at /\ pc' = [pc EXCEPT ![s] = "commit"]
    BY <1>3 DEF Advance
  <2>. QED BY <2>1 DEF TypeInv, SaveOK, SavePCs
<1>. QED BY <1>2, <1>3

LEMMA ImageTypes == ASSUME NEW store, Stored(store) PROVE {ImageOf(store)} \in SUBSET Image
BY DEF Stored, ImageOf, Image, Row

LEMMA VisibleTypes == ASSUME TypeInv, NEW s PROVE Stored(Visible(s))
BY DEF TypeInv, Visible

\* What EXCEPT does to a function, of any domain.
LEMMA ExceptTypes ==
    ASSUME NEW S, NEW T, NEW f \in [S -> T], NEW x \in S, NEW v \in T
    PROVE  /\ [f EXCEPT ![x] = v] \in [S -> T]
           /\ [f EXCEPT ![x] = v][x] = v
           /\ \A y \in S : y # x => [f EXCEPT ![x] = v][y] = f[y]
OBVIOUS

LEMMA NextTypes == TypeInv /\ [Next]_vars => TypeInv'
<1>. SUFFICES ASSUME TypeInv, [Next]_vars PROVE TypeInv'
  OBVIOUS
<1>1. ASSUME NEW s \in Saves, Begin(s) PROVE TypeInv'
  <2>1. PICK b \in Bodies, d \in DraftFlags :
          /\ body' = [body EXCEPT ![s] = b] /\ draft' = [draft EXCEPT ![s] = d]
          /\ pc' = [pc EXCEPT ![s] = IF b = <<>> THEN "commit" ELSE "query"]
    BY <1>1 DEF Begin
  <2>2. d \in BOOLEAN /\ (b # <<>> => 1 \in DOMAIN b)
    BY OverridesAssumption DEF OverridesAssumption
  <2>3. pc[s] = "idle" /\ UNCHANGED <<rows, work, writer, at, found, alone, schema, untold>>
    BY <1>1 DEF Begin
  <2>4. \A t \in Saves : SaveOK(t)'
    BY <2>1, <2>2, <2>3 DEF TypeInv, SaveOK, SavePCs
  <2>5. pc' \in [Saves -> SavePCs]
    BY <2>1 DEF TypeInv, SavePCs
  <2>. QED BY <2>1, <2>2, <2>3, <2>4, <2>5 DEF TypeInv, Stored
<1>2. ASSUME NEW s \in Saves, Query(s) PROVE TypeInv'
  <2>1. PICK f \in Existing(Visible(s), Item(s).model) : found' = [found EXCEPT ![s] = f]
    BY <1>2 DEF Query
  <2>2. f \in Seq(Found)
    BY VisibleTypes, ExistingTypes
  <2>3. /\ pc[s] = "query" /\ pc' = [pc EXCEPT ![s] = "write"]
        /\ alone' = [alone EXCEPT ![s] = alone[s] \/ at[s] = 1]
        /\ UNCHANGED <<rows, work, writer, draft, body, at, schema, untold>>
    BY <1>2 DEF Query, Request, TypeInv
  <2>4. \A t \in Saves : SaveOK(t)'
    BY <2>1, <2>2, <2>3 DEF TypeInv, SaveOK, SavePCs
  <2>5. alone' \in [Saves -> BOOLEAN]
    BY <2>3 DEF TypeInv
  <2>6. pc' \in [Saves -> SavePCs] /\ DOMAIN found' = Saves
    BY <2>1, <2>3 DEF TypeInv, SavePCs
  <2>. QED BY <2>3, <2>4, <2>5, <2>6 DEF TypeInv, Stored
<1>3. ASSUME NEW s \in Saves, LockStore(s) PROVE TypeInv'
  <2>1. /\ pc[s] = "write" /\ pc' = [pc EXCEPT ![s] = "flush"] /\ writer' = s /\ work' = Visible(s)
        /\ UNCHANGED <<rows, draft, body, at, found, alone, schema, untold>>
    BY <1>3 DEF LockStore, Request
  <2>2. Stored(work)'
    BY <2>1, VisibleTypes DEF Stored
  <2>. QED BY <2>1, <2>2 DEF TypeInv, SaveOK, SavePCs, Stored
<1>4. ASSUME NEW s \in Saves, Flush(s) PROVE TypeInv'
  <2>1. /\ pc[s] = "flush" /\ work' = Flushed(s, work) /\ Advance(s)
        /\ UNCHANGED <<rows, writer, draft, body, found, alone, schema, untold>>
    BY <1>4 DEF Flush, Request
  <2>2. Stored(work)'
    BY <2>1, FlushedTypes DEF Stored
  <2>. QED BY <2>1, <2>2, AdvanceTypes DEF TypeInv, Stored
<1>5. ASSUME NEW s \in Saves, WriteNothing(s) PROVE TypeInv'
  <2>1. /\ pc[s] = "write" /\ Advance(s)
        /\ UNCHANGED <<rows, work, writer, draft, body, found, alone, schema, untold>>
    BY <1>5 DEF WriteNothing, Request
  <2>. QED BY <2>1, AdvanceTypes DEF TypeInv, Stored
<1>6. ASSUME NEW s \in Saves, LockTimeout(s) \/ SaveFails(s) PROVE TypeInv'
  <2>1. /\ pc' = [pc EXCEPT ![s] = "failed"] /\ writer' \in {writer, NoOne} /\ work' \in {work, NoRows}
        /\ UNCHANGED <<rows, draft, body, at, found, alone, schema, untold>>
    BY <1>6 DEF LockTimeout, SaveFails, Rollback, Request
  <2>2. Stored(NoRows)
    BY DEF Stored, NoRows
  <2>3. Stored(work)'
    BY <2>1, <2>2 DEF TypeInv, Stored
  <2>. QED BY <2>1, <2>3 DEF TypeInv, SaveOK, SavePCs, Stored
<1>7. ASSUME NEW s \in Saves, Commit(s) PROVE TypeInv'
  <2>1. /\ pc[s] = "commit" /\ pc' = [pc EXCEPT ![s] = "reload"]
        /\ UNCHANGED <<draft, body, at, found, schema>>
    BY <1>7 DEF Commit, Request
  <2>4. untold' \in [BOOLEAN -> BOOLEAN]
    BY <1>7 DEF Commit, TypeInv
  <2>2. Stored(NoRows)
    BY DEF Stored, NoRows
  <2>3. Stored(rows)' /\ Stored(work)' /\ writer' \in Saves \cup {NoOne} /\ alone' \in [Saves -> BOOLEAN]
    BY <1>7, <2>2 DEF Commit, TypeInv, Stored
  <2>. QED BY <2>1, <2>3, <2>4 DEF TypeInv, SaveOK, SavePCs
<1>8. ASSUME NEW s \in Saves, Reload(s) \/ ReloadFails(s) PROVE TypeInv'
  <2>1. /\ pc[s] = "reload" /\ (\E l \in {"done", "failed"} : pc' = [pc EXCEPT ![s] = l])
        /\ UNCHANGED <<rows, work, writer, draft, body, at, found, alone>>
    BY <1>8 DEF Reload, ReloadFails, Request
  <2>2. schema' \in [BOOLEAN -> SUBSET Image] /\ untold' \in [BOOLEAN -> BOOLEAN]
    <3>1. draft[s] \in BOOLEAN
      BY DEF TypeInv
    <3>2. CASE Reload(s)
      BY <3>1, <3>2 DEF Reload, TypeInv, NotGenerated
    <3>3. CASE ReloadFails(s)
      <4>1. CASE schema' = [d \in BOOLEAN |-> NotGenerated] /\ untold' = [d \in BOOLEAN |-> FALSE]
        BY <4>1 DEF NotGenerated
      <4>2. CASE untold' = [untold EXCEPT ![draft[s]] = TRUE] /\ UNCHANGED schema
        <5>1. [untold EXCEPT ![draft[s]] = TRUE] \in [BOOLEAN -> BOOLEAN]
          BY <3>1, ExceptTypes, Zenon DEF TypeInv
        <5>. QED BY <4>2, <5>1 DEF TypeInv
      <4>. QED BY <3>3, <4>1, <4>2 DEF ReloadFails
    <3>. QED BY <1>8, <3>2, <3>3
  <2>. QED BY <2>1, <2>2 DEF TypeInv, SaveOK, SavePCs, Stored
<1>9. ASSUME NEW d \in DraftFlags, Generate(d) PROVE TypeInv'
  <2>1. schema' = [schema EXCEPT ![d] = {ImageOf(rows)}]
        /\ UNCHANGED <<rows, work, writer, pc, draft, body, at, found, alone>>
    BY <1>9 DEF Generate, Request
  <2>2. schema' \in [BOOLEAN -> SUBSET Image] /\ untold' \in [BOOLEAN -> BOOLEAN]
    <3>1. d \in BOOLEAN /\ {ImageOf(rows)} \in SUBSET Image
      BY OverridesAssumption, ImageTypes DEF OverridesAssumption, TypeInv
    <3>2. untold' = [untold EXCEPT ![d] = FALSE]
      BY <1>9 DEF Generate
    <3>3. [untold EXCEPT ![d] = FALSE] \in [BOOLEAN -> BOOLEAN]
      BY <3>1, ExceptTypes, Zenon DEF TypeInv
    <3>4. [schema EXCEPT ![d] = {ImageOf(rows)}] \in [BOOLEAN -> SUBSET Image]
      BY <3>1, ExceptTypes, Zenon DEF TypeInv
    <3>. QED BY <2>1, <3>2, <3>3, <3>4
  <2>. QED BY <2>1, <2>2 DEF TypeInv, SaveOK, Stored
<1>10. CASE UNCHANGED vars
  BY <1>10 DEF vars, TypeInv, SaveOK, Stored
<1>. QED BY <1>1, <1>2, <1>3, <1>4, <1>5, <1>6, <1>7, <1>8, <1>9, <1>10 DEF Next, SaveStep

\* The rows keep the shape of rows, and a save stays within its body: see TypeOK
\* (save, relationship_override.py:69-105).
THEOREM TypeCorrect == Spec => []TypeOK
<1>1. TypeInv => TypeOK
  BY DEF TypeInv, TypeOK, Stored, SaveOK
<1>. QED BY <1>1, InitTypes, NextTypes, PTL DEF Spec

-----------------------------------------------------------------------------
(* The store's lock                                                        *)

\* Every step of every save keeps the lock with a save that will release it
\* (save, relationship_override.py:68-103).
THEOREM LockIsLiveAlways == Spec => []LockIsLive
<1>1. Init => LockIsLive
  BY DEF Init, LockIsLive, SavePCs
<1>2. LockIsLive /\ [Next]_vars => LockIsLive'
  <2> SUFFICES ASSUME LockIsLive, [Next]_vars PROVE LockIsLive'
    OBVIOUS
  <2> USE OverridesAssumption DEF LockIsLive, SavePCs
  <2>1. ASSUME NEW s \in Saves, Begin(s) PROVE LockIsLive'
    <3>1. /\ pc[s] = "idle" /\ writer' = writer
          /\ \E l \in {"commit", "query"} : pc' = [pc EXCEPT ![s] = l]
      BY <2>1 DEF Begin
    <3> QED BY <3>1
  <2>2. ASSUME NEW s \in Saves, Query(s) PROVE LockIsLive'
    BY <2>2 DEF Query
  <2>3. ASSUME NEW s \in Saves, Flush(s) \/ WriteNothing(s) PROVE LockIsLive'
    <3>1. /\ pc[s] \in {"write", "flush"} /\ writer' = writer
          /\ \E l \in {"commit", "query"} : pc' = [pc EXCEPT ![s] = l]
      BY <2>3 DEF Flush, WriteNothing, Advance
    <3> QED BY <3>1
  <2>4. ASSUME NEW s \in Saves, LockStore(s) \/ LockTimeout(s) \/ SaveFails(s)
        PROVE  LockIsLive'
    <3>1. CASE LockStore(s)
      <4>1. writer \in {NoOne, s} /\ writer' = s /\ pc' = [pc EXCEPT ![s] = "flush"]
        BY <3>1 DEF LockStore
      <4> QED BY <4>1
    <3>2. CASE LockTimeout(s) \/ SaveFails(s)
      <4>1. /\ pc' = [pc EXCEPT ![s] = "failed"]
            /\ writer' = IF writer = s THEN NoOne ELSE writer
        BY <3>2 DEF LockTimeout, SaveFails, Rollback
      <4> QED BY <4>1
    <3> QED BY <2>4, <3>1, <3>2
  <2>5. ASSUME NEW s \in Saves, Commit(s) PROVE LockIsLive'
    <3>1. /\ pc[s] = "commit" /\ pc' = [pc EXCEPT ![s] = "reload"]
          /\ writer' = IF writer = s THEN NoOne ELSE writer
      BY <2>5 DEF Commit
    <3> QED BY <3>1
  <2>6. ASSUME NEW s \in Saves, Reload(s) \/ ReloadFails(s) PROVE LockIsLive'
    <3>1. /\ pc[s] = "reload" /\ writer' = writer
          /\ \E l \in {"done", "failed"} : pc' = [pc EXCEPT ![s] = l]
      BY <2>6 DEF Reload, ReloadFails
    <3> QED BY <3>1
  <2>7. ASSUME NEW d \in DraftFlags, Generate(d) PROVE LockIsLive'
    BY <2>7 DEF Generate
  <2>8. CASE UNCHANGED vars
    BY <2>8 DEF vars
  <2> QED BY <2>1, <2>2, <2>3, <2>4, <2>5, <2>6, <2>7, <2>8 DEF Next, SaveStep
<1> QED BY <1>1, <1>2, PTL DEF Spec

-----------------------------------------------------------------------------
(* Schemas and rows                                                        *)

Pending(d) == \E s \in Saves : pc[s] = "reload" /\ draft[s] = d
Follows(d) == schema[d] \subseteq {ImageOf(rows)} \/ Pending(d) \/ untold[d]

\* The inductive form: a cached schema is behind the rows only while a save of its flag has
\* still to clear it, or once one that could not, or one of the other flag, is noted.
SchemaInv ==
    /\ pc \in [Saves -> SavePCs]
    /\ draft \in [Saves -> BOOLEAN]
    /\ DOMAIN schema = BOOLEAN /\ untold \in [BOOLEAN -> BOOLEAN]
    /\ \A d \in BOOLEAN : Follows(d)

LEMMA SchemaInvInit == Init => SchemaInv
BY DEF Init, SchemaInv, Follows, SavePCs, NotGenerated

\* A step that leaves rows, schemas and notes alone, and the saves that have to clear.
LEMMA FollowsElsewhere ==
    ASSUME SchemaInv, UNCHANGED <<rows, schema, untold>>,
           \A t \in Saves : pc[t] = "reload" => pc'[t] = "reload" /\ draft'[t] = draft[t]
    PROVE  \A d \in BOOLEAN : Follows(d)'
<1>1. ImageOf(rows)' = ImageOf(rows)
  BY DEF ImageOf
<1>. QED BY <1>1 DEF SchemaInv, Follows, Pending

LEMMA SchemaInvStep == SchemaInv /\ [Next]_vars => SchemaInv'
<1>. SUFFICES ASSUME SchemaInv, [Next]_vars PROVE SchemaInv'
  OBVIOUS
<1>1. ASSUME NEW s \in Saves, Begin(s) PROVE SchemaInv'
  <2>1. PICK d \in BOOLEAN, l \in {"commit", "query"} :
          /\ pc[s] = "idle" /\ UNCHANGED <<rows, schema, untold>>
          /\ pc' = [pc EXCEPT ![s] = l] /\ draft' = [draft EXCEPT ![s] = d]
    BY <1>1, OverridesAssumption DEF OverridesAssumption, Begin
  <2>2. /\ pc' \in [Saves -> SavePCs] /\ draft' \in [Saves -> BOOLEAN]
        /\ \A t \in Saves : pc[t] = "reload" => pc'[t] = "reload" /\ draft'[t] = draft[t]
    BY <2>1 DEF SchemaInv, SavePCs
  <2>. QED BY <2>1, <2>2, FollowsElsewhere DEF SchemaInv
<1>2. ASSUME NEW s \in Saves,
             Query(s) \/ LockStore(s) \/ Flush(s) \/ WriteNothing(s) \/ LockTimeout(s) \/ SaveFails(s)
      PROVE  SchemaInv'
  <2>1. /\ pc[s] \in {"query", "write", "flush", "commit"} /\ UNCHANGED <<rows, schema, untold, draft>>
        /\ \E l \in {"commit", "query", "write", "flush", "failed"} : pc' = [pc EXCEPT ![s] = l]
    BY <1>2 DEF Query, LockStore, Flush, WriteNothing, LockTimeout, SaveFails, Advance, Rollback, Request
  <2>2. /\ pc' \in [Saves -> SavePCs]
        /\ \A t \in Saves : pc[t] = "reload" => pc'[t] = "reload"
    BY <2>1 DEF SchemaInv, SavePCs
  <2>. QED BY <2>1, <2>2, FollowsElsewhere DEF SchemaInv
<1>3. ASSUME NEW s \in Saves, Commit(s) PROVE SchemaInv'
  <2>1. /\ pc[s] = "commit" /\ pc' = [pc EXCEPT ![s] = "reload"] /\ UNCHANGED <<schema, draft>>
        /\ \/ untold' = [untold EXCEPT ![~draft[s]] = TRUE]
           \/ UNCHANGED <<rows, untold>>
    BY <1>3 DEF Commit, Request
  <2>2. pc' \in [Saves -> SavePCs] /\ untold' \in [BOOLEAN -> BOOLEAN] /\ draft[s] \in BOOLEAN
    BY <2>1 DEF SchemaInv, SavePCs
  <2>3. CASE UNCHANGED <<rows, untold>>
    <3>1. \A t \in Saves : pc[t] = "reload" => pc'[t] = "reload" /\ draft'[t] = draft[t]
      BY <2>1 DEF SchemaInv
    <3>. QED BY <2>1, <2>2, <2>3, <3>1, FollowsElsewhere DEF SchemaInv
  <2>4. CASE untold' = [untold EXCEPT ![~draft[s]] = TRUE]
    <3>1. Pending(draft[s])'
      BY <2>1 DEF Pending, SchemaInv
    <3>2. untold'[~draft[s]] = TRUE
      BY <2>2, <2>4 DEF SchemaInv
    <3>3. \A d \in BOOLEAN : d = draft[s] \/ d = ~draft[s]
      BY <2>2
    <3>4. ASSUME NEW d \in BOOLEAN PROVE Follows(d)'
      <4>1. CASE d = draft[s]
        <5>1. Pending(d)'
          BY <2>1, <3>1, <4>1 DEF Pending, SchemaInv
        <5>. QED BY <5>1 DEF Follows
      <4>2. CASE d = ~draft[s]
        <5>1. untold'[d]
          BY <3>2, <4>2, Zenon
        <5>. QED BY <5>1 DEF Follows
      <4>. QED BY <3>3, <4>1, <4>2
    <3>. QED BY <2>1, <2>2, <3>4 DEF SchemaInv
  <2>. QED BY <2>1, <2>3, <2>4
<1>4. ASSUME NEW s \in Saves, Reload(s) \/ ReloadFails(s) PROVE SchemaInv'
  <2>1. /\ pc[s] = "reload" /\ UNCHANGED <<rows, draft>>
        /\ \E l \in {"done", "failed"} : pc' = [pc EXCEPT ![s] = l]
        /\ \/ schema' = [schema EXCEPT ![draft[s]] = {}] /\ untold' = [untold EXCEPT ![draft[s]] = FALSE]
           \/ schema' = [d \in BOOLEAN |-> {}] /\ untold' = [d \in BOOLEAN |-> FALSE]
           \/ untold' = [untold EXCEPT ![draft[s]] = TRUE] /\ schema' = schema
    BY <1>4 DEF Reload, ReloadFails, Request, NotGenerated
  <2>2. draft[s] \in BOOLEAN
    BY DEF SchemaInv
  <2>3. pc' \in [Saves -> SavePCs] /\ DOMAIN schema' = BOOLEAN /\ untold' \in [BOOLEAN -> BOOLEAN]
    <3>1. pc' \in [Saves -> SavePCs]
      BY <2>1 DEF SchemaInv, SavePCs
    <3>2. DOMAIN schema' = BOOLEAN
      BY <2>1 DEF SchemaInv
    <3>3. \A v \in BOOLEAN : [untold EXCEPT ![draft[s]] = v] \in [BOOLEAN -> BOOLEAN]
      BY <2>2, ExceptTypes, Zenon DEF SchemaInv
    <3>4. untold' \in [BOOLEAN -> BOOLEAN]
      BY <2>1, <3>3
    <3>. QED BY <3>1, <3>2, <3>4
  <2>4. ImageOf(rows)' = ImageOf(rows)
    BY <2>1 DEF ImageOf
  <2>5. ASSUME NEW d \in BOOLEAN PROVE Follows(d)'
    <3>1. CASE d = draft[s]
      <4>1. schema'[d] = {} \/ untold'[d] = TRUE
        BY <2>1, <2>2, <3>1 DEF SchemaInv
      <4>. QED BY <4>1 DEF Follows
    <3>2. CASE d # draft[s]
      <4>0. \A v \in BOOLEAN : [untold EXCEPT ![draft[s]] = v][d] = untold[d]
        BY <2>2, <3>2, ExceptTypes, Zenon DEF SchemaInv
      <4>1. schema'[d] = {} \/ (schema'[d] = schema[d] /\ untold'[d] = untold[d])
        BY <2>1, <2>2, <3>2, <4>0 DEF SchemaInv
      <4>2. Pending(d) => Pending(d)'
        BY <2>1, <3>2 DEF Pending, SchemaInv
      <4>. QED BY <2>4, <4>1, <4>2 DEF Follows, SchemaInv
    <3>. QED BY <3>1, <3>2
  <2>. QED BY <2>1, <2>3, <2>5 DEF SchemaInv
<1>5. ASSUME NEW f \in DraftFlags, Generate(f) PROVE SchemaInv'
  <2>1. /\ schema' = [schema EXCEPT ![f] = {ImageOf(rows)}] /\ untold' = [untold EXCEPT ![f] = FALSE]
        /\ UNCHANGED <<rows, pc, draft>>
    BY <1>5 DEF Generate, Request
  <2>2. DOMAIN schema' = BOOLEAN /\ untold' \in [BOOLEAN -> BOOLEAN]
    BY <2>1 DEF SchemaInv
  <2>3. ImageOf(rows)' = ImageOf(rows)
    BY <2>1 DEF ImageOf
  <2>4. ASSUME NEW d \in BOOLEAN PROVE Follows(d)'
    <3>1. CASE d = f
      BY <2>1, <2>3, <3>1 DEF Follows, SchemaInv
    <3>2. CASE d # f
      <4>1. schema'[d] = schema[d] /\ untold'[d] = untold[d] /\ (Pending(d) => Pending(d)')
        BY <2>1, <3>2 DEF SchemaInv, Pending
      <4>. QED BY <2>3, <4>1 DEF Follows, SchemaInv
    <3>. QED BY <3>1, <3>2
  <2>. QED BY <2>1, <2>2, <2>4 DEF SchemaInv
<1>6. CASE UNCHANGED vars
  BY <1>6, FollowsElsewhere DEF vars, SchemaInv
<1>. QED BY <1>1, <1>2, <1>3, <1>4, <1>5, <1>6 DEF Next, SaveStep

\* Over any overlapping and failing saves of drafts and published overrides, a cached schema
\* is behind the rows only by what SchemaFollowsRows names
\* (save, relationship_override.py:64-105; reload_request_graphql_schema, db.py:439-451).
THEOREM SchemaFollowsRowsAlways == Spec => []SchemaFollowsRows
<1>1. SchemaInv => SchemaFollowsRows
  BY OverridesAssumption DEF OverridesAssumption, SchemaInv, SchemaFollowsRows, Follows, Pending
<1>. QED BY SchemaInvInit, SchemaInvStep, <1>1, PTL DEF Spec

-----------------------------------------------------------------------------
(* A save on its own                                                       *)

RowsOf(store, m) == {id \in DOMAIN store : store[id].model = m}

\* The rows of a model are the same in both.
Same(store, other, m) ==
    /\ RowsOf(store, m) = RowsOf(other, m)
    /\ \A id \in RowsOf(store, m) : store[id] = other[id]

\* The rows of a model have these names, each as often as it is listed.
Holds(store, m, names) ==
    \E order \in Bijection(1..Len(names), RowsOf(store, m)) :
        \A k \in 1..Len(names) : store[order[k]].name = names[k]

\* What the items done so far have made of base: the last one that names a model decides.
Exact(items, done, store, base) ==
    \A m \in Models :
        /\ (\A k \in done : items[k].model # m) => Same(store, base, m)
        /\ \A k \in done :
               items[k].model = m /\ (\A j \in done : items[j].model = m => j <= k) =>
                   Holds(store, m, items[k].names)



\* Two lists of the same rows, both in the order of their keys, have the same keys: before
\* a smaller one the second list would have too few places.
LEMMA SortedAgree ==
    ASSUME NEW n \in Nat, NEW S, NEW key \in [S -> Nat],
           NEW p \in Bijection(1..n, S), NEW q \in Bijection(1..n, S),
           \A j, k \in 1..n : j < k => key[p[j]] <= key[p[k]],
           \A j, k \in 1..n : j < k => key[q[j]] <= key[q[k]],
           NEW i \in 1..n
    PROVE  ~(key[p[i]] < key[q[i]])
<1>. SUFFICES ASSUME key[p[i]] < key[q[i]] PROVE FALSE
  OBVIOUS
<1>. DEFINE f == [j \in 1..i |-> CHOOSE k \in 1..n : q[k] = p[j]]
<1>1. /\ p \in [1..n -> S] /\ \A a, b \in 1..n : p[a] = p[b] => a = b
      /\ q \in [1..n -> S] /\ \A t \in S : \E k \in 1..n : q[k] = t
  BY DEF Bijection, Injection, Surjection, IsInjective
<1>. HIDE DEF f
<1>2. ASSUME NEW j \in 1..i PROVE f[j] \in 1..(i - 1) /\ q[f[j]] = p[j]
  <2>1. j \in 1..n /\ p[j] \in S
    <3>1. j \in 1..n
      OBVIOUS
    <3>. QED BY <1>1, <3>1
  <2>2. f[j] \in 1..n /\ q[f[j]] = p[j]
    BY <1>1, <2>1 DEF f
  <2>. DEFINE k == f[j]
  <2>3. key[p[j]] <= key[p[i]] /\ key[p[j]] \in Nat /\ key[p[i]] \in Nat /\ key[q[i]] \in Nat
    <3>1. CASE j = i
      BY <1>1, <3>1
    <3>2. CASE j # i
      <4>1. j < i
        BY <3>2
      <4>. QED BY <1>1, <2>1, <4>1
    <3>. QED BY <3>1, <3>2
  <2>4. k \in 1..n /\ key[q[k]] < key[q[i]]
    BY <2>2, <2>3
  <2>. HIDE DEF f, k
  <2>5. ~(i < k) /\ k # i
    <3>1. CASE i < k
      <4>1. key[q[i]] <= key[q[k]]
        BY <2>4, <3>1
      <4>2. key[q[k]] \in Nat
        BY <1>1, <2>4
      <4>. QED BY <2>3, <2>4, <4>1, <4>2
    <3>2. CASE k = i
      BY <2>3, <2>4, <3>2
    <3>. QED BY <3>1, <3>2
  <2>6. k \in 1..(i - 1)
    BY <2>4, <2>5
  <2>. QED BY <2>2, <2>6 DEF k
<1>. DEFINE D == 1..i
            R == 1..(i - 1)
<1>3. f \in [D -> R]
  BY <1>2 DEF f
<1>4. IsFiniteSet(D) /\ IsFiniteSet(R) /\ Cardinality(R) < Cardinality(D)
  <2>1. 1 \in Int /\ i \in Int /\ i - 1 \in Int /\ i > 0
    OBVIOUS
  <2>2. IsFiniteSet(1..i) /\ Cardinality(1..i) = i
    BY <2>1, FS_Interval
  <2>3. IsFiniteSet(1..(i - 1)) /\ Cardinality(1..(i - 1)) = IF 1 > i - 1 THEN 0 ELSE i - 1 - 1 + 1
    BY <2>1, FS_Interval
  <2>. QED BY <2>1, <2>2, <2>3
<1>5. PICK x, y \in 1..i : x # y /\ f[x] = f[y]
  <2>. HIDE DEF D, R
  <2>1. \E x, y \in D : x # y /\ f[x] = f[y]
    BY <1>3, <1>4, FS_PigeonHole
  <2>. QED BY <2>1 DEF D
<1>6. p[x] = p[y]
  BY <1>2, <1>5
<1>7. x \in 1..n /\ y \in 1..n
  OBVIOUS
<1>. QED BY <1>1, <1>5, <1>6, <1>7

\* What a query returns: the rows of the model, each once, in the order of their names.
LEMMA ExistingIs ==
    ASSUME NEW store, Stored(store), NEW m, NEW f \in Existing(store, m)
    PROVE  /\ f \in Seq(Found) /\ IsFiniteSet(RowsOf(store, m))
           /\ Len(f) = Cardinality(RowsOf(store, m))
           /\ [k \in 1..Len(f) |-> f[k].id] \in Bijection(1..Len(f), RowsOf(store, m))
           /\ \A k \in 1..Len(f) : f[k].name = store[f[k].id].name
           /\ \A j, k \in 1..Len(f) : j < k => f[j].name <= f[k].name
<1>. DEFINE ids == RowsOf(store, m)
<1>1. PICK order \in SetToSeqs(ids) :
        /\ \A j, k \in DOMAIN order : j < k => store[order[j]].name <= store[order[k]].name
        /\ f = [k \in DOMAIN order |-> [id |-> order[k], name |-> store[order[k]].name]]
  BY DEF Existing, RowsOf
<1>2. f \in Seq(Found)
  BY ExistingTypes
<1>3. IsFiniteSet(ids) /\ Cardinality(ids) \in Nat
  <2>1. PICK n \in Nat : \A id \in DOMAIN store : id <= n
    BY DEF Stored
  <2>2. ids \in SUBSET Nat /\ \A id \in ids : id <= n
    BY <2>1 DEF Stored, RowsOf
  <2>. HIDE DEF ids
  <2>. QED BY <2>2, FS_BoundedSetOfNaturals, FS_CardinalityType
<1>. DEFINE n == Cardinality(ids)
<1>. HIDE DEF ids
<1>4. order \in [1..n -> ids] /\ \A i, j \in 1..n : i # j => order[i] # order[j]
  BY <1>1 DEF SetToSeqs
<1>5. Len(f) = n /\ DOMAIN order = 1..n
  <2>1. DOMAIN f = 1..n
    BY <1>1, <1>4
  <2>. QED BY <1>2, <1>3, <1>4, <2>1
<1>. HIDE DEF n
<1>6. order \in Injection(1..n, ids)
  BY <1>4 DEF Injection, IsInjective
<1>7. Cardinality(1..n) = Cardinality(ids)
  <2>1. n \in Int /\ n = Cardinality(ids) /\ n \in Nat
    BY <1>3 DEF n
  <2>. QED BY <2>1, FS_Interval
<1>8. order \in Bijection(1..n, ids)
  BY <1>3, <1>6, <1>7, FS_Injection DEF Bijection
<1>9. [k \in 1..Len(f) |-> f[k].id] = order
  BY <1>1, <1>4, <1>5
<1>10. \A k \in 1..n : f[k] = [id |-> order[k], name |-> store[order[k]].name]
  BY <1>1, <1>5
<1>11. Len(f) = Cardinality(ids)
  BY <1>5 DEF n
<1>12. \A k \in 1..Len(f) : f[k].name = store[f[k].id].name
  BY <1>5, <1>10
<1>13. \A j, k \in 1..Len(f) : j < k => f[j].name <= f[k].name
  BY <1>1, <1>5, <1>10
<1>14. [k \in 1..Len(f) |-> f[k].id] \in Bijection(1..Len(f), ids)
  BY <1>5, <1>8, <1>9
<1>. QED BY <1>2, <1>3, <1>11, <1>12, <1>13, <1>14 DEF ids

\* A list of a model that has these names, in their order, is the list of them.
LEMMA HoldsDecides ==
    ASSUME NEW store, Stored(store), NEW m, NEW names \in Seq(Names), Ordered(names),
           Holds(store, m, names), NEW f \in Existing(store, m)
    PROVE  [i \in DOMAIN f |-> f[i].name] = names
<1>. DEFINE S == RowsOf(store, m)
            p == [k \in 1..Len(f) |-> f[k].id]
            key == [id \in S |-> store[id].name]
            n == Len(names)
<1>1. PICK q \in Bijection(1..Len(names), RowsOf(store, m)) :
         \A k \in 1..Len(names) : store[q[k]].name = names[k]
  BY DEF Holds
<1>2. /\ f \in Seq(Found) /\ IsFiniteSet(S) /\ Len(f) = Cardinality(S)
      /\ p \in Bijection(1..Len(f), S)
      /\ \A k \in 1..Len(f) : f[k].name = store[f[k].id].name
      /\ \A j, k \in 1..Len(f) : j < k => f[j].name <= f[k].name
  BY ExistingIs
<1>3. Len(f) = n /\ n \in Nat
  <2>1. n \in Nat /\ IsFiniteSet(1..n) /\ Cardinality(1..n) = n
    <3>1. n \in Nat
      OBVIOUS
    <3>. HIDE DEF n
    <3>2. 1 \in Int /\ n \in Int
      BY <3>1
    <3>3. IsFiniteSet(1..n) /\ Cardinality(1..n) = IF 1 > n THEN 0 ELSE n - 1 + 1
      BY <3>2, FS_Interval
    <3>. QED BY <3>1, <3>3
  <2>2. Cardinality(S) = n
    <3>1. q \in Bijection(1..n, S)
      BY <1>1
    <3>. HIDE DEF S, n
    <3>2. ExistsBijection(1..n, S)
      BY <3>1 DEF ExistsBijection
    <3>. QED BY <2>1, <3>2, FS_Bijection
  <2>. QED BY <1>2, <2>1, <2>2
<1>4. key \in [S -> Nat]
  BY OverridesAssumption DEF Stored, Row, RowsOf, OverridesAssumption
<1>5. p \in [1..n -> S] /\ q \in [1..n -> S] /\ p \in Bijection(1..n, S)
  BY <1>1, <1>2, <1>3 DEF Bijection, Injection
<1>6. \A k \in 1..n : key[p[k]] = f[k].name
  <2>. TAKE k \in 1..n
  <2>1. p[k] = f[k].id /\ p[k] \in S
    BY <1>3, <1>5
  <2>. QED BY <1>2, <1>3, <2>1
<1>7. \A k \in 1..n : key[q[k]] = names[k]
  BY <1>1, <1>5
<1>8. /\ \A j, k \in 1..n : j < k => key[p[j]] <= key[p[k]]
      /\ \A j, k \in 1..n : j < k => key[q[j]] <= key[q[k]]
  <2>1. \A j, k \in 1..n : j < k => f[j].name <= f[k].name
    BY <1>2, <1>3
  <2>2. \A j, k \in 1..n : j < k => names[j] <= names[k]
    BY DEF Ordered
  <2>. HIDE DEF key, p, n
  <2>3. \A j, k \in 1..n : j < k => key[p[j]] <= key[p[k]]
    BY <1>6, <2>1
  <2>4. \A j, k \in 1..n : j < k => key[q[j]] <= key[q[k]]
    BY <1>7, <2>2
  <2>. QED BY <2>3, <2>4
<1>9. q \in Bijection(1..n, S)
  BY <1>1
<1>. HIDE DEF key, p, S, n
<1>10. \A i \in 1..n : ~(key[p[i]] < key[q[i]]) /\ ~(key[q[i]] < key[p[i]])
  BY <1>3, <1>4, <1>5, <1>8, <1>9, SortedAgree
<1>11. \A i \in 1..n : key[p[i]] = key[q[i]]
  <2>. TAKE i \in 1..n
  <2>1. key[p[i]] \in Nat /\ key[q[i]] \in Nat
    BY <1>4, <1>5, <1>9 DEF Bijection, Injection
  <2>. QED BY <1>10, <2>1
<1>12. DOMAIN f = 1..n /\ DOMAIN names = 1..n
  BY <1>2, <1>3 DEF n
<1>13. \A i \in 1..n : f[i].name = names[i]
  BY <1>6, <1>7, <1>11
<1>14. [i \in DOMAIN f |-> f[i].name] = [i \in 1..n |-> names[i]]
  BY <1>12, <1>13
<1>. QED BY <1>12, <1>14

LEMMA SameExisting ==
    ASSUME NEW store, NEW other, NEW m, Same(store, other, m)
    PROVE  Existing(store, m) = Existing(other, m)
<1>. DEFINE ids == RowsOf(store, m)
<1>1. ids = {id \in DOMAIN store : store[id].model = m} /\ ids = {id \in DOMAIN other : other[id].model = m}
  BY DEF Same, RowsOf
<1>2. \A o \in SetToSeqs(ids) : \A k \in DOMAIN o : store[o[k]] = other[o[k]]
  BY DEF SetToSeqs, Same
<1>. DEFINE fits(st, o) == \A j, k \in DOMAIN o : j < k => st[o[j]].name <= st[o[k]].name
            list(st, o) == [k \in DOMAIN o |-> [id |-> o[k], name |-> st[o[k]].name]]
<1>3. \A o \in SetToSeqs(ids) : (fits(store, o) <=> fits(other, o)) /\ list(store, o) = list(other, o)
  BY <1>2
<1>4. Existing(store, m) = {list(store, o) : o \in {o \in SetToSeqs(ids) : fits(store, o)}}
  BY <1>1 DEF Existing
<1>5. Existing(other, m) = {list(other, o) : o \in {o \in SetToSeqs(ids) : fits(other, o)}}
  BY <1>1 DEF Existing
<1>. HIDE DEF ids, fits, list
<1>. QED BY <1>3, <1>4, <1>5

LEMMA SameHolds ==
    ASSUME NEW store, NEW other, NEW m, NEW names, Same(store, other, m), Holds(other, m, names)
    PROVE  Holds(store, m, names)
<1>1. PICK order \in Bijection(1..Len(names), RowsOf(other, m)) :
        \A k \in 1..Len(names) : other[order[k]].name = names[k]
  BY DEF Holds
<1>2. order \in Bijection(1..Len(names), RowsOf(store, m)) /\ order \in [1..Len(names) -> RowsOf(store, m)]
  BY <1>1 DEF Same, Bijection, Injection
<1>3. \A k \in 1..Len(names) : store[order[k]].name = names[k]
  BY <1>1, <1>2 DEF Same
<1>. QED BY <1>2, <1>3 DEF Holds

LEMMA SameTrans ==
    ASSUME NEW a, NEW b, NEW c, NEW m, Same(a, b, m), Same(b, c, m)
    PROVE  Same(a, c, m)
BY DEF Same

\* Positions of an item in which a row gets another name, is added or is surplus.
LEMMA Positions ==
    ASSUME TypeInv, NEW s \in Saves, pc[s] \in {"write", "flush"}
    PROVE  /\ DOMAIN Wanted(s) = 1..Len(Wanted(s)) /\ DOMAIN found[s] = 1..Len(found[s])
           /\ Len(Wanted(s)) \in Nat /\ Len(found[s]) \in Nat
           /\ \A i : i \in Shared(s) <=> i \in 1..Len(Wanted(s)) /\ i <= Len(found[s])
           /\ \A i : i \in Added(s) <=> i \in 1..Len(Wanted(s)) /\ ~(i <= Len(found[s]))
<1>1. Wanted(s) \in Seq(Names) /\ found[s] \in Seq(Found)
  BY ItemTypes
<1>. QED BY <1>1 DEF Shared, Added

\* A flush gives the item's model the names wanted, row by row, and no other model any.
LEMMA FlushedRows ==
    ASSUME TypeInv, NEW s \in Saves, pc[s] = "flush", found[s] \in Existing(work, Item(s).model)
    PROVE  /\ Holds(Flushed(s, work), Item(s).model, Wanted(s))
           /\ \A m : m # Item(s).model => Same(Flushed(s, work), work, m)
<1>. DEFINE f == found[s]
            w == Wanted(s)
            l == Len(f)
            n == Len(w)
            m0 == Item(s).model
            next == NextId(work)
            new(i) == next + i - l - 1
            inserted == {new(i) : i \in Added(s)}
            ids == (DOMAIN work \cup inserted) \ Surplus(s)
            renamed(id) == IF \E i \in Updated(s) : f[i].id = id
                           THEN [work[id] EXCEPT !.name = w[CHOOSE i \in Updated(s) : f[i].id = id]]
                           ELSE work[id]
            row(id) == [model |-> m0, draft |-> draft[s], name |-> w[id - next + l + 1]]
            after == Flushed(s, work)
            own == RowsOf(work, m0)
<1>1. after = [id \in ids |-> IF id \in inserted THEN row(id) ELSE renamed(id)]
  BY DEF Flushed
<1>2. /\ Stored(work) /\ next \in Nat \ {0} /\ \A id \in DOMAIN work : id \in Nat /\ id < next
      /\ \A id \in DOMAIN work : work[id] \in Row
  BY NextIdTypes DEF TypeInv, Stored
<1>3. /\ DOMAIN w = 1..n /\ DOMAIN f = 1..l /\ n \in Nat /\ l \in Nat
      /\ \A i : i \in Shared(s) <=> i \in 1..n /\ i <= l
      /\ \A i : i \in Added(s) <=> i \in 1..n /\ ~(i <= l)
  BY Positions
<1>4. /\ \A i \in 1..l : f[i].id \in own /\ f[i].name = work[f[i].id].name
      /\ \A i, j \in 1..l : f[i].id = f[j].id => i = j
      /\ \A id \in own : \E i \in 1..l : f[i].id = id
  <2>. DEFINE g == [k \in 1..Len(f) |-> f[k].id]
  <2>1. g \in Bijection(1..l, own) /\ \A k \in 1..Len(f) : f[k].name = work[f[k].id].name
    <3>1. f \in Existing(work, m0)
      OBVIOUS
    <3>. HIDE DEF f, m0, next, w
    <3>. QED BY <1>2, <3>1, ExistingIs
  <2>2. \A k \in 1..l : g[k] = f[k].id
    OBVIOUS
  <2>. HIDE DEF g, f, l, own
  <2>3. /\ \A i \in 1..l : g[i] \in own
        /\ \A i, j \in 1..l : g[i] = g[j] => i = j
        /\ \A id \in own : \E i \in 1..l : g[i] = id
    BY <2>1 DEF Bijection, Injection, Surjection, IsInjective
  <2>4. \A k \in 1..l : f[k].name = work[f[k].id].name
    BY <2>1 DEF l
  <2>. QED BY <2>2, <2>3, <2>4
<1>5. own \subseteq DOMAIN work /\ \A id \in DOMAIN work : id \in own <=> work[id].model = m0
  BY DEF RowsOf
<1>6. ASSUME NEW i \in Added(s)
      PROVE  new(i) \in Nat /\ new(i) >= next /\ new(i) - next + l + 1 = i /\ new(i) \notin DOMAIN work
  <2>1. i \in Nat /\ i > l
    BY <1>3
  <2>2. next \in Nat /\ l \in Nat
    BY <1>2, <1>3
  <2>. HIDE DEF next, l
  <2>3. new(i) \in Nat /\ new(i) >= next /\ new(i) - next + l + 1 = i
    BY <2>1, <2>2
  <2>. HIDE DEF new
  <2>. QED BY <1>2, <2>2, <2>3
<1>7. Surplus(s) \subseteq own /\ \A i \in 1..l : f[i].id \in Surplus(s) <=> i \notin 1..n
  <2>1. Surplus(s) = {f[i].id : i \in (1..l) \ (1..n)}
    BY <1>3 DEF Surplus
  <2>. HIDE DEF f, l, n, own
  <2>. QED BY <1>4, <2>1
<1>8. \A id \in inserted : id \notin DOMAIN work /\ id \notin Surplus(s)
  BY <1>5, <1>6, <1>7
<1>9. ASSUME NEW i \in Shared(s) PROVE renamed(f[i].id).name = w[i] /\ renamed(f[i].id).model = m0
  <2>1. f[i].id \in DOMAIN work /\ work[f[i].id] \in Row /\ work[f[i].id].model = m0 /\ i \in 1..l
    BY <1>2, <1>3, <1>4, <1>5
  <2>2. Updated(s) \subseteq 1..l
    BY <1>3 DEF Updated
  <2>3. CASE i \in Updated(s)
    <3>1. (CHOOSE j \in Updated(s) : f[j].id = f[i].id) = i
      BY <1>4, <2>2, <2>3
    <3>2. renamed(f[i].id) = [work[f[i].id] EXCEPT !.name = w[i]]
      BY <2>3, <3>1
    <3>. QED BY <2>1, <3>2 DEF Row
  <2>4. CASE i \notin Updated(s)
    <3>1. ~\E j \in Updated(s) : f[j].id = f[i].id
      BY <1>4, <2>1, <2>2, <2>4
    <3>2. f[i].name = w[i]
      BY <2>4 DEF Updated
    <3>. QED BY <1>4, <2>1, <3>1, <3>2
  <2>. QED BY <2>3, <2>4
<1>10. ASSUME NEW id \in DOMAIN work, id \notin own PROVE renamed(id) = work[id] /\ id \in ids /\ id \notin inserted
  <2>1. Updated(s) \subseteq 1..l
    BY <1>3 DEF Updated
  <2>2. ~\E i \in Updated(s) : f[i].id = id
    BY <1>4, <1>10, <2>1
  <2>. QED BY <1>7, <1>8, <1>10, <2>2
<1>11. ids \cap own = {f[i].id : i \in Shared(s)}
  <2>1. \A id \in own : id \in ids <=> id \notin Surplus(s)
    BY <1>5
  <2>. HIDE DEF ids, own, f, l, n
  <2>2. \A i \in 1..l : f[i].id \in ids \cap own <=> i \in 1..n
    BY <1>4, <1>7, <2>1
  <2>3. \A i \in 1..l : i \in 1..n <=> i \in Shared(s)
    BY <1>3
  <2>4. \A i \in Shared(s) : i \in 1..l
    BY <1>3
  <2>. QED BY <1>4, <2>2, <2>3, <2>4
<1>. HIDE DEF renamed, row, new, next, after, own, ids, inserted, l, n, f, w, m0
<1>12. ASSUME NEW id \in inserted PROVE after[id].model = m0 /\ id \in ids
  BY <1>1, <1>8 DEF row, ids
<1>13. ids \subseteq DOMAIN work \cup inserted /\ DOMAIN after = ids
  BY <1>1 DEF ids
<1>14. ASSUME NEW id \in ids, id \notin inserted, id \in own PROVE after[id] = renamed(id) /\ after[id].model = m0
  <2>1. PICK i \in Shared(s) : id = f[i].id
    BY <1>11, <1>14
  <2>. QED BY <1>1, <1>9, <1>14, <2>1
<1>15. ASSUME NEW id \in DOMAIN work, id \notin own PROVE after[id] = work[id] /\ after[id].model # m0
  BY <1>1, <1>5, <1>10, <1>15
<1>16. RowsOf(after, m0) = inserted \cup {f[i].id : i \in Shared(s)}
  <2>1. RowsOf(after, m0) = {id \in ids : after[id].model = m0}
    BY <1>13 DEF RowsOf
  <2>2. \A id \in ids : after[id].model = m0 <=> id \in inserted \/ id \in own
    BY <1>12, <1>13, <1>14, <1>15
  <2>3. inserted \subseteq ids
    BY <1>12
  <2>. QED BY <1>11, <2>1, <2>2, <2>3
<1>. DEFINE order == [k \in 1..n |-> IF k <= l THEN f[k].id ELSE new(k)]
<1>17. \A k \in 1..n : (k <= l /\ k \in Shared(s) /\ k \in 1..l) \/ (~(k <= l) /\ k \in Added(s))
  BY <1>3
<1>18. order \in [1..n -> RowsOf(after, m0)]
  BY <1>16, <1>17 DEF inserted
<1>19. \A j, k \in 1..n : order[j] = order[k] => j = k
  <2>. SUFFICES ASSUME NEW j \in 1..n, NEW k \in 1..n, order[j] = order[k] PROVE j = k
    OBVIOUS
  <2>1. CASE j <= l /\ k <= l
    BY <1>4, <1>17, <2>1
  <2>2. CASE ~(j <= l) /\ ~(k <= l)
    <3>1. new(j) = new(k) /\ j \in Added(s) /\ k \in Added(s)
      BY <1>17, <2>2
    <3>. QED BY <1>6, <3>1
  <2>3. CASE (j <= l /\ ~(k <= l)) \/ (~(j <= l) /\ k <= l)
    <3>1. \A i \in 1..l : f[i].id \in DOMAIN work
      BY <1>4, <1>5
    <3>. QED BY <1>6, <1>17, <2>3, <3>1
  <2>. QED BY <2>1, <2>2, <2>3
<1>20. \A id \in RowsOf(after, m0) : \E k \in 1..n : order[k] = id
  <2>. TAKE id \in RowsOf(after, m0)
  <2>1. CASE id \in inserted
    <3>1. PICK i \in Added(s) : id = new(i)
      BY <2>1 DEF inserted
    <3>2. i \in 1..n /\ order[i] = id
      BY <1>3, <3>1
    <3>. QED BY <3>2
  <2>2. CASE id \in {f[i].id : i \in Shared(s)}
    <3>1. PICK i \in Shared(s) : id = f[i].id
      BY <2>2
    <3>2. i \in 1..n /\ order[i] = id
      BY <1>3, <3>1
    <3>. QED BY <3>2
  <2>. QED BY <1>16, <2>1, <2>2
<1>21. \A k \in 1..n : after[order[k]].name = w[k]
  <2>. TAKE k \in 1..n
  <2>1. CASE k <= l
    <3>1. k \in Shared(s) /\ order[k] = f[k].id /\ k \in 1..l
      BY <1>17, <2>1
    <3>2. f[k].id \in ids /\ f[k].id \in own
      BY <1>11, <3>1
    <3>3. f[k].id \notin inserted
      BY <1>5, <1>8, <3>2
    <3>. QED BY <1>9, <1>14, <3>1, <3>2, <3>3
  <2>2. CASE ~(k <= l)
    <3>1. k \in Added(s) /\ order[k] = new(k)
      BY <1>17, <2>2
    <3>2. new(k) \in inserted /\ new(k) \in ids
      BY <1>12, <3>1 DEF inserted
    <3>3. after[new(k)] = row(new(k))
      BY <1>1, <3>2
    <3>. QED BY <1>6, <3>1, <3>3 DEF row
  <2>. QED BY <2>1, <2>2
<1>22. order \in Bijection(1..n, RowsOf(after, m0))
  <2>. HIDE DEF order
  <2>. QED BY <1>18, <1>19, <1>20 DEF Bijection, Injection, Surjection, IsInjective
<1>23. Holds(after, m0, w)
  BY <1>21, <1>22 DEF Holds, n
<1>24. ASSUME NEW m, m # m0 PROVE Same(after, work, m)
  <2>1. \A id \in RowsOf(work, m) : id \in DOMAIN work /\ id \notin own
    BY <1>5, <1>24 DEF RowsOf
  <2>2. \A id \in RowsOf(work, m) : id \in RowsOf(after, m) /\ after[id] = work[id]
    BY <1>10, <1>13, <1>15, <2>1 DEF RowsOf
  <2>3. \A id \in RowsOf(after, m) : id \in RowsOf(work, m)
    <3>. TAKE id \in RowsOf(after, m)
    <3>1. id \in ids /\ after[id].model # m0 /\ after[id].model = m
      BY <1>13, <1>24 DEF RowsOf
    <3>2. id \notin inserted /\ id \in DOMAIN work
      BY <1>12, <1>13, <3>1
    <3>3. id \notin own
      BY <1>14, <3>1, <3>2
    <3>. QED BY <1>15, <3>1, <3>2, <3>3 DEF RowsOf
  <2>. QED BY <2>2, <2>3 DEF Same
<1>. QED BY <1>23, <1>24 DEF after, m0, w

\* An item that changes nothing finds the names it wants.
LEMMA NothingToWrite ==
    ASSUME TypeInv, NEW s \in Saves, pc[s] = "write", Unchanged(s),
           found[s] \in Existing(Visible(s), Item(s).model)
    PROVE  Holds(Visible(s), Item(s).model, Wanted(s))
<1>. DEFINE f == found[s]
            w == Wanted(s)
            store == Visible(s)
            m0 == Item(s).model
            g == [k \in 1..Len(f) |-> f[k].id]
<1>1. /\ DOMAIN w = 1..Len(w) /\ DOMAIN f = 1..Len(f) /\ Len(w) \in Nat /\ Len(f) \in Nat
      /\ \A i : i \in Shared(s) <=> i \in 1..Len(w) /\ i <= Len(f)
      /\ \A i : i \in Added(s) <=> i \in 1..Len(w) /\ ~(i <= Len(f))
  BY Positions
<1>2. Stored(store)
  BY VisibleTypes
<1>3. g \in Bijection(1..Len(f), RowsOf(store, m0)) /\ \A k \in 1..Len(f) : f[k].name = store[f[k].id].name
  <2>1. f \in Existing(store, m0)
    OBVIOUS
  <2>. HIDE DEF f, store, m0
  <2>. QED BY <1>2, <2>1, ExistingIs
<1>4. Added(s) = {} /\ Surplus(s) = {} /\ Updated(s) = {}
  BY DEF Unchanged
<1>5. DOMAIN f \subseteq DOMAIN w /\ DOMAIN w \subseteq DOMAIN f
  BY <1>4 DEF Added, Surplus
<1>6. Len(f) = Len(w)
  BY <1>1, <1>5
<1>7. \A k \in 1..Len(w) : f[k].name = w[k]
  BY <1>1, <1>4, <1>6 DEF Updated
<1>8. \A k \in 1..Len(w) : g[k] = f[k].id
  BY <1>6
<1>. HIDE DEF g, f, w, store, m0
<1>9. g \in Bijection(1..Len(w), RowsOf(store, m0)) /\ \A k \in 1..Len(w) : store[g[k]].name = w[k]
  BY <1>3, <1>6, <1>7, <1>8
<1>. QED BY <1>9 DEF Holds, store, m0, w

\* One more item: its model has its names, and what the earlier ones made stays.
LEMMA ExactAdvances ==
    ASSUME NEW items, NEW n \in Nat \ {0}, NEW store, NEW new, NEW base,
           Exact(items, 1..(n - 1), store, base),
           Holds(new, items[n].model, items[n].names),
           \A m : m # items[n].model => Same(new, store, m)
    PROVE  Exact(items, 1..n, new, base)
<1>. SUFFICES ASSUME NEW m \in Models
     PROVE  /\ (\A k \in 1..n : items[k].model # m) => Same(new, base, m)
            /\ \A k \in 1..n :
                   items[k].model = m /\ (\A j \in 1..n : items[j].model = m => j <= k) =>
                       Holds(new, m, items[k].names)
  BY DEF Exact
<1>1. n \in 1..n /\ 1..(n - 1) \subseteq 1..n
  OBVIOUS
<1>2. CASE items[n].model = m
  <2>1. ASSUME NEW k \in 1..n, \A j \in 1..n : items[j].model = m => j <= k PROVE k = n
    BY <1>1, <1>2, <2>1
  <2>. QED BY <1>1, <1>2, <2>1
<1>3. CASE items[n].model # m
  <2>1. Same(new, store, m)
    BY <1>3
  <2>2. ASSUME \A k \in 1..n : items[k].model # m PROVE Same(new, base, m)
    <3>1. Same(store, base, m)
      BY <1>1, <2>2 DEF Exact
    <3>. QED BY <2>1, <3>1, SameTrans
  <2>3. ASSUME NEW k \in 1..n, items[k].model = m, \A j \in 1..n : items[j].model = m => j <= k
        PROVE  Holds(new, m, items[k].names)
    <3>1. k # n
      BY <1>3, <2>3
    <3>2. k \in 1..(n - 1)
      BY <3>1
    <3>3. Holds(store, m, items[k].names)
      BY <1>1, <2>3, <3>2 DEF Exact
    <3>. QED BY <2>1, <3>3, SameHolds
  <2>. QED BY <2>2, <2>3
<1>. QED BY <1>2, <1>3

\* The items whose changes a save has written, or found to be none.
Done(s) == IF pc[s] = "commit" THEN 1..Len(body[s]) ELSE 1..(at[s] - 1)

\* What a save that is alone has made of the committed rows, and what it knows of them.
LoneOK(s) ==
    /\ pc[s] = "query" /\ at[s] = 1 => writer # s
    /\ alone[s] /\ pc[s] \in {"query", "write", "flush", "commit"} =>
           Exact(body[s], Done(s), Visible(s), rows)
    /\ alone[s] /\ pc[s] \in {"write", "flush"} => found[s] \in Existing(Visible(s), Item(s).model)

LoneInv == LockIsLive /\ \A s \in Saves : LoneOK(s)

LEMMA SameIsReflexive == ASSUME NEW store, NEW m PROVE Same(store, store, m)
BY DEF Same

LEMMA NothingDone == ASSUME NEW items, NEW store PROVE Exact(items, {}, store, store)
BY SameIsReflexive DEF Exact

\* What a step of one save must leave of another's.
LEMMA Elsewhere ==
    ASSUME TypeInv, NEW t \in Saves, LoneOK(t),
           pc'[t] = pc[t], at'[t] = at[t], body'[t] = body[t], found'[t] = found[t],
           writer' = t => writer = t,
           \/ ~alone'[t]
           \/ alone'[t] = alone[t] /\ rows' = rows /\ Visible(t)' = Visible(t)
    PROVE  LoneOK(t)'
<1>1. Done(t)' = Done(t) /\ Item(t)' = Item(t)
  BY DEF Done, Item
<1>. QED BY <1>1 DEF LoneOK

LEMMA LoneInit == Init => LoneInv
BY OverridesAssumption DEF Init, LoneInv, LoneOK, LockIsLive, SavePCs

\* After an item: what it did, added to what the earlier ones had done.
LEMMA LoneAdvance ==
    ASSUME TypeInv, NEW s \in Saves, pc[s] \in {"write", "flush"}, LoneOK(s), Advance(s),
           body' = body, rows' = rows, writer' = writer, alone' = alone,
           alone[s] => /\ Holds(Visible(s)', Item(s).model, Wanted(s))
                       /\ \A m : m # Item(s).model => Same(Visible(s)', Visible(s), m)
    PROVE  LoneOK(s)'
<1>. DEFINE n == at[s]
<1>1. n \in 1..Len(body[s])
  BY ItemTypes
<1>2. n \in Nat \ {0} /\ n - 1 \in Nat
  BY <1>1
<1>3. /\ pc'[s] = IF n < Len(body[s]) THEN "query" ELSE "commit"
      /\ at'[s] = IF n < Len(body[s]) THEN n + 1 ELSE n
  BY DEF Advance, TypeInv
<1>4. Done(s) = 1..(n - 1) /\ Done(s)' = 1..n
  <2>1. CASE n < Len(body[s])
    BY <1>2, <1>3, <2>1 DEF Done
  <2>2. CASE ~(n < Len(body[s]))
    <3>1. n = Len(body[s])
      BY <1>1, <2>2
    <3>. QED BY <1>3, <2>2, <3>1 DEF Done
  <2>. QED BY <2>1, <2>2
<1>5. ASSUME alone[s] PROVE Exact(body[s], Done(s)', Visible(s)', rows)
  <2>1. Exact(body[s], 1..(n - 1), Visible(s), rows)
    BY <1>4, <1>5 DEF LoneOK
  <2>2. Item(s) = body[s][n] /\ Wanted(s) = body[s][n].names
    BY DEF Item, Wanted
  <2>. HIDE DEF n
  <2>. QED BY <1>2, <1>4, <1>5, <2>1, <2>2, ExactAdvances
<1>6. pc'[s] = "query" => at'[s] # 1
  BY <1>2, <1>3
<1>. QED BY <1>3, <1>5, <1>6 DEF LoneOK

LEMMA LoneNext == TypeInv /\ LockIsLive' /\ LoneInv /\ [Next]_vars => LoneInv'
<1>. SUFFICES ASSUME TypeInv, LockIsLive', LoneInv, [Next]_vars PROVE \A t \in Saves : LoneOK(t)'
  BY DEF LoneInv
<1>1. ASSUME NEW s \in Saves, Begin(s), NEW t \in Saves PROVE LoneOK(t)'
  <2>1. PICK b \in Bodies, d \in DraftFlags :
          /\ body' = [body EXCEPT ![s] = b]
          /\ pc' = [pc EXCEPT ![s] = IF b = <<>> THEN "commit" ELSE "query"]
    BY <1>1 DEF Begin
  <2>2. pc[s] = "idle" /\ UNCHANGED <<rows, work, writer, at, found, alone>>
    BY <1>1 DEF Begin
  <2>3. CASE t # s
    <3>1. pc'[t] = pc[t] /\ body'[t] = body[t] /\ Visible(t)' = Visible(t)
      BY <2>1, <2>2, <2>3 DEF TypeInv, Visible
    <3>. QED BY <2>2, <3>1, Elsewhere DEF LoneInv
  <2>4. CASE t = s
    <3>1. writer # s /\ at[s] = 1
      BY <2>2, OverridesAssumption DEF LoneInv, LockIsLive, TypeInv, SaveOK
    <3>2. Visible(s)' = rows
      BY <2>2, <3>1 DEF Visible
    <3>3. body'[s] = b /\ pc'[s] = IF b = <<>> THEN "commit" ELSE "query"
      BY <2>1 DEF TypeInv
    <3>4. Done(s)' = {}
      BY <2>2, <3>1, <3>3 DEF Done
    <3>. QED BY <2>2, <2>4, <3>1, <3>2, <3>3, <3>4, NothingDone DEF LoneOK
  <2>. QED BY <2>3, <2>4
<1>2. ASSUME NEW s \in Saves, Query(s), NEW t \in Saves PROVE LoneOK(t)'
  <2>1. PICK f \in Existing(Visible(s), Item(s).model) : found' = [found EXCEPT ![s] = f]
    BY <1>2 DEF Query
  <2>2. /\ pc[s] = "query" /\ pc' = [pc EXCEPT ![s] = "write"]
        /\ alone' = [alone EXCEPT ![s] = alone[s] \/ at[s] = 1]
        /\ UNCHANGED <<rows, work, writer, body, at>>
    BY <1>2 DEF Query, Request
  <2>3. CASE t # s
    <3>1. /\ pc'[t] = pc[t] /\ found'[t] = found[t] /\ alone'[t] = alone[t]
          /\ Visible(t)' = Visible(t)
      BY <2>1, <2>2, <2>3 DEF TypeInv, Visible
    <3>. QED BY <2>2, <3>1, Elsewhere DEF LoneInv
  <2>4. CASE t = s
    <3>1. /\ pc'[s] = "write" /\ found'[s] = f /\ Item(s)' = Item(s) /\ Visible(s)' = Visible(s)
          /\ Done(s)' = Done(s) /\ Done(s) = 1..(at[s] - 1)
          /\ alone'[s] = (alone[s] \/ at[s] = 1)
      BY <2>1, <2>2 DEF TypeInv, Item, Visible, Done
    <3>2. CASE at[s] = 1
      <4>1. Visible(s) = rows /\ Done(s) = {}
        BY <2>2, <3>1, <3>2 DEF LoneInv, LoneOK, Visible
      <4>. QED BY <2>2, <2>4, <3>1, <4>1, NothingDone DEF LoneOK
    <3>3. CASE at[s] # 1
      <4>1. alone'[s] => Exact(body[s], Done(s), Visible(s), rows)
        BY <2>2, <3>1, <3>3 DEF LoneInv, LoneOK
      <4>. QED BY <2>2, <2>4, <3>1, <4>1 DEF LoneOK
    <3>. QED BY <3>2, <3>3
  <2>. QED BY <2>3, <2>4
<1>3. ASSUME NEW s \in Saves, LockStore(s), NEW t \in Saves PROVE LoneOK(t)'
  <2>1. /\ pc[s] = "write" /\ pc' = [pc EXCEPT ![s] = "flush"] /\ writer' = s /\ work' = Visible(s)
        /\ writer \in {NoOne, s} /\ UNCHANGED <<rows, body, at, found, alone>>
    BY <1>3 DEF LockStore, Request
  <2>2. CASE t # s
    <3>1. pc'[t] = pc[t] /\ Visible(t)' = Visible(t) /\ writer' # t
      BY <2>1, <2>2, OverridesAssumption DEF TypeInv, Visible
    <3>. QED BY <2>1, <3>1, Elsewhere DEF LoneInv
  <2>3. CASE t = s
    <3>1. /\ pc'[s] = "flush" /\ Visible(s)' = Visible(s) /\ Done(s)' = Done(s) /\ Item(s)' = Item(s)
      BY <2>1 DEF TypeInv, Visible, Done, Item
    <3>. QED BY <2>1, <2>3, <3>1 DEF LoneInv, LoneOK
  <2>. QED BY <2>2, <2>3
<1>4. ASSUME NEW s \in Saves, Flush(s), NEW t \in Saves PROVE LoneOK(t)'
  <2>1. /\ pc[s] = "flush" /\ work' = Flushed(s, work) /\ Advance(s)
        /\ UNCHANGED <<rows, writer, body, found, alone>>
    BY <1>4 DEF Flush, Request
  <2>2. writer = s
    BY <2>1 DEF LoneInv, LockIsLive
  <2>3. CASE t # s
    <3>1. pc'[t] = pc[t] /\ at'[t] = at[t] /\ Visible(t)' = Visible(t)
      BY <2>1, <2>2, <2>3 DEF TypeInv, Visible, Advance
    <3>. QED BY <2>1, <3>1, Elsewhere DEF LoneInv
  <2>4. CASE t = s
    <3>1. Visible(s) = work /\ Visible(s)' = Flushed(s, work)
      BY <2>1, <2>2 DEF Visible
    <3>2. alone[s] => found[s] \in Existing(work, Item(s).model)
      BY <2>1, <3>1 DEF LoneInv, LoneOK
    <3>3. alone[s] => /\ Holds(Visible(s)', Item(s).model, Wanted(s))
                      /\ \A m : m # Item(s).model => Same(Visible(s)', Visible(s), m)
      BY <2>1, <3>1, <3>2, FlushedRows
    <3>. QED BY <2>1, <2>4, <3>3, LoneAdvance DEF LoneInv
  <2>. QED BY <2>3, <2>4
<1>5. ASSUME NEW s \in Saves, WriteNothing(s), NEW t \in Saves PROVE LoneOK(t)'
  <2>1. /\ pc[s] = "write" /\ Unchanged(s) /\ Advance(s)
        /\ UNCHANGED <<rows, work, writer, body, found, alone>>
    BY <1>5 DEF WriteNothing, Request
  <2>2. Visible(t)' = Visible(t)
    BY <2>1 DEF Visible
  <2>3. CASE t # s
    <3>1. pc'[t] = pc[t] /\ at'[t] = at[t]
      BY <2>1, <2>3 DEF TypeInv, Advance
    <3>. QED BY <2>1, <2>2, <3>1, Elsewhere DEF LoneInv
  <2>4. CASE t = s
    <3>1. alone[s] => found[s] \in Existing(Visible(s), Item(s).model)
      BY <2>1 DEF LoneInv, LoneOK
    <3>2. alone[s] => /\ Holds(Visible(s)', Item(s).model, Wanted(s))
                      /\ \A m : m # Item(s).model => Same(Visible(s)', Visible(s), m)
      BY <2>1, <2>2, <2>4, <3>1, NothingToWrite, SameIsReflexive
    <3>. QED BY <2>1, <2>4, <3>2, LoneAdvance DEF LoneInv
  <2>. QED BY <2>3, <2>4
<1>6. ASSUME NEW s \in Saves, LockTimeout(s) \/ SaveFails(s), NEW t \in Saves PROVE LoneOK(t)'
  <2>1. /\ pc' = [pc EXCEPT ![s] = "failed"] /\ UNCHANGED <<rows, body, at, found, alone>>
        /\ writer' = IF writer = s THEN NoOne ELSE writer
        /\ work' = IF writer = s THEN NoRows ELSE work
    BY <1>6 DEF LockTimeout, SaveFails, Rollback, Request
  <2>2. CASE t # s
    <3>1. pc'[t] = pc[t] /\ Visible(t)' = Visible(t) /\ (writer' = t => writer = t)
      BY <2>1, <2>2, OverridesAssumption DEF TypeInv, Visible
    <3>. QED BY <2>1, <3>1, Elsewhere DEF LoneInv
  <2>3. CASE t = s
    BY <2>1, <2>3 DEF TypeInv, LoneOK
  <2>. QED BY <2>2, <2>3
<1>7. ASSUME NEW s \in Saves, Commit(s), NEW t \in Saves PROVE LoneOK(t)'
  <2>1. pc' = [pc EXCEPT ![s] = "reload"] /\ UNCHANGED <<body, at, found>>
    BY <1>7 DEF Commit, Request
  <2>2. CASE t # s
    <3>1. pc'[t] = pc[t]
      BY <2>1, <2>2 DEF TypeInv
    <3>2. CASE writer = s
      <4>1. writer' = NoOne /\ ~alone'[t]
        BY <1>7, <2>2, <3>2 DEF Commit
      <4>2. writer' # t
        BY <4>1, OverridesAssumption
      <4>. QED BY <2>1, <3>1, <4>1, <4>2, Elsewhere DEF LoneInv
    <3>3. CASE writer # s
      <4>1. UNCHANGED <<rows, work, writer, alone>>
        BY <1>7, <3>3 DEF Commit
      <4>2. Visible(t)' = Visible(t)
        BY <4>1 DEF Visible
      <4>. QED BY <2>1, <3>1, <4>1, <4>2, Elsewhere DEF LoneInv
    <3>. QED BY <3>2, <3>3
  <2>3. CASE t = s
    BY <2>1, <2>3 DEF TypeInv, LoneOK
  <2>. QED BY <2>2, <2>3
<1>8. ASSUME NEW s \in Saves, Reload(s) \/ ReloadFails(s), NEW t \in Saves PROVE LoneOK(t)'
  <2>1. /\ \E l \in {"done", "failed"} : pc' = [pc EXCEPT ![s] = l]
        /\ UNCHANGED <<rows, work, writer, body, at, found, alone>>
    BY <1>8 DEF Reload, ReloadFails, Request
  <2>2. Visible(t)' = Visible(t)
    BY <2>1 DEF Visible
  <2>3. CASE t # s
    <3>1. pc'[t] = pc[t]
      BY <2>1, <2>3 DEF TypeInv
    <3>. QED BY <2>1, <2>2, <3>1, Elsewhere DEF LoneInv
  <2>4. CASE t = s
    BY <2>1, <2>4 DEF TypeInv, LoneOK
  <2>. QED BY <2>3, <2>4
<1>9. ASSUME UNCHANGED <<rows, work, writer, pc, body, at, found, alone>>, NEW t \in Saves PROVE LoneOK(t)'
  <2>1. Visible(t)' = Visible(t)
    BY <1>9 DEF Visible
  <2>. QED BY <1>9, <2>1, Elsewhere DEF LoneInv
<1>10. ASSUME NEW d \in DraftFlags, Generate(d) PROVE UNCHANGED <<rows, work, writer, pc, body, at, found, alone>>
  BY <1>10 DEF Generate, Request
<1>11. UNCHANGED vars => UNCHANGED <<rows, work, writer, pc, body, at, found, alone>>
  BY DEF vars
<1>. QED BY <1>1, <1>2, <1>3, <1>4, <1>5, <1>6, <1>7, <1>8, <1>9, <1>10, <1>11 DEF Next, SaveStep

\* The rows a commit leaves are those that the save has read and written.
LEMMA CommitLeavesVisible ==
    ASSUME TypeInv, [Next]_vars, NEW s \in Saves, pc[s] = "commit", pc'[s] = "reload"
    PROVE  rows' = Visible(s)
<1>1. Commit(s)
  <2>1. ASSUME NEW t \in Saves, Begin(t) \/ SaveStep(t), t # s PROVE FALSE
    <3>1. \E l : pc' = [pc EXCEPT ![t] = l]
      BY <2>1 DEF Begin, SaveStep, Query, LockStore, LockTimeout, Flush, WriteNothing, SaveFails,
         Commit, Reload, ReloadFails, Rollback, Advance
    <3>. QED BY <2>1, <3>1 DEF TypeInv
  <2>2. ASSUME Begin(s) \/ SaveStep(s) PROVE Commit(s)
    <3>1. CASE SaveFails(s)
      <4>1. pc'[s] = "failed"
        BY <3>1 DEF SaveFails, Rollback, TypeInv
      <4>. QED BY <4>1
    <3>. QED BY <2>2, <3>1 DEF Begin, SaveStep, Query, LockStore, LockTimeout, Flush, WriteNothing,
         Reload, ReloadFails
  <2>3. ASSUME NEW d \in DraftFlags, Generate(d) PROVE FALSE
    BY <2>3 DEF Generate
  <2>4. vars' # vars
    BY DEF vars
  <2>. QED BY <2>1, <2>2, <2>3, <2>4 DEF Next
<1>. QED BY <1>1 DEF Commit, Visible

LEMMA BodyTypes ==
    ASSUME TypeInv, NEW s \in Saves
    PROVE  /\ DOMAIN body[s] = 1..Len(body[s])
           /\ \A k \in DOMAIN body[s] :
                  body[s][k].model \in Models /\ body[s][k].names \in Seq(Names) /\ Ordered(body[s][k].names)
<1>. DEFINE Items == [model : Models, names : {names \in Seq(Names) : Ordered(names)}]
<1>1. body[s] \in Seq(Items)
  <2>1. body[s] \in Bodies \cup {<<>>} /\ <<>> \in Seq(Items)
    BY DEF TypeInv
  <2>2. Bodies \subseteq Seq(Items)
    BY OverridesAssumption DEF OverridesAssumption
  <2>. HIDE DEF Items
  <2>. QED BY <2>1, <2>2
<1>2. \A i \in Items : i.model \in Models /\ i.names \in Seq(Names) /\ Ordered(i.names)
  OBVIOUS
<1>. HIDE DEF Items
<1>. QED BY <1>1, <1>2

\* A save alone leaves exactly what it was asked for (save, relationship_override.py:69-105),
\* over bodies of any length, also when they name a model again or give an override twice,
\* and whatever rows were there: see LoneSaveIsExact.
THEOREM LoneSaveIsExactAlways == Spec => LoneSaveIsExact
<1>. DEFINE names(f) == [i \in DOMAIN f |-> f[i].name]
            items(s, m) == {k \in DOMAIN body[s] : body[s][k].model = m}
            Left(s, m) == IF items(s, m) = {}
                          THEN Existing(rows', m) = Existing(rows, m)
                          ELSE \A f \in Existing(rows', m), k \in items(s, m) :
                                  (\A j \in items(s, m) : j <= k) => names(f) = body[s][k].names
<1>1. ASSUME TypeInv, LoneInv, [Next]_vars, NEW s \in Saves, NEW m \in Models,
             pc[s] = "commit", pc'[s] = "reload", alone[s]
      PROVE  Left(s, m)
  <2>1. rows' = Visible(s) /\ Stored(Visible(s))
    BY <1>1, CommitLeavesVisible, VisibleTypes
  <2>2. Exact(body[s], DOMAIN body[s], Visible(s), rows)
    BY <1>1, BodyTypes DEF LoneInv, LoneOK, Done
  <2>3. CASE items(s, m) = {}
    <3>1. Same(Visible(s), rows, m)
      BY <2>2, <2>3 DEF Exact
    <3>. QED BY <2>1, <2>3, <3>1, SameExisting
  <2>4. CASE items(s, m) # {}
    <3>. SUFFICES ASSUME NEW f \in Existing(rows', m), NEW k \in items(s, m), \A j \in items(s, m) : j <= k
         PROVE names(f) = body[s][k].names
      BY <2>4
    <3>1. k \in DOMAIN body[s] /\ body[s][k].model = m
      OBVIOUS
    <3>2. Holds(Visible(s), m, body[s][k].names)
      BY <2>2, <3>1 DEF Exact
    <3>3. body[s][k].names \in Seq(Names) /\ Ordered(body[s][k].names)
      BY <1>1, <3>1, BodyTypes
    <3>. QED BY <2>1, <3>2, <3>3, HoldsDecides
  <2>. QED BY <2>3, <2>4
<1>2. TypeInv /\ LoneInv /\ [Next]_vars =>
        \A s \in Saves, m \in Models :
            (pc[s] = "commit" /\ pc'[s] = "reload" /\ alone[s]) => Left(s, m)
  BY <1>1
<1>3. TypeInv /\ LoneInv /\ [Next]_vars =>
        [\A s \in Saves, m \in Models :
            (pc[s] = "commit" /\ pc'[s] = "reload" /\ alone[s]) => Left(s, m)]_vars
  BY <1>2
<1>4. Spec => []TypeInv
  BY InitTypes, NextTypes, PTL DEF Spec
<1>5. Spec => []LoneInv
  BY <1>4, LockIsLiveAlways, LoneInit, LoneNext, PTL DEF Spec
<1>. QED BY <1>3, <1>4, <1>5, PTL DEF Spec, LoneSaveIsExact
=============================================================================
