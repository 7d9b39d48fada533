------------------------ MODULE SchemaChanges_proofs ------------------------
(***************************************************************************)
(* Theorems about SchemaChanges, for any number of processes, changes,     *)
(* tables and columns.                                                     *)
(***************************************************************************)
EXTENDS SchemaChanges, TLAPS, FiniteSetTheorems

ChangeRecords ==
    [pc : Steps \cup Resting, proc : Processes \cup {None}, old : Items \cup {None},
     new : Items \cup {None}, lost : BOOLEAN, held : Schemas \cup {None}]

\* What TypeOK says of the record of one change.
Valid(r) ==
    IF req[r].pc \in Resting THEN req[r] = Rest(req[r].pc)
    ELSE /\ req[r].pc \in Steps /\ req[r].proc \in Processes
         /\ boot[req[r].proc] = "ready" \/ req[r].lost
         /\ req[r].old \in Items \cup {None} /\ req[r].new \in Items \cup {None}
         /\ req[r].lost \in BOOLEAN
         /\ req[r].held = None \/ (req[r].lost /\ req[r].held \in Schemas)

TypeInv == TypeOK /\ req \in [Changes -> ChangeRecords]

\* Only columns are updated, only an update has a commit of its own, and what is removed
\* from the metadata was destroyed.
UpdatesColumns ==
    \A r \in Changes :
        /\ At(r, Steps) /\ IsUpdate(r) => {req[r].old, req[r].new} \subseteq Columns
        /\ At(r, {"commit"}) => IsUpdate(r)
        /\ At(r, {"remove"}) => req[r].new = None

\* Who explains a table of p that the database lacks.
Explains(r, p, t) ==
    /\ req[r].proc = p /\ ~req[r].lost
    /\ \/ At(r, {"ddl"}) /\ req[r].new = t
       \/ At(r, {"remove"}) /\ req[r].old = t

\* A table in memory that the database lacks was changed behind the back of the
\* process, or a creation has yet to send its statement, or a destruction to remove it.
Explained ==
    \A p \in Processes : \A t \in (mem[p] \cap Tables) \ db :
        \/ t \in suspect[p]
        \/ \E r \in Changes : Explains(r, p, t)

\* From the removal of the file to the next load no file can be loaded.
FileStaysAway ==
    \A p \in Processes : clean[p] =>
        /\ reloads[p] = "removed" => boot[p] = "ready"
        /\ reloads[p] = "removed" \/ boot[p] \in {"off", "load"} => ~Loadable

-----------------------------------------------------------------------------
LEMMA InitTypes == ASSUME Init PROVE TypeInv
<1>. SUFFICES ASSUME Init PROVE TypeInv
  OBVIOUS
<1>1. req = [r \in Changes |-> Rest("idle")] /\ Rest("idle") \in ChangeRecords
  BY DEF Init, ChangeRecords, Rest, Change, Resting, Schemas
<1>2. \A r \in Changes : req[r].pc = "idle" /\ req[r] = Rest(req[r].pc)
  BY <1>1 DEF Rest, Change
<1>3. db \in Schemas /\ upsets \in 0..MaxUpsets /\ file = None /\ serial \in BOOLEAN
  BY SchemaAssumption DEF Init, SchemaAssumption
<1>4. /\ boot \in [Processes -> {"off", "ready"} \cup Booting]
      /\ mem \in [Processes -> Schemas] /\ classes \in [Processes -> Schemas]
      /\ suspect \in [Processes -> Schemas]
      /\ reloads \in [Processes -> {"none", "removed", "waiting"}]
      /\ clean \in [Processes -> BOOLEAN]
  BY DEF Init, Schemas
<1>. QED BY <1>1, <1>2, <1>3, <1>4 DEF TypeInv, TypeOK, Resting

\* What Goto and Ends leave of the record of a change; the others stay.
LEMMA GotoStep ==
    ASSUME req \in [Changes -> ChangeRecords], NEW r \in Changes, NEW step \in Steps, Goto(r, step)
    PROVE  /\ req' \in [Changes -> ChangeRecords]
           /\ req'[r].pc = step /\ req'[r].proc = req[r].proc
           /\ req'[r].old = req[r].old /\ req'[r].new = req[r].new
           /\ req'[r].lost = req[r].lost /\ req'[r].held = req[r].held
           /\ \A s \in Changes \ {r} : req'[s] = req[s]
<1>1. req[r] \in ChangeRecords /\ [req[r] EXCEPT !.pc = step] \in ChangeRecords
  BY DEF ChangeRecords
<1>2. req' = [req EXCEPT ![r] = [req[r] EXCEPT !.pc = step]]
  BY DEF Goto
<1>. QED BY <1>1, <1>2 DEF ChangeRecords

LEMMA EndsStep ==
    ASSUME req \in [Changes -> ChangeRecords], NEW r \in Changes, Ends(r)
    PROVE  /\ req' \in [Changes -> ChangeRecords]
           /\ req'[r] = Rest("over") /\ req'[r].pc = "over"
           /\ \A s \in Changes \ {r} : req'[s] = req[s]
<1>1. Rest("over") \in ChangeRecords /\ Rest("over").pc = "over"
  BY DEF ChangeRecords, Rest, Change, Resting
<1>. QED BY <1>1 DEF Ends

\* The memory keeps its type and only the process of a change sees it.
LEMMA MemorySteps ==
    ASSUME TypeInv, NEW r \in Changes, NEW s \in Schemas, At(r, Steps), SetMem(r, s)
    PROVE  /\ mem' \in [Processes -> Schemas]
           /\ req[r].lost => mem' = mem
           /\ ~req[r].lost => mem'[req[r].proc] = s
           /\ \A p \in Processes \ {req[r].proc} : mem'[p] = mem[p]
<1>1. req[r].pc \in Steps /\ req[r].pc \notin Resting
  BY DEF At, Steps, Resting
<1>2. mem \in [Processes -> Schemas] /\ req[r].proc \in Processes
  BY <1>1 DEF TypeInv, TypeOK
<1>. QED BY <1>2 DEF SetMem

\* A step of one change that leaves the connections alone.
LEMMA ChangeStepTypes ==
    ASSUME TypeInv, NEW r \in Changes, At(r, Steps), boot' = boot,
           Ends(r) \/ \E step \in Steps : Goto(r, step)
    PROVE  req' \in [Changes -> ChangeRecords] /\ \A s \in Changes : Valid(s)'
<1>1. req \in [Changes -> ChangeRecords] /\ \A s \in Changes : Valid(s)
  BY DEF TypeInv, TypeOK, Valid
<1>2. CASE Ends(r)
  BY <1>1, <1>2, EndsStep DEF Valid, Resting
<1>3. CASE \E step \in Steps : Goto(r, step)
  <2>1. PICK step \in Steps : Goto(r, step)
    BY <1>3
  <2>2. Valid(r)'
    <3>1. step \notin Resting /\ req[r].pc \notin Resting
      BY DEF Steps, Resting, At
    <3>. QED BY <1>1, <2>1, <3>1, GotoStep DEF Valid
  <2>. QED BY <1>1, <2>1, <2>2, GotoStep DEF Valid
<1>. QED BY <1>2, <1>3

\* TypeOK from its parts.
LEMMA TypesByParts ==
    ASSUME TypeInv, req' \in [Changes -> ChangeRecords], \A s \in Changes : Valid(s)',
           db' \in Schemas, upsets' \in 0..MaxUpsets, file' \in {None, Torn} \/ file' \in Schemas,
           boot' \in [Processes -> {"off", "ready"} \cup Booting],
           mem' \in [Processes -> Schemas], classes' \in [Processes -> Schemas],
           reloads' \in [Processes -> {"none", "removed", "waiting"}],
           suspect' \in [Processes -> Schemas], serial' \in BOOLEAN, clean' \in [Processes -> BOOLEAN]
    PROVE  TypeInv'
BY DEF TypeInv, TypeOK, Valid

LEMMA Values ==
    ASSUME TypeInv
    PROVE  /\ req \in [Changes -> ChangeRecords] /\ \A s \in Changes : Valid(s)
           /\ db \in Schemas /\ upsets \in 0..MaxUpsets /\ (file \in {None, Torn} \/ file \in Schemas)
           /\ boot \in [Processes -> {"off", "ready"} \cup Booting]
           /\ mem \in [Processes -> Schemas] /\ classes \in [Processes -> Schemas]
           /\ reloads \in [Processes -> {"none", "removed", "waiting"}]
           /\ suspect \in [Processes -> Schemas]
           /\ serial \in BOOLEAN /\ clean \in [Processes -> BOOLEAN]
BY DEF TypeInv, TypeOK, Valid

\* The schemas that the helpers compute.
LEMMA HelperTypes ==
    ASSUME TypeInv, NEW r \in Changes, At(r, Steps)
    PROVE  /\ Touched(r) \in Schemas /\ Replaced(db, r) \in Schemas
           /\ Suspects(r) \in [Processes -> Schemas]
           /\ MemOf(r) \in Schemas /\ Restored(MemOf(r), r) \in Schemas
           /\ \A i : MemOf(r) \ i \in Schemas
           /\ req[r].proc \in Processes
           /\ req[r].held = None \/ req[r].held \in Schemas
<1>1. Valid(r) /\ req[r].pc \notin Resting
  BY DEF TypeInv, TypeOK, Valid, At, Steps, Resting
<1>2. /\ req[r].old \in Items \cup {None} /\ req[r].new \in Items \cup {None}
      /\ req[r].proc \in Processes /\ (req[r].held = None \/ req[r].held \in Schemas)
  BY <1>1 DEF Valid
<1>3. Touched(r) \in Schemas /\ Replaced(db, r) \in Schemas
  BY <1>2, Values DEF Touched, Replaced, Schemas
<1>4. MemOf(r) \in Schemas /\ Restored(MemOf(r), r) \in Schemas /\ \A i : MemOf(r) \ i \in Schemas
  BY <1>2, Values DEF MemOf, Restored, Schemas
<1>5. Suspects(r) \in [Processes -> Schemas]
  BY <1>3, Values DEF Suspects, Schemas
<1>. QED BY <1>2, <1>3, <1>4, <1>5

-----------------------------------------------------------------------------
(* Type correctness                                                        *)

LEMMA BeginTypes ==
    ASSUME TypeInv, NEW r \in Changes, NEW p \in Processes,
           NEW o \in Items \cup {None}, NEW n \in Items \cup {None}, Begin(r, p, o, n)
    PROVE  TypeInv'
<1>1. Change("ddl", p, o, n) \in ChangeRecords
  BY DEF Change, ChangeRecords, Steps
<1>2. /\ req' \in [Changes -> ChangeRecords] /\ req'[r] = Change("ddl", p, o, n)
      /\ \A s \in Changes \ {r} : req'[s] = req[s]
  BY <1>1, Values DEF Begin
<1>3. \A s \in Changes : Valid(s)'
  <2>1. Valid(r)'
    BY <1>2 DEF Begin, Valid, Change, Steps, Resting
  <2>. QED BY <1>2, <2>1, Values DEF Begin, Valid
<1>4. mem' \in [Processes -> Schemas]
  BY Values DEF Begin, Schemas
<1>5. serial' \in BOOLEAN
  BY Values DEF Begin
<1>. QED BY <1>2, <1>3, <1>4, <1>5, Values, TypesByParts DEF Begin, base

LEMMA StatementTypes ==
    ASSUME TypeInv, NEW r \in Changes,
           \/ Execute(r) \/ ExecuteFails(r) \/ RemoveItem(r) \/ AddConstraint(r)
           \/ Alter(r) \/ Undo(r) \/ UndoFails(r) \/ Commit(r)
    PROVE  TypeInv'
<1>1. CASE Execute(r)
  <2>1. At(r, Steps) /\ \E step \in Steps : Goto(r, step)
    BY <1>1 DEF Execute, At, Steps
  <2>. QED BY <1>1, <2>1, Values, HelperTypes, ChangeStepTypes, TypesByParts DEF Execute
<1>2. CASE ExecuteFails(r)
  <2>1. At(r, Steps) /\ Ends(r) /\ serial' \in BOOLEAN
    BY <1>2, Values DEF ExecuteFails, At, Steps
  <2>2. PICK s \in Schemas : SetMem(r, s)
    BY <1>2, <2>1, HelperTypes DEF ExecuteFails
  <2>. QED BY <1>2, <2>1, <2>2, Values, MemorySteps, ChangeStepTypes, TypesByParts DEF ExecuteFails, base
<1>3. CASE AddConstraint(r)
  <2>1. At(r, Steps) /\ (Ends(r) \/ \E step \in Steps : Goto(r, step)) /\ serial' \in BOOLEAN
    BY <1>3, Values DEF AddConstraint, At, Steps, Spoiled
  <2>. QED BY <1>3, <2>1, Values, ChangeStepTypes, TypesByParts DEF AddConstraint, base
<1>4. CASE Alter(r)
  <2>1. At(r, Steps) /\ \E step \in Steps : Goto(r, step)
    BY <1>4 DEF Alter, At, Steps
  <2>. QED BY <1>4, <2>1, Values, ChangeStepTypes, TypesByParts DEF Alter, base, history
<1>5. CASE Undo(r)
  <2>1. At(r, Steps) /\ \E step \in Steps : Goto(r, step)
    BY <1>5 DEF Undo, At, Steps
  <2>2. PICK s \in Schemas : SetMem(r, s)
    BY <1>5, <2>1, HelperTypes DEF Undo
  <2>. QED BY <1>5, <2>1, <2>2, Values, MemorySteps, ChangeStepTypes, TypesByParts DEF Undo, base, history
<1>6. CASE UndoFails(r)
  <2>1. At(r, Steps) /\ Ends(r) /\ serial' \in BOOLEAN
    BY <1>6 DEF UndoFails, At, Steps, Spoiled
  <2>. QED BY <1>6, <2>1, Values, ChangeStepTypes, TypesByParts DEF UndoFails, base
<1>7. CASE Commit(r)
  <2>1. At(r, Steps) /\ Ends(r) /\ serial' \in BOOLEAN
    BY <1>7, Values DEF Commit, At, Steps, Spoiled
  <2>2. db' \in Schemas /\ suspect' \in [Processes -> Schemas]
    BY <1>7, <2>1, HelperTypes, Values DEF Commit
  <2>. QED BY <1>7, <2>1, <2>2, Values, ChangeStepTypes, TypesByParts DEF Commit
<1>8. CASE RemoveItem(r)
  <2>1. At(r, Steps) /\ (Ends(r) \/ \E step \in Steps : Goto(r, step)) /\ serial' \in BOOLEAN
    BY <1>8, Values DEF RemoveItem, At, Steps, Spoiled
  <2>2. mem' \in [Processes -> Schemas]
    BY <1>8, <2>1, HelperTypes, MemorySteps, Values DEF RemoveItem
  <2>. QED BY <1>8, <2>1, <2>2, Values, ChangeStepTypes, TypesByParts DEF RemoveItem, base
<1>. QED BY <1>1, <1>2, <1>3, <1>4, <1>5, <1>6, <1>7, <1>8

LEMMA UpdateBaseTypes ==
    ASSUME TypeInv, NEW r \in Changes,
           Prepare(r) \/ PrepareFails(r) \/ OpenFile(r) \/ WriteFile(r)
    PROVE  TypeInv'
<1>1. CASE Prepare(r)
  <2>1. At(r, Steps) /\ \E step \in Steps : Goto(r, step)
    BY <1>1 DEF Prepare, At, Steps
  <2>2. classes' \in [Processes -> Schemas]
    BY <1>1, <2>1, HelperTypes, Values DEF Prepare
  <2>. QED BY <1>1, <2>1, <2>2, Values, ChangeStepTypes, TypesByParts DEF Prepare, base, history
<1>2. CASE PrepareFails(r)
  <2>1. At(r, Steps) /\ Ends(r) /\ serial' \in BOOLEAN
    BY <1>2 DEF PrepareFails, At, Steps, Spoiled
  <2>2. PICK s \in Schemas : SetMem(r, s)
    BY <1>2, <2>1, HelperTypes DEF PrepareFails
  <2>. QED BY <1>2, <2>1, <2>2, Values, MemorySteps, ChangeStepTypes, TypesByParts DEF PrepareFails, base
<1>3. CASE OpenFile(r)
  <2>1. At(r, Steps) /\ (Ends(r) \/ \E step \in Steps : Goto(r, step))
    BY <1>3 DEF OpenFile, Dumped, At, Steps
  <2>2. clean' \in [Processes -> BOOLEAN] /\ serial' \in BOOLEAN /\ file' \in {file, Torn}
    BY <1>3, Values DEF OpenFile, Dirty, Spoiled
  <2>. QED BY <1>3, <2>1, <2>2, Values, ChangeStepTypes, TypesByParts DEF OpenFile, base
<1>4. CASE WriteFile(r)
  <2>1. At(r, Steps) /\ (Ends(r) \/ \E step \in Steps : Goto(r, step))
    BY <1>4 DEF WriteFile, Dumped, At, Steps
  <2>2. clean' \in [Processes -> BOOLEAN] /\ serial' \in BOOLEAN
    BY <1>4, Values DEF WriteFile, Dirty, Written, Spoiled
  <2>3. file' = Torn \/ file' \in Schemas
    BY <1>4, <2>1, HelperTypes DEF WriteFile, Written
  <2>. QED BY <1>4, <2>1, <2>2, <2>3, Values, ChangeStepTypes, TypesByParts DEF WriteFile, base
<1>. QED BY <1>1, <1>2, <1>3, <1>4

LEMMA UpsetTypes == ASSUME TypeInv, Upset PROVE upsets' \in 0..MaxUpsets
BY Values, SchemaAssumption DEF Upset, SchemaAssumption

\* The records stay valid when only connections that are not ready change.
LEMMA SameRecords ==
    ASSUME TypeInv, req' = req, \A p \in Processes : boot[p] = "ready" => boot'[p] = "ready"
    PROVE  req' \in [Changes -> ChangeRecords] /\ \A s \in Changes : Valid(s)'
BY Values DEF Valid

LEMMA ConnectionTypes ==
    ASSUME TypeInv, NEW p \in Processes,
           Start(p) \/ Load(p) \/ OpenNew(p) \/ WriteNew(p) \/ RemoveFile(p) \/ Reloaded(p)
    PROVE  TypeInv'
<1>1. CASE Start(p)
  <2>1. boot' \in [Processes -> {"off", "ready"} \cup Booting] /\ serial' \in BOOLEAN
    BY <1>1, Values DEF Start, Booting
  <2>2. req' = req /\ \A q \in Processes : boot[q] = "ready" => boot'[q] = "ready"
    BY <1>1, Values DEF Start
  <2>. QED BY <1>1, <2>1, <2>2, SameRecords, Values, TypesByParts DEF Start, base
<1>2. CASE Load(p)
  <2>1. (IF Loadable THEN file ELSE db) \in Schemas
    BY Values DEF Loadable
  <2>2. mem' \in [Processes -> Schemas] /\ mem'[p] \in Schemas
    BY <1>2, <2>1, Values DEF Load
  <2>3. suspect' \in [Processes -> Schemas] /\ classes' \in [Processes -> Schemas]
    BY <1>2, <2>2, Values DEF Load, Schemas
  <2>4. boot' \in [Processes -> {"off", "ready"} \cup Booting]
    BY <1>2, Values DEF Load, Booting
  <2>5. req' = req /\ \A q \in Processes : boot[q] = "ready" => boot'[q] = "ready"
    BY <1>2, Values DEF Load
  <2>. QED BY <1>2, <2>2, <2>3, <2>4, <2>5, SameRecords, Values, TypesByParts DEF Load, base
<1>3. CASE OpenNew(p)
  <2>1. boot' \in [Processes -> {"off", "ready"} \cup Booting] /\ clean' \in [Processes -> BOOLEAN]
    BY <1>3, Values DEF OpenNew, Booting
  <2>2. req' = req /\ \A q \in Processes : boot[q] = "ready" => boot'[q] = "ready"
    BY <1>3, Values DEF OpenNew
  <2>3. file' \in {file, Torn} /\ serial' \in BOOLEAN /\ classes' \in [Processes -> Schemas]
    BY <1>3, Values DEF OpenNew, Spoiled
  <2>. QED BY <1>3, <2>1, <2>2, <2>3, SameRecords, Values, TypesByParts DEF OpenNew, base
<1>4. CASE WriteNew(p)
  <2>1. boot' \in [Processes -> {"off", "ready"} \cup Booting] /\ clean' \in [Processes -> BOOLEAN]
        /\ classes' \in [Processes -> Schemas]
    BY <1>4, Values DEF WriteNew
  <2>2. req' = req /\ \A q \in Processes : boot[q] = "ready" => boot'[q] = "ready"
    BY <1>4, Values DEF WriteNew
  <2>3. (file' = Torn \/ file' \in Schemas) /\ serial' \in BOOLEAN
    BY <1>4, Values DEF WriteNew, Written, Spoiled
  <2>. QED BY <1>4, <2>1, <2>2, <2>3, SameRecords, Values, TypesByParts DEF WriteNew, base
<1>5. CASE RemoveFile(p)
  <2>1. upsets' \in 0..MaxUpsets
    BY <1>5, UpsetTypes DEF RemoveFile
  <2>2. /\ serial' \in BOOLEAN /\ clean' \in [Processes -> BOOLEAN]
        /\ reloads' \in [Processes -> {"none", "removed", "waiting"}]
        /\ file' \in {None, Torn} \/ file' \in Schemas
    BY <1>5, Values DEF RemoveFile
  <2>. QED BY <1>5, <2>1, <2>2, SameRecords, Values, TypesByParts DEF RemoveFile
<1>6. CASE Reloaded(p)
  <2>1. clean' \in [Processes -> BOOLEAN] /\ reloads' \in [Processes -> {"none", "removed", "waiting"}]
    BY <1>6, Values DEF Reloaded
  <2>. QED BY <1>6, <2>1, SameRecords, Values, TypesByParts DEF Reloaded, base
<1>. QED BY <1>1, <1>2, <1>3, <1>4, <1>5, <1>6

\* The changes of a process whose connection goes are lost, the others stay.
LEMMA ForgetStep ==
    ASSUME TypeInv, NEW p \in Processes, Forget(p)
    PROVE  /\ req' \in [Changes -> ChangeRecords]
           /\ \A r \in Changes :
                /\ req'[r].pc = req[r].pc /\ req'[r].proc = req[r].proc
                /\ req'[r].old = req[r].old /\ req'[r].new = req[r].new
                /\ req'[r].lost = (req[r].lost \/ (r \in Active /\ req[r].proc = p))
                /\ r \notin Active \/ req[r].proc # p => req'[r] = req[r]
                /\ req'[r].held = req[r].held \/ (r \in Active /\ req[r].proc = p /\ req'[r].held \in Schemas)
<1>. DEFINE H(r) == IF req[r].held = None /\ At(r, {"open", "write", "reopen", "rewrite"}) THEN mem[p] ELSE req[r].held
            New(r) == [req[r] EXCEPT !.lost = TRUE, !.held = H(r)]
<1>1. req' = [r \in Changes |-> IF r \notin Active \/ req[r].proc # p THEN req[r] ELSE New(r)]
  BY DEF Forget
<1>2. mem[p] \in Schemas /\ req \in [Changes -> ChangeRecords]
  BY Values
<1>3. \A r \in Changes : H(r) = req[r].held \/ H(r) \in Schemas
  BY <1>2
<1>4. \A r \in Changes : req[r] \in ChangeRecords /\ H(r) \in Schemas \cup {None}
  BY <1>2, <1>3 DEF ChangeRecords
<1>. HIDE DEF H
<1>5. ASSUME NEW r \in Changes
      PROVE  /\ New(r) \in ChangeRecords
             /\ New(r).pc = req[r].pc /\ New(r).proc = req[r].proc
             /\ New(r).old = req[r].old /\ New(r).new = req[r].new
             /\ New(r).lost = TRUE /\ New(r).held = H(r)
  BY <1>4 DEF ChangeRecords
<1>. HIDE DEF New
<1>6. req' \in [Changes -> ChangeRecords]
  BY <1>1, <1>4, <1>5
<1>7. \A r \in Changes : req[r].lost \in BOOLEAN
  BY <1>4 DEF ChangeRecords
<1>. QED BY <1>1, <1>3, <1>5, <1>6, <1>7

LEMMA DisposeTypes == ASSUME TypeInv, NEW p \in Processes, Dispose(p) PROVE TypeInv'
<1>0. reloads' \in [Processes -> {"none", "removed", "waiting"}]
  BY Values DEF Dispose
<1>1. CASE boot[p] = "ready"
  <2>1. Forget(p) /\ boot' = [boot EXCEPT ![p] = "off"] /\ mem' = [mem EXCEPT ![p] = {}]
        /\ classes' = [classes EXCEPT ![p] = {}] /\ suspect' = [suspect EXCEPT ![p] = {}]
    BY <1>1 DEF Dispose
  <2>2. /\ boot' \in [Processes -> {"off", "ready"} \cup Booting]
        /\ mem' \in [Processes -> Schemas] /\ classes' \in [Processes -> Schemas]
        /\ suspect' \in [Processes -> Schemas]
    BY <2>1, Values DEF Schemas
  <2>3. ASSUME NEW r \in Changes PROVE Valid(r)'
    <3>1. CASE r \in Active /\ req[r].proc = p
      <4>1. req[r].pc \notin Resting /\ Valid(r)
        BY <3>1, Values DEF Active, At
      <4>2. req'[r].lost = TRUE /\ (req'[r].held = None \/ req'[r].held \in Schemas)
        BY <2>1, <3>1, <4>1, ForgetStep DEF Valid
      <4>3. /\ req'[r].pc = req[r].pc /\ req'[r].proc = req[r].proc
            /\ req'[r].old = req[r].old /\ req'[r].new = req[r].new
        BY <2>1, ForgetStep
      <4>. QED BY <4>1, <4>2, <4>3 DEF Valid
    <3>2. CASE r \notin Active
      <4>1. req[r].pc \in Resting /\ req'[r] = req[r] /\ Valid(r)
        BY <2>1, <3>2, ForgetStep, Values DEF Active, At
      <4>. QED BY <4>1 DEF Valid
    <3>3. CASE r \in Active /\ req[r].proc # p
      <4>1. req[r].pc \notin Resting /\ req'[r] = req[r] /\ Valid(r)
        BY <2>1, <3>3, ForgetStep, Values DEF Active, At
      <4>2. boot'[req[r].proc] = boot[req[r].proc]
        BY <2>1, <3>3, <4>1, Values DEF Valid
      <4>. QED BY <4>1, <4>2 DEF Valid
    <3>. QED BY <3>1, <3>2, <3>3
  <2>4. req' \in [Changes -> ChangeRecords]
    BY <2>1, ForgetStep
  <2>. QED BY <1>0, <2>2, <2>3, <2>4, Values, TypesByParts DEF Dispose, base
<1>2. CASE boot[p] # "ready"
  BY <1>0, <1>2, SameRecords, Values, TypesByParts DEF Dispose, base
<1>. QED BY <1>1, <1>2

LEMMA CrashTypes == ASSUME TypeInv, NEW p \in Processes, Crash(p) PROVE TypeInv'
<1>1. /\ boot' \in [Processes -> {"off", "ready"} \cup Booting]
      /\ mem' \in [Processes -> Schemas] /\ classes' \in [Processes -> Schemas]
      /\ suspect' \in [Processes -> Schemas] /\ clean' \in [Processes -> BOOLEAN]
      /\ reloads' \in [Processes -> {"none", "removed", "waiting"}] /\ serial' \in BOOLEAN
  BY Values DEF Crash, Schemas
<1>2. Rest("over") \in ChangeRecords /\ Rest("over").pc = "over"
  BY DEF ChangeRecords, Rest, Change, Resting
<1>3. req' \in [Changes -> ChangeRecords]
  BY <1>2, Values DEF Crash
<1>4. ASSUME NEW r \in Changes PROVE Valid(r)'
  <2>1. CASE req[r].proc = p
    BY <1>2, <2>1 DEF Crash, Valid, Resting
  <2>2. CASE req[r].proc # p
    <3>1. req'[r] = req[r] /\ \A q \in Processes \ {p} : boot'[q] = boot[q]
      BY <2>2, Values DEF Crash
    <3>. QED BY <2>2, <3>1, Values DEF Valid
  <2>. QED BY <2>1, <2>2
<1>5. upsets' \in 0..MaxUpsets
  BY UpsetTypes DEF Crash
<1>. QED BY <1>1, <1>3, <1>4, <1>5, Values, TypesByParts DEF Crash

LEMMA OutsideTypes == ASSUME TypeInv, Outside PROVE TypeInv'
<1>1. PICK i \in Items : /\ db' = IF i \in db THEN db \ {i} ELSE db \cup {i}
                         /\ suspect' = [q \in Processes |-> suspect[q] \cup {i}]
  BY DEF Outside
<1>2. db' \in Schemas /\ suspect' \in [Processes -> Schemas]
  BY <1>1, Values DEF Schemas
<1>3. upsets' \in 0..MaxUpsets /\ serial' \in BOOLEAN
  BY UpsetTypes DEF Outside, Spoiled
<1>. QED BY <1>2, <1>3, SameRecords, Values, TypesByParts DEF Outside

LEMMA StutterTypes == ASSUME TypeInv, UNCHANGED vars PROVE TypeInv'
BY SameRecords, Values, TypesByParts DEF vars, base, history

LEMMA NextTypes == TypeInv /\ [Next]_vars => TypeInv'
BY BeginTypes, StatementTypes, UpdateBaseTypes, ConnectionTypes, DisposeTypes, CrashTypes,
   OutsideTypes, StutterTypes DEF Next, ChangeStep

\* Type correctness, of views/table.py, views/table_column.py and the copies they change:
\* a change that goes on belongs to a connection, or to one that was disposed of.
THEOREM TypeCorrect == Spec => []TypeOK
<1>1. TypeInv => TypeOK
  BY DEF TypeInv
<1>. QED BY <1>1, InitTypes, NextTypes, PTL DEF Spec

-----------------------------------------------------------------------------
(* Tables in memory                                                        *)

LEMMA InitColumns == Init => UpdatesColumns
BY DEF Init, UpdatesColumns, At, Rest, Change, Steps

\* What an update is depends on its items, which no step changes.
LEMMA NextColumns == TypeInv /\ UpdatesColumns /\ [Next]_vars => UpdatesColumns'
<1>. SUFFICES ASSUME TypeInv, UpdatesColumns, [Next]_vars PROVE UpdatesColumns'
  OBVIOUS
<1>1. ASSUME NEW r \in Changes, NEW p \in Processes, NEW o \in Items \cup {None},
             NEW n \in Items \cup {None}, Begin(r, p, o, n)
      PROVE  UpdatesColumns'
  <2>1. req'[r] = Change("ddl", p, o, n) /\ \A s \in Changes \ {r} : req'[s] = req[s]
    BY <1>1, Values DEF Begin
  <2>2. o # None /\ n # None => {o, n} \subseteq Columns
    BY <1>1 DEF Begin
  <2>. QED BY <2>1, <2>2 DEF UpdatesColumns, At, IsUpdate, Change
<1>2. ASSUME NEW r \in Changes, NEW step \in Steps, At(r, Steps), Goto(r, step),
             step = "commit" => IsUpdate(r), step = "remove" => req[r].new = None
      PROVE  UpdatesColumns'
  BY <1>2, Values, GotoStep DEF UpdatesColumns, At, IsUpdate
<1>3. ASSUME NEW r \in Changes, Ends(r)
      PROVE  UpdatesColumns'
  BY <1>3, Values, EndsStep DEF UpdatesColumns, At, IsUpdate, Steps
<1>4. ASSUME NEW r \in Changes, ChangeStep(r)
      PROVE  UpdatesColumns'
  <2>1. \/ Ends(r)
        \/ \E step \in Steps : /\ At(r, Steps) /\ Goto(r, step)
                               /\ (step = "commit" => IsUpdate(r)) /\ (step = "remove" => req[r].new = None)
    BY <1>4 DEF ChangeStep, Execute, ExecuteFails, RemoveItem, AddConstraint, Alter, Undo, UndoFails, Commit,
                Prepare, PrepareFails, OpenFile, WriteFile, Dumped, At, Steps
  <2>. QED BY <1>2, <1>3, <2>1
<1>5. ASSUME NEW p \in Processes, Forget(p)
      PROVE  UpdatesColumns'
  BY <1>5, ForgetStep DEF UpdatesColumns, At, IsUpdate
<1>6. CASE req' = req
  BY <1>6 DEF UpdatesColumns, At, IsUpdate
<1>7. ASSUME NEW p \in Processes, Dispose(p)
      PROVE  UpdatesColumns'
  BY <1>5, <1>6, <1>7 DEF Dispose
<1>8. ASSUME NEW p \in Processes, Crash(p)
      PROVE  UpdatesColumns'
  <2>1. Rest("over").pc = "over"
    BY DEF Rest, Change
  <2>2. \A r \in Changes : req'[r] = IF req[r].proc = p THEN Rest("over") ELSE req[r]
    BY <1>8 DEF Crash
  <2>. QED BY <2>1, <2>2 DEF UpdatesColumns, At, IsUpdate, Steps
<1>9. ASSUME NEW p \in Processes,
             Start(p) \/ Load(p) \/ OpenNew(p) \/ WriteNew(p) \/ RemoveFile(p) \/ Reloaded(p)
      PROVE  req' = req
  BY <1>9 DEF Start, Load, OpenNew, WriteNew, RemoveFile, Reloaded
<1>10. Outside \/ UNCHANGED vars => req' = req
  BY DEF Outside, vars
<1>. QED BY <1>1, <1>4, <1>6, <1>7, <1>8, <1>9, <1>10 DEF Next

LEMMA InitExplained == Init => Explained
BY DEF Init, Explained

\* A step of r keeps what others explain; it is enough to look at what r itself explained,
\* and at the tables that enter a memory or leave the database.
LEMMA ExplainedByStep ==
    ASSUME TypeInv, Explained, NEW r \in Changes, At(r, Steps), \A s \in Changes \ {r} : req'[s] = req[s],
           \A p \in Processes, t \in Tables :
                t \in mem'[p] \ db' =>
                    \/ t \in suspect'[p]
                    \/ t \in mem[p] \ db /\ suspect[p] \subseteq suspect'[p] /\ ~Explains(r, p, t)
    PROVE  Explained'
<1>. SUFFICES ASSUME NEW p \in Processes, NEW t \in Tables, t \in mem'[p] \ db', t \notin suspect'[p]
              PROVE  \E s \in Changes : Explains(s, p, t)'
  BY DEF Explained, Explains
<1>1. t \in mem[p] \ db /\ t \notin suspect[p] /\ ~Explains(r, p, t)
  OBVIOUS
<1>2. PICK s \in Changes : Explains(s, p, t)
  BY <1>1 DEF Explained, Explains
<1>3. s # r /\ req'[s] = req[s]
  BY <1>1, <1>2
<1>. QED BY <1>2, <1>3 DEF Explains, At

LEMMA StepsExplained ==
    ASSUME TypeInv, UpdatesColumns, Explained, NEW r \in Changes, ChangeStep(r)
    PROVE  Explained'
<1>. DEFINE Seen == \A p \in Processes, t \in Tables :
                      t \in mem'[p] \ db' =>
                        \/ t \in suspect'[p]
                        \/ t \in mem[p] \ db /\ suspect[p] \subseteq suspect'[p] /\ ~Explains(r, p, t)
<1>1. At(r, Steps) /\ \A s \in Changes \ {r} : req'[s] = req[s]
  BY Values, GotoStep, EndsStep
     DEF ChangeStep, Execute, ExecuteFails, RemoveItem, AddConstraint, Alter, Undo, UndoFails, Commit,
         Prepare, PrepareFails, OpenFile, WriteFile, Dumped, At, Steps
<1>2. \A t \in Tables : t # None /\ t \notin Columns
  BY SchemaAssumption DEF SchemaAssumption
<1>3. \A p \in Processes, t \in Tables : IsUpdate(r) => ~Explains(r, p, t) /\ t \notin Touched(r)
  BY <1>1, <1>2 DEF UpdatesColumns, IsUpdate, Explains, Touched, At
<1>4. MemOf(r) = mem[req[r].proc] /\ (\A i : MemOf(r) \ i \in Schemas) /\ MemOf(r) \in Schemas
      /\ req[r].proc \in Processes /\ Restored(MemOf(r), r) \in Schemas
  BY <1>1, HelperTypes DEF MemOf
\* Nothing enters memory or leaves the database, and r does not explain anything.
<1>5. ASSUME \A p \in Processes, t \in Tables : ~Explains(r, p, t) /\ (t \in mem'[p] => t \in mem[p])
                                               /\ (t \in db => t \in db'),
             \A p \in Processes : suspect[p] \subseteq suspect'[p]
      PROVE  Seen
  BY <1>5
<1>6. ASSUME Execute(r) PROVE Explained'
  <2>1. \A p \in Processes : suspect'[p] = IF p = req[r].proc /\ ~req[r].lost THEN suspect[p]
                                           ELSE suspect[p] \cup Touched(r)
    BY <1>6, Values DEF Execute, Suspects
  <2>2. /\ db' = (db \ {req[r].old}) \cup ({req[r].new} \ {None})
        /\ req[r].old = None \/ req[r].new = None
        /\ Touched(r) = {req[r].old, req[r].new} \ {None}
        /\ At(r, {"ddl"}) /\ mem' = mem
    BY <1>6 DEF Execute, Replaced, IsUpdate, Touched
  <2>3. PICK step \in {"remove", "constraint", "prepare"} :
            Goto(r, step) /\ (req[r].new = None => step = "remove")
    BY <1>6 DEF Execute
  <2>4. /\ req'[r].pc = step /\ req'[r].proc = req[r].proc
        /\ req'[r].old = req[r].old /\ req'[r].lost = req[r].lost
    <3>1. step \in Steps
      BY DEF Steps
    <3>. QED BY <2>3, <3>1, Values, GotoStep
  <2>5. ASSUME NEW p \in Processes, NEW t \in Tables, t \in mem'[p] \ db', t \notin suspect'[p]
        PROVE  \E s \in Changes : Explains(s, p, t)'
    <3>1. CASE t \in db
      <4>1. t = req[r].old /\ req[r].new = None
        BY <1>2, <2>2, <2>5, <3>1
      <4>2. p = req[r].proc /\ ~req[r].lost
        BY <1>2, <2>1, <2>2, <2>5, <4>1
      <4>. QED BY <2>3, <2>4, <4>1, <4>2 DEF Explains, At
    <3>2. CASE t \notin db
      <4>1. PICK s \in Changes : Explains(s, p, t)
        BY <2>1, <2>2, <2>5, <3>2 DEF Explained
      <4>2. s # r
        BY <1>2, <2>2, <2>5, <4>1 DEF Explains, At
      <4>. QED BY <1>1, <4>1, <4>2 DEF Explains, At
    <3>. QED BY <3>1, <3>2
  <2>. QED BY <2>5 DEF Explained
<1>7. ASSUME Ends(r), ~At(r, {"remove"}), SetMem(r, MemOf(r) \ (Tables \cap {req[r].new})),
             db' = db, suspect' = suspect
      PROVE  Seen
  <2>1. PICK m \in Schemas : m = mem[req[r].proc] \ (Tables \cap {req[r].new}) /\ SetMem(r, m)
    BY <1>4, <1>7
  <2>2. /\ req[r].lost => mem' = mem
        /\ ~req[r].lost => mem'[req[r].proc] = m
        /\ \A p \in Processes \ {req[r].proc} : mem'[p] = mem[p]
    BY <1>1, <2>1, MemorySteps
  <2>3. ASSUME NEW p \in Processes, NEW t \in Tables, t \in mem'[p]
        PROVE  t \in mem[p] /\ ~Explains(r, p, t)
    BY <1>7, <2>1, <2>2, <2>3 DEF Explains
  <2>. QED BY <1>7, <2>3
<1>8. ASSUME ExecuteFails(r) \/ PrepareFails(r) PROVE Seen
  BY <1>7, <1>8 DEF ExecuteFails, PrepareFails, base, At
<1>9. ASSUME Undo(r) PROVE Seen
  <2>1. PICK m \in Schemas : m = (mem[req[r].proc] \ {req[r].new}) \cup ({req[r].old} \ {None}) /\ SetMem(r, m)
    BY <1>4, <1>9 DEF Undo, Restored
  <2>2. /\ req[r].lost => mem' = mem
        /\ ~req[r].lost => mem'[req[r].proc] = m
        /\ \A p \in Processes \ {req[r].proc} : mem'[p] = mem[p]
    BY <1>1, <2>1, MemorySteps
  <2>3. req[r].old \in Columns /\ IsUpdate(r)
    BY <1>1, <1>9 DEF Undo, UpdatesColumns
  <2>4. \A p \in Processes, t \in Tables : t \in mem'[p] => t \in mem[p]
    BY <1>2, <2>1, <2>2, <2>3
  <2>. QED BY <1>3, <1>5, <1>9, <2>3, <2>4 DEF Undo, base, history
<1>10. ASSUME Commit(r) PROVE Seen
  <2>1. IsUpdate(r)
    BY <1>1, <1>10 DEF Commit, UpdatesColumns
  <2>2. \A t \in Tables : t \in db => t \in db'
    BY <1>2, <1>3, <1>4, <1>10, <2>1 DEF Commit, Replaced, Touched
  <2>3. \A p \in Processes : suspect[p] \subseteq suspect'[p]
    BY <1>10, Values DEF Commit, Suspects
  <2>. QED BY <1>3, <1>5, <1>10, <2>1, <2>2, <2>3 DEF Commit
<1>11. ASSUME Alter(r) \/ UndoFails(r) PROVE Seen
  BY <1>3, <1>5, <1>11 DEF Alter, UndoFails, base, history
<1>12. ASSUME AddConstraint(r) \/ Prepare(r) \/ OpenFile(r) \/ WriteFile(r) PROVE Seen
  <2>1. \A p \in Processes, t \in Tables : ~Explains(r, p, t)
    BY <1>12 DEF AddConstraint, Prepare, OpenFile, WriteFile, Explains, At
  <2>. QED BY <1>5, <1>12, <2>1 DEF AddConstraint, Prepare, OpenFile, WriteFile, base, history
<1>13. ASSUME RemoveItem(r) PROVE Seen
  <2>1. UNCHANGED <<db, suspect>> /\ At(r, {"remove"})
    BY <1>13 DEF RemoveItem, base
  <2>2. req[r].new = None
    BY <2>1 DEF UpdatesColumns
  <2>3. CASE SetMem(r, MemOf(r) \ {req[r].old})
    <3>1. PICK m \in Schemas : m = mem[req[r].proc] \ {req[r].old} /\ SetMem(r, m)
      BY <1>4, <2>3
    <3>2. /\ req[r].lost => mem' = mem
          /\ ~req[r].lost => mem'[req[r].proc] = m
          /\ \A p \in Processes \ {req[r].proc} : mem'[p] = mem[p]
      BY <1>1, <3>1, MemorySteps
    <3>3. ASSUME NEW p \in Processes, NEW t \in Tables, t \in mem'[p]
          PROVE  t \in mem[p] /\ ~Explains(r, p, t)
      BY <2>1, <3>1, <3>2, <3>3 DEF Explains, At
    <3>. QED BY <2>1, <3>3
  <2>4. CASE mem' = mem /\ req[r].old \in Columns
    <3>1. ASSUME NEW p \in Processes, NEW t \in Tables PROVE ~Explains(r, p, t)
      BY <1>2, <2>1, <2>4 DEF Explains, At
    <3>. QED BY <1>5, <2>1, <2>4, <3>1
  <2>. QED BY <1>13, <2>3, <2>4 DEF RemoveItem
<1>14. Seen \/ Explained'
  BY <1>6, <1>8, <1>9, <1>10, <1>11, <1>12, <1>13 DEF ChangeStep
<1>. QED BY <1>1, <1>14, ExplainedByStep

LEMMA NextExplained == TypeInv /\ UpdatesColumns /\ Explained /\ [Next]_vars => Explained'
<1>. SUFFICES ASSUME TypeInv, UpdatesColumns, Explained, [Next]_vars PROVE Explained'
  OBVIOUS
<1>1. ASSUME NEW r \in Changes, NEW p \in Processes, NEW o \in Items \cup {None},
             NEW n \in Items \cup {None}, Begin(r, p, o, n)
      PROVE  Explained'
  <2>1. /\ req'[r] = Change("ddl", p, o, n) /\ \A s \in Changes \ {r} : req'[s] = req[s]
        /\ At(r, {"idle"}) /\ db' = db /\ suspect' = suspect
    BY <1>1, Values DEF Begin, base
  <2>2. \A q \in Processes : mem'[q] \subseteq mem[q] \cup (IF q = p THEN {n} ELSE {})
    BY <1>1, Values DEF Begin
  <2>3. ASSUME NEW q \in Processes, NEW t \in Tables, t \in mem'[q] \ db', t \notin suspect'[q]
        PROVE  \E s \in Changes : Explains(s, q, t)'
    <3>1. CASE q = p /\ t = n
      BY <2>1, <3>1 DEF Explains, At, Change
    <3>2. CASE ~(q = p /\ t = n)
      <4>1. PICK s \in Changes : Explains(s, q, t)
        BY <2>1, <2>2, <2>3, <3>2 DEF Explained, Explains
      <4>2. s # r
        BY <2>1, <4>1 DEF Explains, At
      <4>. QED BY <2>1, <4>1, <4>2 DEF Explains, At
    <3>. QED BY <3>1, <3>2
  <2>. QED BY <2>3 DEF Explained, Explains
<1>2. ASSUME NEW p \in Processes, Load(p)
      PROVE  Explained'
  <2>1. \A q \in Processes \ {p} : mem'[q] = mem[q] /\ suspect'[q] = suspect[q]
    BY <1>2, Values DEF Load
  <2>2. suspect'[p] = (mem'[p] \ db) \cup (db \ mem'[p])
    BY <1>2, Values DEF Load
  <2>. QED BY <1>2, <2>1, <2>2 DEF Load, base, Explained, Explains, At
<1>3. ASSUME NEW p \in Processes, mem' = [mem EXCEPT ![p] = {}], suspect' = [suspect EXCEPT ![p] = {}], db' = db,
             \A r \in Changes : req[r].proc # p => req'[r] = req[r]
      PROVE  Explained'
  <2>1. ASSUME NEW q \in Processes, NEW t \in Tables, t \in mem'[q] \ db', t \notin suspect'[q]
        PROVE  \E s \in Changes : Explains(s, q, t)'
    <3>1. q # p /\ t \in mem[q] \ db /\ t \notin suspect[q]
      BY <1>3, <2>1, Values
    <3>2. PICK s \in Changes : Explains(s, q, t)
      BY <3>1 DEF Explained, Explains
    <3>. QED BY <1>3, <3>1, <3>2 DEF Explains, At
  <2>. QED BY <2>1 DEF Explained, Explains
<1>4. ASSUME NEW p \in Processes, Dispose(p)
      PROVE  Explained'
  <2>1. CASE boot[p] = "ready"
    BY <1>3, <1>4, <2>1, ForgetStep DEF Dispose, base
  <2>2. CASE boot[p] # "ready"
    BY <1>4, <2>2 DEF Dispose, base, Explained, Explains, At
  <2>. QED BY <2>1, <2>2
<1>5. ASSUME NEW p \in Processes, Crash(p)
      PROVE  Explained'
  BY <1>3, <1>5 DEF Crash
<1>6. CASE Outside
  <2>1. PICK i \in Items : /\ db' = IF i \in db THEN db \ {i} ELSE db \cup {i}
                           /\ suspect' = [q \in Processes |-> suspect[q] \cup {i}]
    BY <1>6 DEF Outside
  <2>. QED BY <1>6, <2>1 DEF Outside, Explained, Explains, At
<1>7. ASSUME req' = req, mem' = mem, db' = db, suspect' = suspect
      PROVE  Explained'
  BY <1>7 DEF Explained, Explains, At
<1>8. ASSUME NEW p \in Processes, Start(p) \/ OpenNew(p) \/ WriteNew(p) \/ RemoveFile(p) \/ Reloaded(p)
      PROVE  Explained'
  BY <1>7, <1>8 DEF Start, OpenNew, WriteNew, RemoveFile, Reloaded, base
<1>9. CASE UNCHANGED vars
  BY <1>7, <1>9 DEF vars, base, history
<1>. QED BY <1>1, <1>2, <1>4, <1>5, <1>6, <1>8, <1>9, StepsExplained DEF Next

\* No failure, reload or restart makes a process keep a table that the database does not
\* have, for any number of overlapping changes and processes (views/table.py:76-102).
THEOREM NoPhantomTableAlways == Spec => []NoPhantomTable
<1>1. TypeInv /\ Explained => NoPhantomTable
  BY DEF Explained, Explains, NoPhantomTable, Active, At, Resting
<1>. QED BY <1>1, InitTypes, NextTypes, InitColumns, NextColumns, InitExplained, NextExplained, PTL DEF Spec

-----------------------------------------------------------------------------
(* Reloads                                                                 *)

LEMMA InitAway == Init => FileStaysAway
BY DEF Init, FileStaysAway

LEMMA NextAway == TypeInv /\ FileStaysAway /\ [Next]_vars => FileStaysAway'
<1>. SUFFICES ASSUME TypeInv, FileStaysAway, [Next]_vars PROVE FileStaysAway'
  OBVIOUS
<1>1. CASE file' = file /\ boot' = boot /\ reloads' = reloads /\ clean' = clean
  BY <1>1 DEF FileStaysAway, Loadable
<1>2. ASSUME NEW r \in Changes, ChangeStep(r)
      PROVE  FileStaysAway'
  <2>1. CASE OpenFile(r) \/ WriteFile(r)
    BY <2>1 DEF OpenFile, WriteFile, Dirty, FileStaysAway, Loadable
  <2>. QED BY <1>1, <1>2, <2>1 DEF ChangeStep, Execute, ExecuteFails, RemoveItem, AddConstraint, Alter, Undo, UndoFails,
              Commit, Prepare, PrepareFails, base, history
<1>3. ASSUME NEW p \in Processes, Start(p)
      PROVE  FileStaysAway'
  BY <1>3, Values DEF Start, FileStaysAway, Loadable
<1>4. ASSUME NEW p \in Processes, Load(p)
      PROVE  FileStaysAway'
  BY <1>4, Values DEF Load, FileStaysAway, Loadable
<1>5. ASSUME NEW p \in Processes, OpenNew(p)
      PROVE  FileStaysAway'
  BY <1>5, Values DEF OpenNew, FileStaysAway, Loadable
<1>6. ASSUME NEW p \in Processes, WriteNew(p)
      PROVE  FileStaysAway'
  BY <1>6, Values DEF WriteNew, FileStaysAway
<1>7. ASSUME NEW p \in Processes, RemoveFile(p)
      PROVE  FileStaysAway'
  <2>1. CASE file' = None
    BY <1>7, <2>1, Values DEF RemoveFile, FileStaysAway, Loadable
  <2>2. CASE file' = file /\ clean' = [clean EXCEPT ![p] = FALSE]
    BY <1>7, <2>2, Values DEF RemoveFile, FileStaysAway, Loadable
  <2>. QED BY <1>7, <2>1, <2>2 DEF RemoveFile
<1>8. ASSUME NEW p \in Processes, Dispose(p)
      PROVE  FileStaysAway'
  <2>1. /\ file' = file /\ clean' = clean /\ reloads' = [reloads EXCEPT ![p] = "waiting"] /\ reloads[p] = "removed"
        /\ boot' = boot \/ boot' = [boot EXCEPT ![p] = "off"]
    BY <1>8 DEF Dispose
  <2>. QED BY <2>1, Values DEF FileStaysAway, Loadable
<1>9. ASSUME NEW p \in Processes, Reloaded(p) \/ Crash(p)
      PROVE  FileStaysAway'
  BY <1>9, Values DEF Reloaded, Crash, FileStaysAway, Loadable
<1>10. Outside \/ UNCHANGED vars => FileStaysAway'
  BY <1>1 DEF Outside, vars, history
<1>11. ASSUME NEW r \in Changes, NEW p \in Processes, NEW o \in Items \cup {None},
              NEW n \in Items \cup {None}, Begin(r, p, o, n)
       PROVE  FileStaysAway'
  BY <1>1, <1>11 DEF Begin
<1>. QED BY <1>2, <1>3, <1>4, <1>5, <1>6, <1>7, <1>8, <1>9, <1>10, <1>11 DEF Next

\* A reload reads the database again (views/reload.py:19-28), whatever happens between its
\* steps, unless a connection was being set up when it began, the file could not be removed
\* or a metadata file was written meanwhile.
THEOREM ReloadIsFreshAlways == Spec => ReloadIsFresh
<1>1. TypeInv /\ FileStaysAway /\ [Next]_vars =>
        [\A p \in Processes : Load(p) /\ clean[p] => mem'[p] = db]_vars
  BY Values DEF FileStaysAway, Load
<1>. QED BY <1>1, InitTypes, NextTypes, InitAway, NextAway, PTL DEF Spec, ReloadIsFresh

-----------------------------------------------------------------------------
(* Copies of the schema                                                    *)

\* While nothing has overlapped, a change under way has its process to itself, and the
\* metadata is ahead of the database by what the change is about to do to it, or behind
\* by what it has destroyed.
Ahead(r) ==
    \/ IsUpdate(r) /\ At(r, {"ddl", "prepare", "open", "write", "commit"})
    \/ At(r, {"ddl"}) /\ req[r].old = None

Underway(r) ==
    LET p == req[r].proc IN
    /\ boot[p] = "ready" /\ \A q \in Processes \ {p} : boot[q] = "off"
    /\ \A q \in Processes : reloads[q] = "none"
    /\ ~req[r].lost /\ req[r].held = None
    /\ {req[r].old, req[r].new} # {None}
    /\ mem[p] = IF Ahead(r) THEN Replaced(db, r) ELSE IF At(r, {"remove"}) THEN db \cup {req[r].old} ELSE db
    /\ At(r, {"ddl"}) \/ Ahead(r) => Possible(r)
    /\ At(r, {"remove"}) => req[r].old \notin db
    /\ At(r, {"constraint"}) => ~IsUpdate(r)
    /\ At(r, {"ddl"}) => classes[p] = db /\ file = db
    /\ At(r, {"open", "write", "commit", "reopen", "rewrite"}) => classes[p] = mem[p]
    /\ At(r, {"commit"}) => file = mem[p]

\* A process that will write the metadata file, or find one that is right.
Fixing(p) ==
    \/ boot[p] \in {"open", "write"}
    \/ reloads[p] = "removed"
    \/ reloads[p] = "waiting" /\ boot[p] # "ready"

\* Without a change under way, every copy that is there is that of the database, and the
\* file is missing or torn only as long as a process is about to write it.
Settled ==
    /\ Loadable => file = db
    /\ \A p \in Processes :
        /\ boot[p] \in {"open", "write", "ready"} => mem[p] = db
        /\ boot[p] = "ready" => classes[p] = db
        /\ reloads[p] = "removed" => boot[p] = "ready"
        /\ boot[p] = "ready" /\ file # db => \E q \in Processes : Fixing(q)

Agreeing ==
    serial =>
        /\ \A r, s \in Active : r = s
        /\ \A r \in Active : Underway(r)
        /\ Active = {} => Settled

LEMMA InitAgrees == Init => Agreeing
<1>. SUFFICES ASSUME Init PROVE Agreeing
  OBVIOUS
<1>1. Active = {}
  BY DEF Init, Active, At, Rest, Change, Resting
<1>. QED BY <1>1 DEF Init, Agreeing, Settled, Loadable

\* While r runs alone, its steps leave it alone.
LEMMA RunsAlone ==
    ASSUME TypeInv, serial, Agreeing, NEW r \in Changes, At(r, Steps)
    PROVE  /\ Active = {r} /\ Underway(r)
           /\ Ends(r) => Active' = {}
           /\ \A step \in Steps : Goto(r, step) => Active' = {r}
<1>1. Active = {r} /\ Underway(r)
  BY DEF Agreeing, Active, At, Steps, Resting
<1>2. \A s \in Changes \ {r} : At(s, Resting)
  BY <1>1 DEF Active
<1>3. Ends(r) => Active' = {}
  BY <1>2, Values, EndsStep DEF Active, At, Resting
<1>4. ASSUME NEW step \in Steps, Goto(r, step) PROVE Active' = {r}
  <2>1. /\ \A s \in Changes \ {r} : req'[s] = req[s] /\ req[s].pc \in Resting
        /\ req'[r].pc \notin Resting
    BY <1>2, <1>4, Values, GotoStep DEF At, Steps, Resting
  <2>. QED BY <2>1 DEF Active, At
<1>. QED BY <1>1, <1>3, <1>4

\* One change that runs alone never overlaps another writer of the file.
LEMMA OneWriter ==
    ASSUME NEW r \in Changes, Active = {r}, \A p \in Processes : boot[p] # "write"
    PROVE  ~(Writers > 1)
<1>. DEFINE W == {s \in Changes : At(s, {"write", "rewrite"})}
            B == {p \in Processes : boot[p] = "write"}
<1>1. W \subseteq Active
  BY DEF Active, At, Resting
<1>2. W = {} \/ W = {r}
  BY <1>1
<1>3. Cardinality(W) = 0 \/ Cardinality(W) = 1
  <2>1. CASE W = {}
    BY <2>1, FS_EmptySet
  <2>2. CASE W = {r}
    BY <2>2, FS_Singleton
  <2>. QED BY <1>2, <2>1, <2>2
<1>4. B = {} /\ Cardinality(B) = 0
  BY FS_EmptySet
<1>5. Writers = Cardinality(W) + Cardinality(B)
  BY DEF Writers
<1>. HIDE DEF W, B
<1>. QED BY <1>3, <1>4, <1>5

\* Without changes, writers that overlap are connections being set up.
LEMMA OtherWriter ==
    ASSUME NEW p \in Processes, Active = {}, Writers > 1
    PROVE  \E q \in Processes \ {p} : boot[q] = "write"
<1>. DEFINE W == {s \in Changes : At(s, {"write", "rewrite"})}
            B == {q \in Processes : boot[q] = "write"}
<1>1. W = {} /\ Cardinality(W) = 0
  <2>1. W \subseteq Active
    BY DEF Active, At, Resting
  <2>. QED BY <2>1, FS_EmptySet
<1>2. Writers = Cardinality(W) + Cardinality(B)
  BY DEF Writers
<1>3. SUFFICES ASSUME B = {} \/ B = {p} PROVE FALSE
  OBVIOUS
<1>4. Cardinality(B) = 0 \/ Cardinality(B) = 1
  <2>1. CASE B = {}
    BY <2>1, FS_EmptySet
  <2>2. CASE B = {p}
    BY <2>2, FS_Singleton
  <2>. QED BY <1>3, <2>1, <2>2
<1>. HIDE DEF W, B
<1>. QED BY <1>1, <1>2, <1>4

\* What a change that runs alone knows of its process, and what is to be shown of its
\* next step: Underway if it goes on, Settled if it ends.
LEMMA AgreeingByStep ==
    ASSUME TypeInv, serial, Agreeing, NEW r \in Changes, At(r, Steps), serial' => 
              \/ Ends(r) /\ Settled'
              \/ \E step \in Steps : Goto(r, step) /\ Underway(r)'
    PROVE  Agreeing'
BY RunsAlone DEF Agreeing

\* All is settled when a change that ran alone leaves everything as in the database.
LEMMA SettledAfter ==
    ASSUME TypeInv, NEW r \in Changes, At(r, Steps), Underway(r), boot' = boot, reloads' = reloads,
           mem'[req[r].proc] = db', classes'[req[r].proc] = db', file' = db'
    PROVE  Settled'
<1>1. req[r].proc \in Processes
  BY HelperTypes
<1>2. \A q \in Processes : /\ reloads'[q] = "none"
                           /\ q # req[r].proc => boot'[q] = "off"
                           /\ q = req[r].proc => boot'[q] = "ready"
  BY DEF Underway
<1>. QED BY <1>1, <1>2 DEF Settled

\* The change goes on from a statement it has sent.
LEMMA UnderwayAfter ==
    ASSUME TypeInv, NEW r \in Changes, At(r, Steps), Underway(r), NEW step \in Steps \ {"ddl", "remove"}, Goto(r, step),
           boot' = boot, reloads' = reloads,
           LET p == req[r].proc
               ahead == IsUpdate(r) /\ step \in {"prepare", "open", "write", "commit"}
           IN  /\ mem'[p] = IF ahead THEN Replaced(db', r) ELSE db'
               /\ ahead => /\ req[r].old \in db'
                           /\ req[r].new # req[r].old => req[r].new \notin db'
               /\ step = "constraint" => ~IsUpdate(r)
               /\ step \in {"open", "write", "commit", "reopen", "rewrite"} => classes'[p] = mem'[p]
               /\ step = "commit" => file' = mem'[p]
    PROVE  Underway(r)'
<1>1. /\ req'[r].pc = step /\ req'[r].proc = req[r].proc
      /\ req'[r].old = req[r].old /\ req'[r].new = req[r].new
      /\ req'[r].lost = req[r].lost /\ req'[r].held = req[r].held
  BY Values, GotoStep
<1>2. /\ IsUpdate(r)' <=> IsUpdate(r)
      /\ Ahead(r)' <=> IsUpdate(r) /\ step \in {"prepare", "open", "write", "commit"}
      /\ Replaced(db, r)' = Replaced(db', r)
      /\ \A steps : At(r, steps)' <=> step \in steps
  BY <1>1 DEF IsUpdate, Ahead, At, Replaced
<1>3. Ahead(r)' => Possible(r)'
  BY <1>1, <1>2 DEF Possible
<1>4. mem'[req[r].proc] = IF Ahead(r)' THEN Replaced(db, r)' ELSE db'
  BY <1>2
<1>5. ~At(r, {"remove"})'
  BY <1>2
<1>. QED BY <1>1, <1>2, <1>3, <1>4, <1>5 DEF Underway, At

LEMMA StatementsAgree ==
    ASSUME TypeInv, UpdatesColumns, serial, Agreeing, NEW r \in Changes,
           \/ Execute(r) \/ ExecuteFails(r) \/ RemoveItem(r) \/ AddConstraint(r)
           \/ Alter(r) \/ Undo(r) \/ UndoFails(r) \/ Commit(r)
    PROVE  Agreeing'
<1>. DEFINE p == req[r].proc
            o == req[r].old
            n == req[r].new
<1>1. At(r, Steps) /\ boot' = boot /\ reloads' = reloads
  BY DEF Execute, ExecuteFails, RemoveItem, AddConstraint, Alter, Undo, UndoFails, Commit, At, Steps, history
<1>2. Underway(r) /\ p \in Processes
  BY <1>1, RunsAlone, HelperTypes
<1>3. /\ {o, n} # {None} /\ ~req[r].lost /\ o \in Items \cup {None} /\ n \in Items \cup {None}
      /\ mem \in [Processes -> Schemas] /\ db \in Schemas /\ None \notin Items /\ None \notin db
  <2>1. Valid(r) /\ req[r].pc \notin Resting
    BY <1>1, Values DEF At, Steps, Resting
  <2>. QED BY <1>2, <2>1, Values, SchemaAssumption DEF Underway, Valid, SchemaAssumption, Items, Schemas
<1>4. CASE Execute(r)
  <2>1. /\ At(r, {"ddl"}) /\ Possible(r) /\ (o = None \/ n = None)
        /\ db' = (db \ {o}) \cup ({n} \ {None})
        /\ mem[p] = IF o = None THEN (db \ {o}) \cup ({n} \ {None}) ELSE db
        /\ mem' = mem
    BY <1>2, <1>4 DEF Execute, Underway, Ahead, IsUpdate, Replaced, At
  <2>2. PICK step \in {"remove", "constraint", "prepare"} :
            Goto(r, step) /\ (step = "remove" <=> n = None)
    BY <1>3, <1>4 DEF Execute
  <2>3. step \in Steps
    BY <2>2 DEF Steps
  <2>4. mem'[p] = IF step = "remove" THEN db' \cup {o} ELSE db'
    <3>1. CASE n = None
      BY <1>3, <2>1, <2>2, <3>1 DEF Possible
    <3>2. CASE n # None
      BY <1>3, <2>1, <2>2, <3>2
    <3>. QED BY <3>1, <3>2
  <2>5. o \notin db' \/ step # "remove"
    BY <2>1, <2>2
  <2>6. Underway(r)'
    BY <1>1, <1>2, <2>1, <2>2, <2>3, <2>4, <2>5, Values, GotoStep DEF Underway, Ahead, IsUpdate, At
  <2>. QED BY <1>1, <2>2, <2>3, <2>6, AgreeingByStep
<1>5. CASE ExecuteFails(r)
  <2>1. SUFFICES ASSUME serial' PROVE Settled'
    BY <1>1, <1>5, AgreeingByStep DEF ExecuteFails
  <2>2. /\ n \notin Columns /\ (o = None \/ n = None) /\ (n # None => n \notin db)
        /\ mem[p] = IF o = None THEN (db \ {o}) \cup ({n} \ {None}) ELSE db
        /\ classes[p] = db /\ file = db
    BY <1>2, <1>5, <2>1 DEF ExecuteFails, Underway, Ahead, IsUpdate, Replaced, At, Possible
  <2>3. mem'[p] = mem[p] \ (Tables \cap {n})
    BY <1>2, <1>3, <1>5 DEF ExecuteFails, SetMem, MemOf
  <2>4. n \in Tables \cup {None}
    BY <1>3, <2>2 DEF Items
  <2>5. mem'[p] = db
    BY <1>3, <2>2, <2>3, <2>4
  <2>. QED BY <1>1, <1>2, <1>5, <2>2, <2>5, SettledAfter DEF ExecuteFails, base
<1>6. CASE AddConstraint(r) /\ serial'
  <2>1. Goto(r, "prepare") /\ "prepare" \in Steps /\ At(r, {"constraint"})
    BY <1>6 DEF AddConstraint, Spoiled, Steps
  <2>2. Underway(r)'
    BY <1>2, <1>6, <2>1, Values, GotoStep DEF AddConstraint, base, Underway, Ahead, IsUpdate, At
  <2>. QED BY <1>1, <2>1, <2>2, AgreeingByStep
<1>7. CASE Alter(r)
  <2>1. Goto(r, "prepare") /\ "prepare" \in Steps /\ At(r, {"ddl"}) /\ IsUpdate(r)
    BY <1>7 DEF Alter, Steps
  <2>2. Underway(r)'
    <3>1. mem[p] = Replaced(db, r) /\ o \in db /\ (n # o => n \notin db)
      BY <1>2, <2>1 DEF Underway, Ahead, Possible, IsUpdate, At
    <3>2. UNCHANGED <<db, file, boot, mem, classes, reloads>>
      BY <1>7 DEF Alter, base
    <3>. QED BY <1>1, <1>2, <2>1, <3>1, <3>2, UnderwayAfter
  <2>. QED BY <1>1, <2>1, <2>2, AgreeingByStep
<1>8. CASE Undo(r)
  <2>1. Goto(r, "reprepare") /\ "reprepare" \in Steps /\ IsUpdate(r)
    BY <1>8 DEF Undo, Steps
  <2>2. mem[p] = (db \ {o}) \cup ({n} \ {None}) /\ o \in db /\ (n \in db => n = o) /\ n # None
    BY <1>2, <1>8 DEF Undo, Underway, Ahead, IsUpdate, Replaced, Possible, At
  <2>3. mem'[p] = (mem[p] \ {n}) \cup ({o} \ {None})
    BY <1>2, <1>3, <1>8 DEF Undo, SetMem, MemOf, Restored
  <2>4. mem'[p] = db
    BY <1>3, <2>2, <2>3
  <2>5. Underway(r)'
    BY <1>1, <1>2, <1>8, <2>1, <2>4, Values, GotoStep DEF Undo, base, Underway, Ahead, IsUpdate, At
  <2>. QED BY <1>1, <2>1, <2>5, AgreeingByStep
<1>9. CASE Commit(r)
  <2>1. SUFFICES ASSUME serial' PROVE Settled'
    BY <1>1, <1>9, AgreeingByStep DEF Commit
  <2>2. db' = Replaced(db, r) /\ IsUpdate(r) /\ At(r, {"commit"})
    BY <1>1, <1>9, <2>1 DEF Commit, Spoiled, UpdatesColumns
  <2>3. mem[p] = Replaced(db, r) /\ classes[p] = mem[p] /\ file = mem[p]
    BY <1>2, <2>2 DEF Underway, Ahead, At
  <2>. QED BY <1>1, <1>2, <1>9, <2>2, <2>3, SettledAfter DEF Commit
<1>10. CASE serial' = FALSE
  BY <1>10 DEF Agreeing
<1>11. CASE RemoveItem(r) /\ serial'
  <2>1. /\ Goto(r, "prepare") /\ "prepare" \in Steps \ {"ddl", "remove"} /\ At(r, {"remove"})
        /\ SetMem(r, MemOf(r) \ {o}) /\ db' = db
    BY <1>11 DEF RemoveItem, Spoiled, Steps, base
  <2>2. n = None /\ ~IsUpdate(r) /\ ~Ahead(r)
    BY <2>1 DEF UpdatesColumns, IsUpdate, Ahead, At
  <2>3. mem[p] = db \cup {o} /\ o \notin db
    BY <1>2, <2>1, <2>2 DEF Underway
  <2>4. mem'[p] = db'
    BY <1>2, <1>3, <2>1, <2>3 DEF SetMem, MemOf
  <2>5. Underway(r)'
    BY <1>1, <1>2, <2>1, <2>2, <2>4, UnderwayAfter
  <2>. QED BY <1>1, <2>1, <2>5, AgreeingByStep
<1>. QED BY <1>4, <1>5, <1>6, <1>7, <1>8, <1>9, <1>10, <1>11 DEF UndoFails, AddConstraint, RemoveItem, Spoiled

LEMMA UpdateBaseAgrees ==
    ASSUME TypeInv, UpdatesColumns, serial, Agreeing, NEW r \in Changes,
           Prepare(r) \/ PrepareFails(r) \/ OpenFile(r) \/ WriteFile(r)
    PROVE  Agreeing'
<1>. DEFINE p == req[r].proc
            o == req[r].old
            n == req[r].new
<1>1. At(r, Steps) /\ boot' = boot /\ reloads' = reloads /\ db' = db
  BY DEF Prepare, PrepareFails, OpenFile, WriteFile, At, Steps, base
<1>2. Underway(r) /\ Active = {r} /\ p \in Processes
  BY <1>1, RunsAlone, HelperTypes
<1>3. CASE Prepare(r)
  <2>1. PICK step \in {"open", "reopen"} :
            Goto(r, step) /\ step = IF At(r, {"prepare"}) THEN "open" ELSE "reopen"
    BY <1>3 DEF Prepare
  <2>2. step \in Steps
    BY <2>1 DEF Steps
  <2>3. classes'[p] = mem[p] /\ mem' = mem
    BY <1>2, <1>3, Values DEF Prepare, MemOf
  <2>4. Underway(r)'
    <3>1. /\ Ahead(r) <=> IsUpdate(r) /\ step = "open"
          /\ mem[p] = IF Ahead(r) THEN Replaced(db, r) ELSE db
          /\ Ahead(r) => o \in db /\ (n # o => n \notin db)
      BY <1>2, <1>3, <2>1 DEF Prepare, Underway, Ahead, Possible, IsUpdate, At
    <3>. QED BY <1>1, <1>2, <2>1, <2>2, <2>3, <3>1, UnderwayAfter
  <2>. QED BY <1>1, <2>1, <2>2, <2>4, AgreeingByStep
<1>4. CASE OpenFile(r) /\ serial'
  <2>1. PICK step \in {"write", "rewrite"} :
            Goto(r, step) /\ step = IF At(r, {"open"}) THEN "write" ELSE "rewrite"
    BY <1>4 DEF OpenFile, Spoiled
  <2>2. step \in Steps
    BY <2>1 DEF Steps
  <2>3. Underway(r)'
    <3>1. /\ Ahead(r) <=> IsUpdate(r) /\ step = "write"
          /\ mem[p] = IF Ahead(r) THEN Replaced(db, r) ELSE db
          /\ Ahead(r) => o \in db /\ (n # o => n \notin db)
          /\ classes[p] = mem[p]
      BY <1>2, <1>4, <2>1 DEF OpenFile, Underway, Ahead, Possible, IsUpdate, At
    <3>2. mem' = mem /\ classes' = classes
      BY <1>4 DEF OpenFile
    <3>. QED BY <1>1, <1>2, <2>1, <2>2, <3>1, <3>2, UnderwayAfter
  <2>. QED BY <1>1, <2>1, <2>2, <2>3, AgreeingByStep
<1>5. CASE WriteFile(r) /\ serial'
  <2>1. ~(Writers > 1)
    BY <1>2, OneWriter DEF Underway
  <2>2. file' = mem[p] /\ mem' = mem /\ classes' = classes
    BY <1>2, <1>5, <2>1 DEF WriteFile, Written, Spoiled, Underway, MemOf
  <2>3. CASE At(r, {"write"}) /\ IsUpdate(r)
    <3>1. Goto(r, "commit") /\ "commit" \in Steps
      BY <1>5, <2>3 DEF WriteFile, Dumped, At, Steps
    <3>2. Underway(r)'
      <4>1. /\ mem[p] = Replaced(db, r) /\ classes[p] = mem[p]
            /\ o \in db /\ (n # o => n \notin db)
        BY <1>2, <2>3 DEF Underway, Ahead, Possible, IsUpdate, At
      <4>. QED BY <1>1, <1>2, <2>2, <2>3, <3>1, <4>1, UnderwayAfter
    <3>. QED BY <1>1, <3>1, <3>2, AgreeingByStep
  <2>4. CASE ~(At(r, {"write"}) /\ IsUpdate(r))
    <3>1. Ends(r) /\ At(r, {"write", "rewrite"})
      BY <1>5, <2>4 DEF WriteFile, Dumped, At
    <3>2. mem[p] = db /\ classes[p] = mem[p]
      BY <1>2, <2>4, <3>1 DEF Underway, Ahead, At
    <3>3. Settled'
      BY <1>1, <1>2, <2>2, <3>2, SettledAfter
    <3>. QED BY <1>1, <3>1, <3>3, AgreeingByStep
  <2>. QED BY <2>3, <2>4
<1>6. CASE serial' = FALSE
  BY <1>6 DEF Agreeing
<1>7. serial' \in BOOLEAN
  BY UpdateBaseTypes, Values DEF TypeInv, TypeOK
<1>. QED BY <1>3, <1>4, <1>5, <1>6, <1>7 DEF PrepareFails, Spoiled

\* What a step that leaves the database alone has to show of each process.
LEMMA SettledStep ==
    ASSUME Settled, db' = db, file' \in {file, db, None, Torn},
           \A q \in Processes :
              /\ boot'[q] \in {"open", "write", "ready"} =>
                   mem'[q] = db \/ (mem'[q] = mem[q] /\ boot[q] \in {"open", "write", "ready"})
              /\ boot'[q] = "ready" => classes'[q] = db \/ (classes'[q] = classes[q] /\ boot[q] = "ready")
              /\ reloads'[q] = "removed" => \/ boot'[q] = "ready"
                                            \/ reloads[q] = "removed" /\ boot'[q] = boot[q],
           \/ file' = db
           \/ \E q \in Processes : Fixing(q)'
           \/ /\ file' = file /\ \A q \in Processes : Fixing(q) => Fixing(q)'
              /\ \A q \in Processes : boot'[q] = "ready" => boot[q] = "ready"
           \/ \A q \in Processes : boot'[q] = "ready" => file' = db
    PROVE  Settled'
<1>1. Loadable' => file' = db'
  BY DEF Settled, Loadable
<1>2. ASSUME NEW q \in Processes
      PROVE  /\ boot'[q] \in {"open", "write", "ready"} => mem'[q] = db'
             /\ boot'[q] = "ready" => classes'[q] = db'
             /\ reloads'[q] = "removed" => boot'[q] = "ready"
  BY <1>2 DEF Settled
<1>3. ASSUME NEW q \in Processes, boot'[q] = "ready", file' # db'
      PROVE  \E t \in Processes : Fixing(t)'
  BY <1>3 DEF Settled
<1>. QED BY <1>1, <1>2, <1>3 DEF Settled

\* Connections are set up and reloaded only while no change runs.
LEMMA ConnectionsAgree ==
    ASSUME TypeInv, serial, Agreeing, NEW p \in Processes,
           \/ Start(p) \/ Load(p) \/ OpenNew(p) \/ WriteNew(p)
           \/ RemoveFile(p) \/ Dispose(p) \/ Reloaded(p) \/ Crash(p)
    PROVE  Agreeing'
<1>. SUFFICES ASSUME serial' PROVE Active' = {} /\ Settled'
  BY DEF Agreeing
<1>1. Active = {} /\ Settled
  <2>1. ASSUME NEW r \in Active PROVE FALSE
    <3>1. Underway(r) /\ r \in Changes
      BY DEF Agreeing, Active
    <3>2. \A q \in Processes : boot[q] \in {"off", "ready"} /\ reloads[q] = "none"
      BY <3>1 DEF Underway
    <3>3. ~Quiet
      BY DEF Quiet
    <3>. QED BY <3>2, <3>3 DEF Start, Load, OpenNew, WriteNew, RemoveFile, Dispose, Reloaded, Crash
  <2>. QED BY <2>1 DEF Agreeing
<1>2. Active' = {}
  <2>1. \A r \in Changes : req[r].pc \in Resting
    BY <1>1 DEF Active, At
  <2>2. Rest("over").pc \in Resting
    BY DEF Rest, Change, Resting
  <2>3. \A r \in Changes : req'[r] = req[r] \/ req'[r] = Rest("over")
    BY <1>1 DEF Start, Load, OpenNew, WriteNew, RemoveFile, Dispose, Reloaded, Crash, Forget
  <2>. QED BY <2>1, <2>2, <2>3 DEF Active, At
<1>. SUFFICES Settled'
  BY <1>2
<1>3. CASE Start(p)
  <2>1. /\ \A q \in Processes : boot'[q] = IF q = p THEN "load" ELSE boot[q]
        /\ UNCHANGED <<db, file, mem, classes, reloads>> /\ boot[p] = "off" /\ reloads[p] # "removed"
    BY <1>1, <1>3, Values DEF Start, base, Settled
  <2>2. \A q \in Processes : Fixing(q) => Fixing(q)'
    BY <2>1 DEF Fixing
  <2>. QED BY <1>1, <2>1, <2>2, SettledStep
<1>4. CASE Load(p)
  <2>1. /\ \A q \in Processes \ {p} : mem'[q] = mem[q] /\ boot'[q] = boot[q] /\ classes'[q] = classes[q]
        /\ mem'[p] = db /\ boot'[p] = IF Loadable THEN "ready" ELSE "open"
        /\ Loadable => classes'[p] = db /\ file = db
        /\ reloads[p] # "removed" /\ db' = db /\ file' = file /\ reloads' = reloads
    BY <1>1, <1>4, Values DEF Load, base, Settled
  <2>2. ~Loadable => Fixing(p)'
    BY <2>1 DEF Fixing
  <2>3. \A q \in Processes : q # p => (Fixing(q) => Fixing(q)')
    BY <2>1 DEF Fixing
  <2>4. boot[p] = "load"
    BY <1>4 DEF Load
  <2>. QED BY <1>1, <2>1, <2>2, <2>3, <2>4, SettledStep
<1>5. CASE OpenNew(p)
  <2>1. Fixing(p)' /\ file' = Torn /\ reloads[p] # "removed"
    BY <1>1, <1>5, Values DEF OpenNew, Fixing, Settled, Spoiled
  <2>2. /\ \A q \in Processes : boot'[q] = IF q = p THEN "write" ELSE boot[q]
        /\ UNCHANGED <<db, mem, classes, reloads>> /\ boot[p] = "open"
    BY <1>5, Values DEF OpenNew, base, Spoiled
  <2>. QED BY <1>1, <2>1, <2>2, SettledStep
<1>6. CASE WriteNew(p)
  <2>1. /\ \A q \in Processes \ {p} : boot'[q] = boot[q] /\ classes'[q] = classes[q]
        /\ mem'[p] = db /\ boot'[p] = "ready" /\ classes'[p] = db
        /\ mem' = mem /\ db' = db /\ reloads' = reloads
    BY <1>1, <1>6, Values DEF WriteNew, base, Settled
  <2>2. file' = db \/ (file' = Torn /\ \E q \in Processes : Fixing(q)')
    <3>1. file' = db \/ (file' = Torn /\ Writers > 1)
      BY <1>1, <1>6 DEF WriteNew, Written, Spoiled, Settled
    <3>2. ASSUME NEW q \in Processes \ {p}, boot[q] = "write" PROVE Fixing(q)'
      BY <2>1, <3>2 DEF Fixing
    <3>. QED BY <1>1, <3>1, <3>2, OtherWriter
  <2>3. boot[p] = "write" /\ reloads[p] # "removed"
    BY <1>1, <1>6 DEF WriteNew, Settled
  <2>. QED BY <1>1, <2>1, <2>2, <2>3, SettledStep
<1>7. CASE RemoveFile(p)
  <2>1. Fixing(p)' /\ file' \in {file, None} /\ boot[p] = "ready"
    BY <1>7, Values DEF RemoveFile, Fixing, Quiet
  <2>2. /\ \A q \in Processes : reloads'[q] = IF q = p THEN "removed" ELSE reloads[q]
        /\ UNCHANGED <<db, boot, mem, classes>>
    BY <1>7, Values DEF RemoveFile
  <2>. QED BY <1>1, <2>1, <2>2, SettledStep
<1>8. CASE Dispose(p)
  <2>1. boot[p] = "ready"
    BY <1>1, <1>8 DEF Dispose, Settled
  <2>2. Fixing(p)'
    BY <1>8, <2>1, Values DEF Dispose, Fixing
  <2>3. /\ \A q \in Processes : /\ boot'[q] = IF q = p THEN "off" ELSE boot[q]
                                /\ reloads'[q] = IF q = p THEN "waiting" ELSE reloads[q]
                                /\ q # p => mem'[q] = mem[q] /\ classes'[q] = classes[q]
        /\ UNCHANGED <<db, file>>
    <3>1. /\ boot' = [boot EXCEPT ![p] = "off"] /\ reloads' = [reloads EXCEPT ![p] = "waiting"]
          /\ mem' = [mem EXCEPT ![p] = {}] /\ classes' = [classes EXCEPT ![p] = {}]
          /\ UNCHANGED <<db, file>>
      BY <1>8, <2>1 DEF Dispose, base
    <3>2. ASSUME NEW q \in Processes
          PROVE  /\ boot'[q] = IF q = p THEN "off" ELSE boot[q]
                 /\ reloads'[q] = IF q = p THEN "waiting" ELSE reloads[q]
      BY <3>1, Values
    <3>3. \A q \in Processes : q # p => mem'[q] = mem[q] /\ classes'[q] = classes[q]
      BY <3>1, Values
    <3>. QED BY <3>1, <3>2, <3>3
  <2>. QED BY <1>1, <2>1, <2>2, <2>3, SettledStep
<1>9. CASE Reloaded(p)
  <2>1. \A q \in Processes : Fixing(q) => Fixing(q)'
    BY <1>9, Values DEF Reloaded, Fixing
  <2>2. /\ \A q \in Processes : reloads'[q] = IF q = p THEN "none" ELSE reloads[q]
        /\ UNCHANGED <<db, file, boot, mem, classes>>
    BY <1>9, Values DEF Reloaded, base
  <2>. QED BY <1>1, <2>1, <2>2, SettledStep
<1>10. CASE Crash(p)
  <2>1. Quiet /\ \A q \in Processes : ~Fixing(q)
    BY <1>10 DEF Crash, Quiet, Fixing, Booting
  <2>2. /\ \A q \in Processes : /\ boot'[q] = IF q = p THEN "off" ELSE boot[q]
                                /\ reloads'[q] = IF q = p THEN "none" ELSE reloads[q]
                                /\ q # p => mem'[q] = mem[q] /\ classes'[q] = classes[q]
        /\ UNCHANGED <<db, file>>
    <3>1. /\ boot' = [boot EXCEPT ![p] = "off"] /\ reloads' = [reloads EXCEPT ![p] = "none"]
          /\ mem' = [mem EXCEPT ![p] = {}] /\ classes' = [classes EXCEPT ![p] = {}]
          /\ UNCHANGED <<db, file>>
      BY <1>10 DEF Crash
    <3>2. ASSUME NEW q \in Processes
          PROVE  /\ boot'[q] = IF q = p THEN "off" ELSE boot[q]
                 /\ reloads'[q] = IF q = p THEN "none" ELSE reloads[q]
      BY <3>1, Values
    <3>3. \A q \in Processes : q # p => mem'[q] = mem[q] /\ classes'[q] = classes[q]
      BY <3>1, Values
    <3>. QED BY <3>1, <3>2, <3>3
  <2>3. \A q \in Processes : boot[q] = "ready" => file = db
    BY <1>1, <2>1 DEF Settled
  <2>. QED BY <1>1, <2>2, <2>3, SettledStep
<1>. QED BY <1>3, <1>4, <1>5, <1>6, <1>7, <1>8, <1>9, <1>10

LEMMA BeginAgrees ==
    ASSUME TypeInv, serial, Agreeing, NEW r \in Changes, NEW p \in Processes,
           NEW o \in Items \cup {None}, NEW n \in Items \cup {None}, Begin(r, p, o, n)
    PROVE  Agreeing'
<1>. SUFFICES ASSUME serial' PROVE Active' = {r} /\ Underway(r)'
  BY DEF Agreeing
<1>1. /\ Quiet /\ (n \in mem[p] => n = o) /\ (\A q \in Processes \ {p} : boot[q] = "off")
      /\ boot[p] = "ready" /\ {o, n} # {None} /\ (o # None => o \in mem[p])
      /\ req' = [req EXCEPT ![r] = Change("ddl", p, o, n)]
      /\ mem' = IF n = None THEN mem ELSE [mem EXCEPT ![p] = (mem[p] \ {o}) \cup {n}]
      /\ db' = db /\ file' = file /\ boot' = boot /\ classes' = classes /\ reloads' = reloads
  BY DEF Begin, base
<1>2. req'[r] = Change("ddl", p, o, n) /\ \A s \in Changes \ {r} : req'[s] = req[s]
  BY <1>1, Values
<1>3. Active' = {r}
  BY <1>1, <1>2 DEF Quiet, Active, At, Change, Resting
<1>4. mem[p] = db /\ classes[p] = db /\ file = db
  BY <1>1 DEF Quiet, Agreeing, Settled, Fixing, Booting
<1>5. /\ req'[r].pc = "ddl" /\ req'[r].proc = p /\ req'[r].old = o /\ req'[r].new = n
      /\ req'[r].lost = FALSE /\ req'[r].held = None
  BY <1>2 DEF Change
<1>6. mem'[p] = IF n = None THEN db ELSE (db \ {o}) \cup {n}
  BY <1>1, <1>4, Values
<1>7. Possible(r)'
  BY <1>1, <1>4, <1>5 DEF Possible
<1>8. /\ Ahead(r)' <=> n # None
      /\ Replaced(db, r)' = (db \ {o}) \cup ({n} \ {None})
  BY <1>1, <1>5 DEF Ahead, IsUpdate, At, Replaced
<1>9. mem'[p] = IF Ahead(r)' THEN Replaced(db, r)' ELSE db'
  BY <1>1, <1>6, <1>8
<1>10. \A q \in Processes : reloads[q] = "none"
  BY <1>1 DEF Quiet
<1>11. Underway(r)'
  BY <1>1, <1>4, <1>5, <1>7, <1>9, <1>10 DEF Underway, At
<1>. QED BY <1>3, <1>11

LEMMA NextAgrees == TypeInv /\ UpdatesColumns /\ Agreeing /\ [Next]_vars => Agreeing'
<1>. SUFFICES ASSUME TypeInv, UpdatesColumns, Agreeing, [Next]_vars PROVE Agreeing'
  OBVIOUS
<1>1. CASE UNCHANGED vars
  <2>1. UNCHANGED <<db, file, boot, mem, classes, req, reloads, serial>>
    BY <1>1 DEF vars, base, history
  <2>. QED BY <2>1 DEF Agreeing, Settled, Underway, Ahead, Fixing, Loadable, Active, At, IsUpdate,
                       Possible, Replaced
<1>2. CASE Next /\ ~serial
  <2>1. ASSUME NEW r \in Changes, ChangeStep(r) PROVE serial' => serial
    BY <1>2, <2>1 DEF ChangeStep, Execute, ExecuteFails, RemoveItem, AddConstraint, Alter, Undo, UndoFails,
                Commit, Prepare, PrepareFails, OpenFile, WriteFile, Written, Spoiled, history
  <2>2. ASSUME NEW p \in Processes,
               \/ Start(p) \/ Load(p) \/ OpenNew(p) \/ WriteNew(p)
               \/ RemoveFile(p) \/ Dispose(p) \/ Reloaded(p) \/ Crash(p)
        PROVE  serial' => serial
    BY <1>2, <2>2 DEF Start, Load, OpenNew, WriteNew, Written, RemoveFile, Dispose, Reloaded, Crash, Spoiled
  <2>3. ASSUME NEW r \in Changes, NEW p \in Processes, NEW o \in Items \cup {None},
               NEW n \in Items \cup {None}, Begin(r, p, o, n)
        PROVE  serial' => serial
    BY <1>2, <2>3 DEF Begin
  <2>4. Outside => ~serial'
    BY DEF Outside, Spoiled
  <2>. QED BY <1>2, <2>1, <2>2, <2>3, <2>4 DEF Agreeing, Next
<1>3. CASE Next /\ serial
  <2>1. CASE Outside
    BY <2>1 DEF Outside, Spoiled, Agreeing
  <2>. QED BY <1>3, <2>1, BeginAgrees, StatementsAgree, UpdateBaseAgrees, ConnectionsAgree
           DEF Next, ChangeStep
<1>4. QED BY <1>1, <1>2, <1>3

\* Database, metadata, classes and file agree after every change that nothing overlapped
\* and whose failures the code undoes, over any number of changes, reloads and restarts
\* (views/table.py:76-141, views/table_column.py:100-339).
THEOREM CopiesAgreeAlways == Spec => []CopiesAgree
<1>1. Agreeing => CopiesAgree
  BY DEF Agreeing, Settled, Fixing, Quiet, CopiesAgree, Booting
<1>. QED BY <1>1, InitTypes, NextTypes, InitColumns, NextColumns, InitAgrees, NextAgrees, PTL DEF Spec
=============================================================================
