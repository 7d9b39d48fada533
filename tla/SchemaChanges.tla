---------------------------- MODULE SchemaChanges ----------------------------
(***************************************************************************)
(* Changes of tables and columns (views/table.py, views/table_column.py):  *)
(* each touches the database, the process's in-memory metadata, the mapped *)
(* classes made from it, and the metadata file that processes share        *)
(* (db_types/sql/sql_metadata_file.py), one after the other, and every     *)
(* step may fail.  Reloads (views/reload.py), restarts and changes made by *)
(* other tools make the copies meet again.                                 *)
(*                                                                         *)
(* A schema is the set of the items it has: tables, and columns of a table *)
(* that always exists.  A change replaces old by new: a creation has no    *)
(* old, a destruction no new, an update of a column (new name or new type) *)
(* has both.  One action is one statement sent to the database or one      *)
(* access to the file, with the memory accesses around it.                 *)
(***************************************************************************)
EXTENDS Integers, FiniteSets

CONSTANTS Processes,   \* bridge processes that share the metadata file
          Changes,     \* requests, each runs once
          Tables, Columns,
          None,        \* no item, no file
          Torn,        \* a file that cannot be loaded
          MaxUpsets    \* bound on reloads, crashes and changes made by other tools

ASSUME SchemaAssumption ==
    /\ MaxUpsets \in Nat
    /\ None # Torn
    /\ Tables \cap Columns = {}
    /\ None \notin Tables \cup Columns

Items == Tables \cup Columns
Schemas == SUBSET Items

VARIABLES
    db,        \* the database's schema
    upsets,    \* reloads, crashes and changes by other tools so far
    file,      \* the metadata file
    boot,      \* boot[p]: how far the process's connection is set up
    mem,       \* mem[p]: MappedBase.metadata
    classes,   \* classes[p]: MappedBase.classes
    req,       \* req[r]: what a change does, and where it is
    reloads,   \* reloads[p]: where a ReloadView.post of the process is
    suspect,   \* history: items changed in the database behind the back of p
    serial,    \* history: nothing has overlapped, or failed without an undo
    clean      \* history: clean[p]: nothing has come between its reload's steps

base == <<db, upsets>>
history == <<suspect, serial, clean>>
vars == <<base, file, boot, mem, classes, req, reloads, history>>

\* How a connection is set up, to a SQL database as to MongoDB: the metadata is loaded
\* from the file, or read from the database and written to the file.
Booting == {"load", "open", "write"}
Resting == {"idle", "over"}

\* Where a change is: its statements ("ddl", "constraint", "commit"), the removal of what
\* it has destroyed ("remove"), and update_base, which goes from "prepare" to "write", or
\* from "reprepare" to "rewrite" after an undo.
Steps == {"ddl", "constraint", "remove", "prepare", "open", "write", "commit",
          "reprepare", "reopen", "rewrite"}

\* The process, the item it replaces, and the one it puts in its place, which
\* map_dto_column makes of the request; lost: the table object
\* it edits is not in the metadata of its process any more; held: the metadata it
\* dumps, when that is not its process's any more.
Change(pc, p, o, n) ==
    [pc |-> pc, proc |-> p, old |-> o, new |-> n, lost |-> FALSE, held |-> None]
Rest(pc) == Change(pc, None, None, None)

TypeOK ==
    /\ db \in Schemas /\ upsets \in 0..MaxUpsets
    /\ file \in {None, Torn} \/ file \in Schemas
    /\ boot \in [Processes -> {"off", "ready"} \cup Booting]
    /\ mem \in [Processes -> Schemas] /\ classes \in [Processes -> Schemas]
    /\ \A r \in Changes :
        IF req[r].pc \in Resting THEN req[r] = Rest(req[r].pc)
        ELSE /\ req[r].pc \in Steps /\ req[r].proc \in Processes
             /\ boot[req[r].proc] = "ready" \/ req[r].lost
             /\ req[r].old \in Items \cup {None} /\ req[r].new \in Items \cup {None}
             /\ req[r].lost \in BOOLEAN
             /\ req[r].held = None \/ (req[r].lost /\ req[r].held \in Schemas)
    /\ reloads \in [Processes -> {"none", "removed", "waiting"}]
    /\ suspect \in [Processes -> Schemas]
    /\ serial \in BOOLEAN /\ clean \in [Processes -> BOOLEAN]

Init ==
    /\ db \in Schemas /\ upsets = 0 /\ file = None
    /\ boot = [p \in Processes |-> "off"]
    /\ mem = [p \in Processes |-> {}] /\ classes = [p \in Processes |-> {}]
    /\ req = [r \in Changes |-> Rest("idle")]
    /\ reloads = [p \in Processes |-> "none"]
    /\ suspect = [p \in Processes |-> {}]
    /\ serial = TRUE /\ clean = [p \in Processes |-> FALSE]

Upset == upsets < MaxUpsets /\ upsets' = upsets + 1

-----------------------------------------------------------------------------
(* Helpers                                                                 *)

Touched(r) == {req[r].old, req[r].new} \ {None}
IsUpdate(r) == req[r].old # None /\ req[r].new # None
Replaced(s, r) == (s \ {req[r].old}) \cup ({req[r].new} \ {None})
Restored(s, r) == (s \ {req[r].new}) \cup ({req[r].old} \ {None})
At(r, steps) == req[r].pc \in steps
Goto(r, step) == req' = [req EXCEPT ![r].pc = step]
Ends(r) == req' = [req EXCEPT ![r] = Rest("over")]

\* The handler edits the metadata object it holds: after a reload of its process
\* that is no longer the one others see.
SetMem(r, s) == mem' = IF req[r].lost THEN mem ELSE [mem EXCEPT ![req[r].proc] = s]
MemOf(r) == mem[req[r].proc]

Active == {r \in Changes : ~At(r, Resting)}
Quiet == Active = {} /\ \A p \in Processes : boot[p] \notin Booting /\ reloads[p] = "none"

\* An update holds a transaction open, and with it the lock of the table, from its
\* first statement to its commit or rollback.
InTransaction == {r \in Changes : IsUpdate(r) /\ At(r, {"prepare", "open", "write", "commit"})}
LockFree(r) == Touched(r) \subseteq Tables \/ InTransaction \subseteq {r}

\* What the database makes of a statement: it must fit its schema, and may fail.
Possible(r) == /\ req[r].old # None => req[r].old \in db
               /\ req[r].new # None /\ req[r].new # req[r].old => req[r].new \notin db
Suspects(r) == [p \in Processes |-> IF p = req[r].proc /\ ~req[r].lost THEN suspect[p]
                                    ELSE suspect[p] \cup Touched(r)]

Spoiled == serial' = FALSE
Dirty == clean' = [p \in Processes |-> FALSE]

-----------------------------------------------------------------------------
(* TableView.create, destroy; TableColumnView.create, destroy, update      *)

\* The handler checks the request against the metadata of its process; a creation or
\* an update changes it before the database.
Begin(r, p, o, n) ==
    /\ At(r, {"idle"}) /\ boot[p] = "ready"
    /\ {o, n} # {None} /\ (None \notin {o, n} => {o, n} \subseteq Columns)
    /\ o # None => o \in mem[p]                      \* NotFound
    /\ n \in Tables => n \notin mem[p]               \* Table() raises
    /\ req' = [req EXCEPT ![r] = Change("ddl", p, o, n)]
    /\ mem' = IF n = None THEN mem ELSE [mem EXCEPT ![p] = (@ \ {o}) \cup {n}]
    /\ serial' = (serial /\ Quiet /\ suspect[p] = {} /\ (n \in mem[p] => n = o)
                    /\ \A q \in Processes \ {p} : boot[q] = "off")
    /\ UNCHANGED <<base, file, boot, classes, reloads, suspect, clean>>

\* CREATE TABLE, DROP TABLE, ALTER TABLE ADD or DROP COLUMN: committed at once.
Execute(r) ==
    /\ At(r, {"ddl"}) /\ ~IsUpdate(r) /\ LockFree(r) /\ Possible(r)
    /\ db' = Replaced(db, r) /\ suspect' = Suspects(r)
    /\ Goto(r, IF req[r].new = None THEN "remove"
               ELSE IF req[r].new \in Columns THEN "constraint" ELSE "prepare")
    /\ UNCHANGED <<upsets, file, boot, mem, classes, reloads, serial, clean>>

\* What was destroyed leaves the memory afterwards.  A column that another request has
\* replaced meanwhile cannot be removed: the handler ends there.
RemoveItem(r) ==
    /\ At(r, {"remove"})
    /\ \/ Goto(r, "prepare") /\ SetMem(r, MemOf(r) \ {req[r].old}) /\ UNCHANGED serial
       \/ req[r].old \in Columns /\ Ends(r) /\ Spoiled /\ UNCHANGED mem
    /\ UNCHANGED <<base, file, boot, classes, reloads, suspect, clean>>

\* A mistake to compare with: the table stays registered.
ExecuteFailsRegistered(r) ==
    /\ At(r, {"ddl"}) /\ ~IsUpdate(r) /\ LockFree(r)
    /\ Ends(r) /\ mem' = mem
    /\ serial' = (serial /\ req[r].new \notin Columns)
    /\ UNCHANGED <<base, file, boot, classes, reloads, suspect, clean>>

\* A table that could not be created is removed from the metadata again, a column
\* that could not be added stays.
ExecuteFails(r) ==
    /\ At(r, {"ddl"}) /\ ~IsUpdate(r) /\ LockFree(r)
    /\ Ends(r) /\ SetMem(r, MemOf(r) \ (Tables \cap {req[r].new}))
    /\ serial' = (serial /\ req[r].new \notin Columns)
    /\ UNCHANGED <<base, file, boot, classes, reloads, suspect, clean>>

\* The foreign key of a new column is added by a statement of its own.
AddConstraint(r) ==
    /\ At(r, {"constraint"}) /\ LockFree(r)
    /\ \/ Goto(r, "prepare") /\ UNCHANGED serial
       \/ Ends(r) /\ Spoiled
    /\ UNCHANGED <<base, file, boot, mem, classes, reloads, suspect, clean>>

\* The statements of an update run in a transaction that goes on during update_base.
Alter(r) ==
    /\ At(r, {"ddl"}) /\ IsUpdate(r) /\ LockFree(r) /\ Possible(r)
    /\ Goto(r, "prepare")
    /\ UNCHANGED <<base, file, boot, mem, classes, reloads, history>>

\* A mistake to compare with: the column stays as it should have become.
UndoForgotten(r) ==
    /\ At(r, {"ddl", "prepare"}) /\ IsUpdate(r) /\ LockFree(r)
    /\ Goto(r, "reprepare") /\ mem' = mem
    /\ UNCHANGED <<base, file, boot, classes, reloads, history>>

\* After an SQLAlchemyError, of a statement or of update_base, the transaction is
\* rolled back and the memory restored; a column whose name was taken stays lost.
Undo(r) ==
    /\ At(r, {"ddl", "prepare"}) /\ IsUpdate(r) /\ LockFree(r)
    /\ Goto(r, "reprepare") /\ SetMem(r, Restored(MemOf(r), r))
    /\ UNCHANGED <<base, file, boot, classes, reloads, history>>

\* The undo itself raises: the new column is no longer where it was put.
UndoFails(r) ==
    /\ At(r, {"ddl"}) /\ IsUpdate(r) /\ LockFree(r)
    /\ Ends(r) /\ Spoiled
    /\ UNCHANGED <<base, file, boot, mem, classes, reloads, suspect, clean>>

\* The end of "with request.session.begin()": a commit that fails undoes nothing but
\* the transaction.
Commit(r) ==
    /\ At(r, {"commit"}) /\ Ends(r)
    /\ \/ db' = Replaced(db, r) /\ suspect' = Suspects(r) /\ UNCHANGED serial
       \/ Spoiled /\ UNCHANGED <<db, suspect>>
    /\ UNCHANGED <<upsets, file, boot, mem, classes, reloads, clean>>

-----------------------------------------------------------------------------
(* update_base: reload_request_mapped_base                                 *)

\* sql_load_mapped_base maps what the metadata has by now, of any request; what was
\* derived from the classes is invalidated (ModelDescriptions, GraphQLSchemaCache).
Prepare(r) ==
    /\ At(r, {"prepare", "reprepare"}) /\ boot[req[r].proc] = "ready"
    /\ classes' = [classes EXCEPT ![req[r].proc] = MemOf(r)]
    /\ Goto(r, IF At(r, {"prepare"}) THEN "open" ELSE "reopen")
    /\ UNCHANGED <<base, file, boot, mem, reloads, history>>

\* The classes cannot be mapped, or no connection can be had: only the creation of a
\* table takes its memory change back.
PrepareFails(r) ==
    /\ At(r, {"prepare", "reprepare"})
    /\ Ends(r) /\ Spoiled /\ SetMem(r, MemOf(r) \ (Tables \cap {req[r].new}))
    /\ UNCHANGED <<base, file, boot, classes, reloads, suspect, clean>>

\* An update has its transaction to commit when the dump is over.
Dumped(r) == IF At(r, {"open", "write"}) /\ IsUpdate(r) THEN Goto(r, "commit") ELSE Ends(r)

\* sql_dump_metadata_file: open(file_path, 'wb') empties the file, or fails, which is only
\* logged, and the old file stays ...
OpenFile(r) ==
    /\ At(r, {"open", "reopen"})
    /\ \/ /\ file' = Torn /\ Dirty
          /\ Goto(r, IF At(r, {"open"}) THEN "write" ELSE "rewrite") /\ UNCHANGED serial
       \/ Dumped(r) /\ Spoiled /\ UNCHANGED <<file, clean>>
    /\ UNCHANGED <<base, boot, mem, classes, reloads, suspect>>

Writers == Cardinality({r \in Changes : At(r, {"write", "rewrite"})})
             + Cardinality({p \in Processes : boot[p] = "write"})

\* ... pickle.dump.  Writers that overlap may leave a mixture; an error is only logged.
Written(s) ==
    \/ file' = s /\ UNCHANGED serial
    \/ file' = Torn /\ IF Writers > 1 THEN UNCHANGED serial ELSE Spoiled

WriteFile(r) ==
    /\ At(r, {"write", "rewrite"})
    /\ Written(IF req[r].held = None THEN MemOf(r) ELSE req[r].held) /\ Dirty
    /\ Dumped(r)
    /\ UNCHANGED <<base, boot, mem, classes, reloads, suspect>>

-----------------------------------------------------------------------------
(* The connection of a process: sql_init_database_connection, ReloadView   *)

Start(p) ==
    /\ boot[p] = "off"
    /\ boot' = [boot EXCEPT ![p] = "load"]
    /\ serial' = (serial /\ Active = {})
    /\ UNCHANGED <<base, file, mem, classes, req, reloads, suspect, clean>>

\* sql_load_metadata_file finds a file and can read it.
Loadable == file \notin {None, Torn}

\* The file if it can be loaded, else the database, which is then saved.
Load(p) ==
    /\ boot[p] = "load"
    /\ mem' = [mem EXCEPT ![p] = IF Loadable THEN file ELSE db]
    /\ suspect' = [suspect EXCEPT ![p] = (mem'[p] \ db) \cup (db \ mem'[p])]
    /\ boot' = [boot EXCEPT ![p] = IF Loadable THEN "ready" ELSE "open"]
    /\ classes' = [classes EXCEPT ![p] = IF Loadable THEN mem'[p] ELSE @]
    /\ UNCHANGED <<base, file, req, reloads, serial, clean>>

OpenNew(p) ==
    /\ boot[p] = "open"
    /\ \/ /\ file' = Torn /\ boot' = [boot EXCEPT ![p] = "write"]
          /\ clean' = [q \in Processes |-> q = p /\ clean[q]]
          /\ UNCHANGED <<classes, serial>>
       \/ /\ boot' = [boot EXCEPT ![p] = "ready"] /\ classes' = [classes EXCEPT ![p] = mem[p]]
          /\ Spoiled /\ UNCHANGED <<file, clean>>
    /\ UNCHANGED <<base, mem, req, reloads, suspect>>

WriteNew(p) ==
    /\ boot[p] = "write"
    /\ Written(mem[p])
    /\ boot' = [boot EXCEPT ![p] = "ready"]
    /\ classes' = [classes EXCEPT ![p] = mem[p]]
    /\ clean' = [q \in Processes |-> q = p /\ clean[q]]
    /\ UNCHANGED <<base, mem, req, reloads, suspect>>

\* A mistake to compare with: the file survives the reload.
RemoveNothing(p) ==
    /\ reloads[p] = "none" /\ boot[p] \in Booting \cup {"ready"} /\ Upset
    /\ file' = file /\ clean' = [clean EXCEPT ![p] = boot[p] = "ready"]
    /\ serial' = (serial /\ Quiet)
    /\ reloads' = [reloads EXCEPT ![p] = "removed"]
    /\ UNCHANGED <<db, boot, mem, classes, req, suspect>>

\* remove_metadata_file; its errors are only logged.
RemoveFile(p) ==
    /\ reloads[p] = "none" /\ boot[p] \in Booting \cup {"ready"} /\ Upset
    /\ \/ file' = None /\ clean' = [clean EXCEPT ![p] = boot[p] = "ready"]
       \/ file' = file /\ clean' = [clean EXCEPT ![p] = FALSE]
    /\ serial' = (serial /\ Quiet)
    /\ reloads' = [reloads EXCEPT ![p] = "removed"]
    /\ UNCHANGED <<db, boot, mem, classes, req, suspect>>

\* A mistake to compare with: they go on with what the next connection has.
ForgetNothing(p) == req' = req

\* The changes under way in p go on with what they hold.
Forget(p) ==
    req' = [r \in Changes |->
              IF r \notin Active \/ req[r].proc # p THEN req[r]
              ELSE [req[r] EXCEPT !.lost = TRUE,
                      !.held = IF @ = None /\ At(r, {"open", "write", "reopen", "rewrite"})
                               THEN mem[p] ELSE @]]

\* dispose_request_connection: a connection that is still being set up stays.
Dispose(p) ==
    /\ reloads[p] = "removed"
    /\ reloads' = [reloads EXCEPT ![p] = "waiting"]
    /\ IF boot[p] = "ready"
       THEN /\ boot' = [boot EXCEPT ![p] = "off"] /\ Forget(p)
            /\ mem' = [mem EXCEPT ![p] = {}] /\ classes' = [classes EXCEPT ![p] = {}]
            /\ suspect' = [suspect EXCEPT ![p] = {}]
       ELSE UNCHANGED <<boot, mem, classes, req, suspect>>
    /\ UNCHANGED <<base, file, serial, clean>>

\* get_request_connection has returned.
Reloaded(p) ==
    /\ reloads[p] = "waiting" /\ boot[p] = "ready"
    /\ reloads' = [reloads EXCEPT ![p] = "none"]
    /\ clean' = [clean EXCEPT ![p] = FALSE]
    /\ UNCHANGED <<base, file, boot, mem, classes, req, suspect, serial>>

\* The process ends; the database rolls open transactions back.
Crash(p) ==
    /\ boot[p] # "off" /\ Upset
    /\ boot' = [boot EXCEPT ![p] = "off"]
    /\ mem' = [mem EXCEPT ![p] = {}] /\ classes' = [classes EXCEPT ![p] = {}]
    /\ suspect' = [suspect EXCEPT ![p] = {}]
    /\ req' = [r \in Changes |-> IF req[r].proc = p THEN Rest("over") ELSE req[r]]
    /\ reloads' = [reloads EXCEPT ![p] = "none"] /\ clean' = [clean EXCEPT ![p] = FALSE]
    /\ serial' = (serial /\ Quiet)
    /\ UNCHANGED <<db, file>>

\* Another tool changes the database.
Outside ==
    /\ Upset
    /\ \E i \in Items : /\ db' = IF i \in db THEN db \ {i} ELSE db \cup {i}
                        /\ suspect' = [p \in Processes |-> suspect[p] \cup {i}]
    /\ Spoiled
    /\ UNCHANGED <<file, boot, mem, classes, req, reloads, clean>>

ChangeStep(r) ==
    \/ Execute(r) \/ ExecuteFails(r) \/ RemoveItem(r) \/ AddConstraint(r)
    \/ Alter(r) \/ Undo(r) \/ UndoFails(r) \/ Commit(r)
    \/ Prepare(r) \/ PrepareFails(r) \/ OpenFile(r) \/ WriteFile(r)

Next ==
    \/ \E r \in Changes : \/ \E p \in Processes, o, n \in Items \cup {None} : Begin(r, p, o, n)
                          \/ ChangeStep(r)
    \/ \E p \in Processes : \/ Start(p) \/ Load(p) \/ OpenNew(p) \/ WriteNew(p)
                            \/ RemoveFile(p) \/ Dispose(p) \/ Reloaded(p) \/ Crash(p)
    \/ Outside

Spec == Init /\ [][Next]_vars

-----------------------------------------------------------------------------
(* Properties                                                              *)

\* The metadata of a process never keeps a table that the database does not have,
\* however creations, drops, their failures, reloads and restarts overlap: only a
\* creation under way, a drop that has yet to remove it, or a change the process was
\* not told of, explains one.
NoPhantomTable ==
    \A p \in Processes : boot[p] = "ready" =>
        \A t \in (mem[p] \cap Tables) \ db :
            \/ t \in suspect[p]
            \/ \E r \in Active : /\ req[r].proc = p /\ ~req[r].lost
                                 /\ req[r].new = t \/ (req[r].old = t /\ At(r, {"remove"}))

\* While changes run one at a time, the database, the metadata, the classes and the
\* file agree after each of them, also when its statement has failed and over reloads
\* and crashes between them, unless a failure that the code does not undo has occurred:
\* an added column or its constraint, mapping the classes, the dump, the commit.
CopiesAgree ==
    serial /\ Quiet => \A p \in Processes : boot[p] = "ready" =>
        mem[p] = db /\ classes[p] = db /\ file = db

\* A reload reads the database again if nobody dumped the metadata meanwhile and no
\* connection was being set up when it began.
ReloadIsFresh ==
    [][\A p \in Processes : Load(p) /\ clean[p] => mem'[p] = db]_vars
=============================================================================
