--------------------------- MODULE MongoReflection ----------------------------
(***************************************************************************)
(* The columns that reflect_mongodb finds in a collection                  *)
(* (db_types/mongo/mongo_reflect.py): the records are read page by page,   *)
(* by skip and limit and in no particular order, while others insert and   *)
(* delete some, and the types of their values are merged in that order.    *)
(* A cursor is read in batches, so others write within a page as well; it  *)
(* goes on behind the last record that it has read.                        *)
(***************************************************************************)
EXTENDS Integers, SequencesExt, FiniteSetsExt

CONSTANTS Null,
          Limit,            \* records of a page: 10000
          MaxReadRecords,   \* DATABASE_REFLECT_MAX_RECORDS, or 1000000
          Records,          \* what the records may be: functions from keys to values
          MaxRecords,       \* bounds the collection
          MaxChanges

VARIABLES
    collection,     \* the records in the order in which a query finds them
    page,           \* the page to read, 0 when all are read
    cursor,         \* of the page: whether it is open, the records behind it and those it has read
    table,          \* table[key]: type and mixed_types of a column
    values,         \* history: the non-null values read of each key, and whether a null came first
    changes

vars == <<collection, page, cursor, table, values, changes>>

Closed == [open |-> FALSE, at |-> 0, read |-> 0]

Init ==
    /\ collection \in UNION {[1..n -> Records] : n \in 0..MaxRecords}
    /\ page = 1 /\ cursor = Closed
    /\ table = <<>> /\ values = <<>> /\ changes = 0

-----------------------------------------------------------------------------
\* Values are the names of the types they have; a null that is new to the table is taken
\* for a TEXT, like a value of any type without a column type of its own.
TypeOf(value) == IF value = Null THEN "TEXT" ELSE value

\* A mistake to compare with: the last type counts.
TakenLast(column, type) == [column EXCEPT !.type = type]

Taken(column, type) ==
    IF column.type # type THEN [type |-> type, mixed |-> column.mixed \cup {column.type, type}]
    ELSE column

\* The values of a record: each of them concerns the column of its key.
Read(columns, record) ==
    [key \in DOMAIN record \cup DOMAIN columns |->
        IF key \notin DOMAIN record THEN columns[key]
        ELSE IF key \notin DOMAIN columns THEN [type |-> TypeOf(record[key]), mixed |-> {}]
        ELSE IF record[key] = Null THEN columns[key]
        ELSE Taken(columns[key], TypeOf(record[key]))]

Seen(seen, record) ==
    [key \in DOMAIN record \cup DOMAIN seen |->
        IF key \notin DOMAIN record THEN seen[key]
        ELSE IF key \notin DOMAIN seen THEN [types |-> {record[key]} \ {Null}, nullFirst |-> record[key] = Null]
        ELSE [seen[key] EXCEPT !.types = @ \cup ({record[key]} \ {Null})]]

Skip == (page - 1) * Limit

\* find(skip, limit)
Find ==
    /\ page > 0 /\ ~cursor.open
    /\ cursor' = [open |-> TRUE, at |-> Min({Skip, Len(collection)}), read |-> 0]
    /\ UNCHANGED <<collection, page, table, values, changes>>

ReadRecord ==
    /\ cursor.open /\ cursor.read < Limit /\ cursor.at < Len(collection)
    /\ LET record == collection[cursor.at + 1] IN
       /\ table' = Read(table, record)
       /\ values' = Seen(values, record)
    /\ cursor' = [cursor EXCEPT !.at = @ + 1, !.read = @ + 1]
    /\ UNCHANGED <<collection, page, changes>>

\* Columns whose types are mixed after the last page become JSON.
EndPage ==
    /\ cursor.open /\ (cursor.read = Limit \/ cursor.at >= Len(collection))
    /\ LET more == cursor.read > 0 /\ Skip + Limit < MaxReadRecords
       IN /\ page' = IF more THEN page + 1 ELSE 0
          /\ table' = IF more THEN table
                      ELSE [key \in DOMAIN table |->
                              IF table[key].mixed = {} THEN table[key] ELSE [table[key] EXCEPT !.type = "JSON"]]
    /\ cursor' = Closed
    /\ UNCHANGED <<collection, values, changes>>

\* Others write, and the records behind an open cursor become more or fewer.
Insert(record, at) ==
    /\ page > 0 /\ changes < MaxChanges
    /\ collection' = InsertAt(collection, at, record)
    /\ cursor' = [cursor EXCEPT !.at = IF at <= @ THEN @ + 1 ELSE @]
    /\ changes' = changes + 1
    /\ UNCHANGED <<page, table, values>>

DeleteRecord(at) ==
    /\ page > 0 /\ changes < MaxChanges
    /\ collection' = RemoveAt(collection, at)
    /\ cursor' = [cursor EXCEPT !.at = IF at <= @ THEN @ - 1 ELSE @]
    /\ changes' = changes + 1
    /\ UNCHANGED <<page, table, values>>

Next ==
    \/ Find
    \/ ReadRecord
    \/ EndPage
    \/ \E record \in Records, at \in 1..(Len(collection) + 1) : Insert(record, at)
    \/ \E at \in DOMAIN collection : DeleteRecord(at)

Spec == Init /\ [][Next]_vars

-----------------------------------------------------------------------------
(* Properties                                                              *)

\* The type of a column is that of its values, or JSON if they are of several types, in
\* whatever order they were read, unless a null came first: then it is TEXT, or JSON if
\* a value of another type follows.  Without writers, that is said of at least as many
\* records of the collection as may be read.
TypesFollowData ==
    page = 0 =>
        /\ \A key \in DOMAIN table :
            LET types == values[key].types IN
            table[key].type =
                IF values[key].nullFirst THEN IF types \subseteq {"TEXT"} THEN "TEXT" ELSE "JSON"
                ELSE IF Cardinality(types) = 1 THEN CHOOSE t \in types : TRUE ELSE "JSON"
        /\ changes = 0 =>
            \A n \in DOMAIN collection : n <= MaxReadRecords => \A key \in DOMAIN collection[n] :
                /\ key \in DOMAIN table
                /\ collection[n][key] \in values[key].types \cup {Null}
=============================================================================
