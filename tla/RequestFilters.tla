---------------------------- MODULE RequestFilters ----------------------------
(***************************************************************************)
(* The filters of one request, a search, and the cell of one row: the ways *)
(* in which the bridge filters (FilterClass for SQL and for MongoDB, and   *)
(* the SQL that SqlSerializer writes) compared with each other.            *)
(***************************************************************************)
EXTENDS QueryFilters

CONSTANTS CellsOf(_),           \* the cells of a column of a kind
          ArgumentsOf(_, _),    \* what a lookup of a kind may be given: strings
          MaxItems,
          \* Searches; what the conversions give is external.
          SearchTexts,
          Numbers,              \* the number that int() makes of a text, if it makes one
          Plain,                \* the texts that a database writes for a number
          ObjectIds,            \* the id that ObjectId() makes of a text, if it makes one
          Written,              \* the text of a JSON cell
          TextFound(_, _)       \* what MongoDB finds by a text index, of cells and a text

VARIABLES
    kind,       \* of the column
    cell,
    arguments   \* the strings given for each name, in their order

vars == <<kind, cell, arguments>>

TextKinds == {"text", "select"}
Names(k) == (Modelled(k) \cup {NoLookup}) \X BOOLEAN
LookupOf(name) == IF name[1] = NoLookup THEN "exact" ELSE name[1]
TestsNull(lookup) == lookup \in {"isnull", "isempty"}

Init ==
    /\ kind \in Kinds /\ cell \in CellsOf(kind)
    /\ arguments = [name \in Names(kind) |-> <<>>]

\* The client gives a string for a name, which may be repeated.  Whole strings that are
\* empty or have commas are left to columns of texts: a number or a time refuses them.
AddArgument(name, string) ==
    LET strings == Append(arguments[name], string) IN
    /\ FoldFunction(LAMBDA given, n : n + Len(given), 0, arguments) < MaxItems
    /\ \/ Len(strings) = 1
       \/ kind \in TextKinds /\ ~TestsNull(name[1])
       \/ \A i \in 1..Len(strings) : Len(strings[i]) = 1
    /\ arguments' = [arguments EXCEPT ![name] = strings]
    /\ UNCHANGED <<kind, cell>>

Next == \E name \in Names(kind) : \E string \in ArgumentsOf(kind, name[1]) : AddArgument(name, string)

Spec == Init /\ [][Next]_vars

-----------------------------------------------------------------------------
(* Searches                                                                *)

\* The kinds of columns that queryset_search looks into.
Searchable(engine) ==
    IF engine = "sql" THEN {"number", "text", "select", "json"} ELSE {"number", "text", "binary"}

\* SQL compares what it writes for a number, MongoDB the number that it reads.
HasText(engine, k, c, text) ==
    CASE k = "number" ->
            /\ text \in IF engine = "sql" THEN Plain ELSE DOMAIN Numbers
            /\ Keeps(engine, k, "exact", FALSE, c, Numbers[text])
      [] k = "binary" -> text \in DOMAIN ObjectIds /\ Keeps(engine, k, "exact", FALSE, c, ObjectIds[text])
      [] k = "json" -> c # Null /\ SqlLike(Written[c], Pattern("icontains", text))
      [] OTHER -> Keeps(engine, k, "icontains", FALSE, c, text)

\* queryset_search: a text index answers instead of the columns.  Without a column to
\* look into SQL keeps every row and MongoDB none.
Searched(engine, indexed, kinds, cells, text) ==
    LET columns == {c \in DOMAIN kinds : kinds[c] \in Searchable(engine)} IN
    IF engine = "mongo" /\ indexed THEN TextFound(cells, text)
    ELSE IF columns = {} THEN engine = "sql"
    ELSE \E c \in columns : HasText(engine, kinds[c], cells[c], text)

-----------------------------------------------------------------------------
(* Properties                                                              *)

\* A lookup and its exclusion never keep the same row; SQL drops from both the rows whose
\* cell is unknown, MongoDB has each row in one of them.
FilterTwins ==
    \A name \in Names(kind), engine \in Engines :
        LET keeps(exclude) ==
                Keeps(engine, kind, LookupOf(name), exclude, cell, Value(LookupOf(name), arguments[name]))
        IN ~Empty(arguments[name]) =>
            /\ ~(keeps(TRUE) /\ keeps(FALSE))
            /\ ~(keeps(TRUE) \/ keeps(FALSE)) <=>
                engine = "sql" /\ cell = Null /\ ~TestsNull(LookupOf(name))

\* A request keeps the same rows of a SQL database and of MongoDB, but for unknown cells,
\* empty texts, '%' inside of a text and json_icontains.
EnginesAgree ==
    /\ cell # Null
    /\ \A name \in Names(kind) : ~Empty(arguments[name]) =>
        /\ LookupOf(name) # "json_icontains"
        /\ LookupOf(name) = "isempty" /\ kind \in TextKinds => cell # <<>>
        /\ LookupOf(name) \in {"icontains", "istartswith", "iendswith"} =>
            Wild \notin Range(Value(LookupOf(name), arguments[name]))
    => (Filtered("sql", kind, arguments, cell) <=> Filtered("mongo", kind, arguments, cell))

\* The SQL of a query with filters keeps the rows that a list with the same arguments
\* has, unless a repeated name is that of an "in" or begins with an empty string: of its
\* items SqlSerializer takes the first only.
SqlSerializerAgrees ==
    (\A name \in Names(kind) : Len(arguments[name]) > 1 => name[1] # "in" /\ arguments[name][1] # <<>>)
    => (SqlFiltered(kind, arguments, cell) <=> Filtered("sql", kind, arguments, cell))

\* A search finds the same rows in both databases if there is no text index, a column is
\* of texts or numbers, none is a select, JSON or binary column, and the text has no '%'
\* and is not another writing of a number.
SearchesAgree ==
    \A text \in SearchTexts, other \in Kinds : \A c \in CellsOf(other) :
        LET found(engine) == Searched(engine, FALSE, <<kind, other>>, <<cell, c>>, text) IN
        /\ {kind, other} \cap {"number", "text"} # {}
        /\ {kind, other} \cap {"select", "json", "binary"} = {}
        /\ Wild \notin Range(text) /\ (text \in DOMAIN Numbers => text \in Plain)
        => (found("sql") <=> found("mongo"))

FiltersAgree == FilterTwins /\ EnginesAgree /\ SqlSerializerAgrees /\ SearchesAgree
=============================================================================
