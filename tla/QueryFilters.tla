----------------------------- MODULE QueryFilters -----------------------------
(***************************************************************************)
(* What the filters of a request keep (filters/, serializers/sql.py,       *)
(* db_types/queryset.py, db_types/mongo/mongo_queryset.py), as operators   *)
(* on the cell of a row, for SQL databases and for MongoDB.                *)
(*                                                                         *)
(* A cell is Null, a number, a text (a sequence of characters, Wild is '%' *)
(* and Comma ','), or the set of elements of a JSON array.  What           *)
(* SQLAlchemy, SQL and MongoDB make of an expression is external.          *)
(***************************************************************************)
EXTENDS Integers, Sequences, FiniteSets, Functions

CONSTANTS Null,
          Estimates   \* numbers of rows an engine may take a whole table to have

Wild == 0
Comma == -1
Engines == {"sql", "mongo"}

\* FILTER_FOR_DBFIELD and FILTER_FOR_MAP_TYPE give each column type one of these kinds.
Kinds == {"number", "datetime", "text", "select", "boolean", "json", "binary"}

Lookups(kind) ==
    {"exact", "in", "isnull", "isempty"} \cup
        CASE kind \in {"number", "datetime"} -> {"gt", "gte", "lt", "lte", "icontains"}
          [] kind \in {"text", "select"} -> {"icontains", "istartswith", "iendswith"}
          [] kind = "json" -> {"json_icontains"}
          [] OTHER -> {}

\* The lookups whose meaning is modelled: on a number "icontains" is a comparison of
\* its digits that not all databases accept.
Modelled(kind) == Lookups(kind) \ (IF kind \in {"number", "datetime"} THEN {"icontains"} ELSE {})

-----------------------------------------------------------------------------
(* Patterns                                                                *)

Pattern(lookup, v) ==
    (IF lookup = "istartswith" THEN <<>> ELSE <<Wild>>) \o v
        \o (IF lookup = "iendswith" THEN <<>> ELSE <<Wild>>)

\* SQL's LIKE: every character of the pattern takes its part of the text.
SqlLike(s, p) ==
    \E at \in [1..(Len(p) + 1) -> 0..Len(s)] :
        /\ at[1] = 0 /\ at[Len(p) + 1] = Len(s)
        /\ \A i \in 1..Len(p) :
            IF p[i] = Wild THEN at[i] <= at[i + 1]
            ELSE at[i + 1] = at[i] + 1 /\ s[at[i + 1]] = p[i]

\* get_regex_from_ilike: a '%' at either end leaves that end open, the rest is literal.
MongoLike(s, p) ==
    LET open == p # <<>> /\ p[1] = Wild
        rest == IF open THEN Tail(p) ELSE p
        loose == rest # <<>> /\ rest[Len(rest)] = Wild
        word == IF loose THEN SubSeq(rest, 1, Len(rest) - 1) ELSE rest
    IN \E i \in 0..(Len(s) - Len(word)) :
        /\ SubSeq(s, i + 1, i + Len(word)) = word
        /\ open \/ i = 0
        /\ loose \/ i + Len(word) = Len(s)

-----------------------------------------------------------------------------
(* One filter                                                              *)

Compares(lookup, cell, v) ==
    CASE lookup = "gt" -> cell > v
      [] lookup = "gte" -> cell >= v
      [] lookup = "lt" -> cell < v
      [] lookup = "lte" -> cell <= v

\* safe_equals ... is_empty: TRUE, FALSE or, for an unknown cell, Null.
SqlHolds(kind, lookup, cell, v) ==
    IF lookup = "isnull" THEN v = (cell = Null)
    ELSE IF lookup = "isempty" THEN v = (cell = Null \/ (kind \in {"text", "select"} /\ cell = <<>>))
    ELSE IF cell = Null THEN Null
    ELSE CASE lookup = "exact" -> IF kind = "json" THEN v \in cell ELSE cell = v
           [] lookup = "in" -> IF kind = "json" THEN v \cap cell # {} ELSE cell \in v
           [] lookup = "json_icontains" -> v \in cell
           [] lookup \in {"icontains", "istartswith", "iendswith"} -> SqlLike(cell, Pattern(lookup, v))
           [] OTHER -> Compares(lookup, cell, v)

\* MongoQueryset.map_operator: always TRUE or FALSE; "isempty" knows no empty text, and
\* "json_icontains" keeps nothing.
MongoHolds(kind, lookup, cell, v) ==
    IF lookup \in {"isnull", "isempty"} THEN v = (cell = Null)
    ELSE IF cell = Null \/ lookup = "json_icontains" THEN FALSE
    ELSE CASE lookup = "exact" -> IF kind = "json" THEN v \in cell ELSE cell = v
           [] lookup = "in" -> IF kind = "json" THEN v \cap cell # {} ELSE cell \in v
           [] lookup \in {"icontains", "istartswith", "iendswith"} -> MongoLike(cell, Pattern(lookup, v))
           [] OTHER -> Compares(lookup, cell, v)

\* A mistake to compare with: what is not known to hold does not hold.
KeepsUnknown(engine, kind, lookup, exclude, cell, v) ==
    LET holds == IF engine = "mongo" THEN MongoHolds(kind, lookup, cell, v)
                 ELSE SqlHolds(kind, lookup, cell, v) = TRUE
    IN holds # exclude

\* get_lookup_criterion: exclude negates the criterion, so that SQL keeps an unknown
\* cell in neither case.
Keeps(engine, kind, lookup, exclude, cell, v) ==
    IF engine = "mongo" THEN MongoHolds(kind, lookup, cell, v) # exclude
    ELSE SqlHolds(kind, lookup, cell, v) = ~exclude

-----------------------------------------------------------------------------
(* The filters of a request, by the name of their argument.  What is given *)
(* for it, a string, is the sequence of its parts between commas, <<>> if  *)
(* it is empty; only "in" looks at the parts.                              *)

\* The name of a column alone.
NoLookup == ""

\* A string that is not split.
Whole(string) ==
    LET whole[n \in 0..Len(string)] ==
            CASE n = 0 -> <<>>
              [] n = 1 -> string[1]
              [] OTHER -> whole[n - 1] \o <<Comma>> \o string[n]
    IN whole[Len(string)]

\* EMPTY_VALUES: no string, or one that is empty; of several strings, each may be.
Empty(strings) == strings \in {<<>>, << <<>> >>}

\* safe_not_array, safe_array: "in" takes a single string apart and several ones as they
\* are, and all else the first one.
Value(lookup, strings) ==
    IF lookup # "in" THEN Whole(strings[1])
    ELSE IF Len(strings) = 1 THEN Range(strings[1]) ELSE {Whole(strings[i]) : i \in 1..Len(strings)}

\* The bare name stands for "exact" if that argument is absent, not if it is empty.
ArgumentOf(arguments, lookup, exclude) ==
    IF arguments[<<lookup, exclude>>] = <<>> /\ lookup = "exact"
    THEN arguments[<<NoLookup, exclude>>] ELSE arguments[<<lookup, exclude>>]

\* FilterClass.filter_queryset, Filter.filter
Filtered(engine, kind, arguments, cell) ==
    \A lookup \in Modelled(kind), exclude \in BOOLEAN :
        LET strings == ArgumentOf(arguments, lookup, exclude) IN
        Empty(strings) \/ Keeps(engine, kind, lookup, exclude, cell, Value(lookup, strings))

\* SqlSerializer.filter_queryset: the same, but of the items of a name only the first counts.
FirstItem(strings) == IF strings = <<>> THEN <<>> ELSE <<strings[1]>>

SqlFiltered(kind, arguments, cell) ==
    Filtered("sql", kind, [name \in DOMAIN arguments |-> FirstItem(arguments[name])], cell)

-----------------------------------------------------------------------------
\* queryset_count_optimized: the engine's estimate of a large table (10000 rows and
\* more) is taken for the count, unless the query filters.
CountsOf(exact, filtered) == IF filtered THEN {exact} ELSE {exact} \cup Estimates
=============================================================================
