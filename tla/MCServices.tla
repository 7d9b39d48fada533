------------------------------ MODULE MCServices ------------------------------
(* Instances of the parts of Services for TLC. *)
EXTENDS Services, TLC

MCEstimates == {2}

\* GraphQLQueries: key 3 looks like key 1.
MCLooks == 1 :> 1 @@ 2 :> 2 @@ 3 :> 1 @@ Null :> Null
Related(rel, x) == [rel |-> rel, x |-> x]
Where(via, nots, v) == [via |-> via, nots |-> nots, v |-> v]
Query(filters, sort, limit, offset, pg) ==
    [filters |-> filters, sort |-> sort, limit |-> limit, offset |-> offset, page |-> pg]
MCContents ==
    {[keys |-> keys, related |-> related] :
        keys \in {<<1, 2, 3>>, <<2, Null, 2>>},
        related \in {<<Related(1, 1), Related(1, 2), Related(3, 1)>>,
                     <<Related(2, 1), Related(2, 1), Related(Null, 2)>>}}
FilterLists ==
    {<<>>, <<Where(TRUE, 0, 1)>>, <<Where(TRUE, 1, 1)>>, <<Where(TRUE, 2, 2)>>, <<Where(FALSE, 1, 2)>>,
     <<Where(TRUE, 0, 1), Where(TRUE, 0, 2)>>, <<Where(TRUE, 0, 1), Where(TRUE, 1, 1)>>}
MCQuerySet ==
    {Query(f, s, 2, 0, Absent) : f \in FilterLists, s \in BOOLEAN}
    \cup {Query(f, FALSE, 1, Absent, p) : f \in FilterLists, p \in 1..2}
    \cup {Query(<<>>, TRUE, limit, 1, 1) : limit \in {Absent, 0, 9, -1}}
    \cup {Query(<<>>, TRUE, Absent, Absent, Absent)}
MCChanges == {Related(3, 2), Related(Null, 1)}

\* RequestFilters: texts of the characters 1 and 2, 0 for '%' and -1 for a comma.  The text
\* of the number n is <<n>>, which int() also makes of <<1, 2>>.
MCCellsOf(k) ==
    {Null} \cup CASE k \in {"text", "select"} -> {<<>>, <<1>>, <<2, 1>>, <<1, -1, 2>>}
                  [] k = "json" -> {{}, {1}, {1, 2}}
                  [] OTHER -> {1, 2}
MCArgumentsOf(k, lookup) ==
    {<<>>} \cup
        CASE lookup \in {"isnull", "isempty"} -> {<<TRUE>>, <<FALSE>>}
          [] lookup = "in" ->
                IF k \in {"text", "select"} THEN {<< <<1>>, <<>> >>, << <<1>>, <<2>> >>} ELSE {<<1>>, <<1, 2>>}
          [] k \in {"text", "select"} -> {<< <<1>> >>, << <<0, 2>> >>}
          [] OTHER -> {<<1>>, <<2>>}
MCSearchTexts == {<<1>>, <<2>>, <<1, 2>>, <<0, 2>>}
MCNumbers == <<1>> :> 1 @@ <<2>> :> 2 @@ <<1, 2>> :> 1
MCPlain == {<<1>>, <<2>>}
MCObjectIds == <<1>> :> 1
MCWritten == {} :> <<>> @@ {1} :> <<1>> @@ {1, 2} :> <<1, -1, 2>>
MCTextFound(cells, text) == \E i \in DOMAIN cells : cells[i] = text

\* ConnectionConfs: configurations that differ in one field from that of their family,
\* which has an engine, and a tunnel or none.
ConfKinds == {"postgresql", "mysql", "mssql", "sqlite", "bigquery", "snowflake", "databricks", "oracle", "mongo"}
Base(engine, ssh) ==
    [engine |-> engine, url |-> "x", host |-> "x", port |-> "x", name |-> "x", user |-> "x", password |-> "x",
     schema |-> None, timezone |-> "x", ssl_ca |-> "x", ssl_cert |-> "x", ssl_key |-> "x",
     ssh_host |-> ssh, ssh_port |-> ssh, ssh_user |-> ssh, ssh_private_key |-> "x",
     only |-> None, except |-> None, extra |-> "x", connections |-> "x", connections_overflow |-> "x",
     rls_type |-> None, rls_sso |-> None, rls_user_property |-> None, project |-> "x", token |-> "x"]
Varied(conf) ==
    LET others(field) == IF field \in {"only", "except"} THEN {None, {"t1"}} ELSE {None, "x", "y"}
    IN UNION {{[conf EXCEPT ![field] = value] : value \in others(field)} : field \in DOMAIN conf \ {"engine"}}
MCFamilies == {Varied(Base(engine, ssh)) : engine \in ConfKinds, ssh \in {None, "x"}}

\* MongoReflection
MCRecords == {"a" :> v : v \in {"CHAR", "TEXT", Null}} \cup {"a" :> "CHAR" @@ "b" :> "INTEGER"}
=============================================================================
