--------------------------- MODULE ConnectionConfs ----------------------------
(***************************************************************************)
(* From the settings of a request to the connection that serves it         *)
(* (utils/conf.py, request.py, db_types/sql/sql_db.py): what makes two     *)
(* configurations the same connection, what of a configuration the engine  *)
(* and the mapped tables depend on, and the metadata file that stands for  *)
(* a reflection.  Requests come one at a time here; ConnectionRegistry has *)
(* them overlap.                                                           *)
(*                                                                         *)
(* A configuration is a function from field names to values; None is an    *)
(* absent or empty one.  Hashes are taken to be free of collisions.        *)
(***************************************************************************)
EXTENDS Integers, FiniteSets, Functions, TLC

CONSTANTS None,
          Families,       \* sets of configurations that the requests of one server may have
          TableNames,
          MaxRequests

\* get_connection_id
IdFields == {"engine", "url", "host", "port", "name", "user", "password", "schema", "timezone",
             "ssl_ca", "ssl_cert", "ssl_key", "ssh_host", "ssh_port", "ssh_user", "ssh_private_key"}

\* get_connection_meta_params_id
MetaFields == {"only", "except", "extra"}

\* A mistake to compare with: the extra parameters of the URL do not count.
ParamsWithoutExtra == {"only", "except", "connections", "connections_overflow"}

\* get_connection_params_id
ParamsFields == MetaFields \cup {"connections", "connections_overflow"}

VARIABLES
    connections,    \* connections[id]: params_id, engine, tables, time zone
    dumps,          \* dumps[path]: what the metadata file at path holds
    answer,         \* the configuration of the last request, and its connection
    confs,          \* the family the requests come from
    requests        \* how many there were

vars == <<connections, dumps, answer, confs, requests>>

Init ==
    /\ connections = <<>> /\ dumps = <<>> /\ answer = None
    /\ confs \in Families /\ requests = 0

-----------------------------------------------------------------------------
(* Keys                                                                    *)

Id(conf) == Restrict(conf, IdFields)
ParamsId(conf) == Restrict(conf, ParamsFields)

\* get_metadata_file_path; the readable part of the name is a function of the id's fields.
MetadataPath(conf) == <<Id(conf), Restrict(conf, MetaFields)>>

Set(conf, field) == conf[field] # None
Tunnelled(conf) == \A field \in {"ssh_host", "ssh_port", "ssh_user", "ssh_private_key"} : Set(conf, field)

-----------------------------------------------------------------------------
(* Engines                                                                 *)

Part(conf, field) == field :> conf[field]
Parts(conf, fields) == [field \in fields |-> conf[field]]

\* The server that is reached: this end of a tunnel is a port of its own.
Server(conf) ==
    IF Tunnelled(conf) THEN Parts(conf, {"ssh_host", "ssh_port", "ssh_user", "ssh_private_key", "host", "port"})
    ELSE IF ~Set(conf, "host") THEN <<>>
    ELSE IF ~Set(conf, "port") THEN Part(conf, "host") ELSE Parts(conf, {"host", "port"})

Login(conf) ==
    IF ~Set(conf, "user") THEN <<>>
    ELSE IF ~Set(conf, "password") THEN Part(conf, "user") ELSE Parts(conf, {"user", "password"})

\* sql_build_engine_url: what of a configuration the URL names, by engine.
Url(conf) ==
    LET extra == Part(conf, "extra") IN
    CASE conf["engine"] = "sqlite" -> Part(conf, "name") @@ extra
      [] conf["engine"] = "bigquery" ->
            Part(conf, "name") @@ (IF Set(conf, "password") THEN Part(conf, "password") @@ extra ELSE <<>>)
      [] conf["engine"] = "snowflake" -> Parts(conf, {"user", "password", "host", "name"}) @@ extra
      [] conf["engine"] = "databricks" -> Parts(conf, {"user", "password", "host", "port", "name"}) @@ extra
      [] conf["engine"] = "oracle" ->
            Server(conf) @@ Login(conf) @@ (IF Set(conf, "extra") THEN extra ELSE Part(conf, "name"))
      [] conf["engine"] = "mongo" -> Parts(conf, {"url", "name"})
      [] OTHER -> Server(conf) @@ Login(conf) @@ Part(conf, "name") @@ extra

\* sql_create_connection_engine, MongoEngine: the arguments besides the URL.
Arguments(conf) ==
    CASE conf["engine"] \in {"sqlite", "mongo"} -> <<>>
      [] conf["engine"] = "mysql" -> Parts(conf, {"connections", "connections_overflow", "ssl_ca", "ssl_cert", "ssl_key"})
      [] OTHER -> Parts(conf, {"connections", "connections_overflow"})

Engine(conf) == [engine |-> conf["engine"], url |-> Url(conf), arguments |-> Arguments(conf)]

\* "Database configuration is not set"
Complete(conf) == conf["engine"] = "mongo" \/ (Set(conf, "engine") /\ Set(conf, "name"))

-----------------------------------------------------------------------------
(* Tables                                                                  *)

\* get_connection_only_predicate; in is Python's: a name within a list.
Only(conf, table) ==
    /\ Set(conf, "only") => table \in conf["only"]
    /\ Set(conf, "except") => table \notin conf["except"]

\* get_connection_schema; MongoDB has none.
Schema(conf) ==
    IF conf["engine"] = "mongo" THEN None
    ELSE IF ~Set(conf, "schema") /\ conf["engine"] = "mssql" THEN "dbo" ELSE conf["schema"]

\* What a reflection finds: where, and which tables.
Reflected(conf) == [url |-> Url(conf), schema |-> Schema(conf), tables |-> {t \in TableNames : Only(conf, t)}]

-----------------------------------------------------------------------------
(* Requests                                                                *)

Put(f, key, value) == [k \in DOMAIN f \cup {key} |-> IF k = key THEN value ELSE f[k]]

Reuse(conf) ==
    /\ Complete(conf)
    /\ Id(conf) \in DOMAIN connections
    /\ connections[Id(conf)].params = ParamsId(conf)
    /\ answer' = [conf |-> conf, connection |-> connections[Id(conf)]]
    /\ UNCHANGED <<connections, dumps>>

\* connect_database disposes of a connection with other parameters, and reflects unless
\* there is a file for the configuration.
Connect(conf) ==
    /\ Complete(conf)
    /\ ~(Id(conf) \in DOMAIN connections /\ connections[Id(conf)].params = ParamsId(conf))
    /\ LET path == MetadataPath(conf)
           metadata == IF path \in DOMAIN dumps THEN dumps[path] ELSE Reflected(conf)
           connection == [params |-> ParamsId(conf), engine |-> Engine(conf), metadata |-> metadata,
                          timezone |-> conf["timezone"]]
       IN /\ connections' = Put(connections, Id(conf), connection)
          /\ dumps' = Put(dumps, path, metadata)
          /\ answer' = [conf |-> conf, connection |-> connection]

\* "Database configuration is not set"
Incomplete(conf) ==
    /\ ~Complete(conf)
    /\ answer' = None
    /\ UNCHANGED <<connections, dumps>>

\* The server forgets its connections, not its files.
Restart ==
    /\ connections # <<>> /\ connections' = <<>> /\ answer' = None
    /\ UNCHANGED <<dumps, confs, requests>>

Request(conf) ==
    /\ requests < MaxRequests /\ requests' = requests + 1
    /\ Reuse(conf) \/ Connect(conf) \/ Incomplete(conf)
    /\ UNCHANGED confs

Next == Restart \/ \E conf \in confs : Request(conf)

Spec == Init /\ [][Next]_vars

-----------------------------------------------------------------------------
(* Properties                                                              *)

\* Whatever connections and files earlier requests have left, also with configurations
\* that differ in a single field, a request is served by an engine, and the tables, that
\* its own configuration asks for.
SameIdSameEngine ==
    answer # None =>
        /\ answer.connection.engine = Engine(answer.conf)
        /\ answer.connection.metadata = Reflected(answer.conf)
        /\ answer.connection.timezone = answer.conf["timezone"]
=============================================================================
