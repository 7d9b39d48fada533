--------------------------- MODULE Services_proofs ---------------------------
(***************************************************************************)
(* Theorems about the parts of Services, for every value of their          *)
(* constants.                                                              *)
(***************************************************************************)
EXTENDS Services, TLAPS, FiniteSetTheorems, WellFoundedInduction, SequenceTheorems

-----------------------------------------------------------------------------
(* Finite sets of numbers and of what is ranked                            *)

LEMMA LeastNatural ==
    ASSUME NEW T, T \subseteq Nat, T # {}
    PROVE  \E x \in T : \A y \in T : x <= y
<1>. DEFINE F == {1..n : n \in T}
<1>1. F \subseteq FiniteSubsetsOf(Nat) /\ F # {}
  <2>1. ASSUME NEW n \in T PROVE 1..n \in SUBSET Nat /\ IsFiniteSet(1..n)
    BY FS_Interval
  <2>. QED BY <2>1 DEF FiniteSubsetsOf
<1>2. IsWellFoundedOn(StrictSubsetOrdering(Nat), FiniteSubsetsOf(Nat))
  BY FS_StrictSubsetOrderingWellFounded
<1>. HIDE DEF F
<1>3. PICK x \in F : \A y \in F : ~(<<y, x>> \in StrictSubsetOrdering(Nat))
  BY <1>1, <1>2, WFMin
<1>. USE DEF F
<1>4. PICK n \in T : x = 1..n
  BY <1>3
<1>5. ASSUME NEW m \in T, m < n PROVE FALSE
  <2>1. 1..m \in F /\ 1..m \in SUBSET Nat /\ 1..n \in SUBSET Nat
    OBVIOUS
  <2>2. ~(<<1..m, 1..n>> \in StrictSubsetOrdering(Nat))
    BY <1>3, <1>4, <2>1
  <2>3. 1..m \subseteq 1..n /\ 1..m # 1..n
    <3>1. n \notin 1..m /\ n \in 1..n
      BY <1>5
    <3>. QED BY <1>5, <3>1
  <2>. QED BY <2>1, <2>2, <2>3 DEF StrictSubsetOrdering
<1>. QED BY <1>5

\* A finite set that is ordered has one element for each rank.
Ranked(S, R) ==
    /\ \A a, b \in S : a # b => <<a, b>> \in R \/ <<b, a>> \in R
    /\ \A a \in S : <<a, a>> \notin R
    /\ \A a, b, c \in S : <<a, b>> \in R /\ <<b, c>> \in R => <<a, c>> \in R
Under(S, R, a) == {b \in S : <<b, a>> \in R}

LEMMA Ranks ==
    ASSUME NEW S, NEW R, IsFiniteSet(S), Ranked(S, R)
    PROVE  /\ Cardinality(S) \in Nat
           /\ \A a, b \in S : Cardinality(Under(S, R, a)) = Cardinality(Under(S, R, b)) => a = b
           /\ \A n \in 1..Cardinality(S) : \E a \in S : Cardinality(Under(S, R, a)) = n - 1
           /\ \A a \in S : Cardinality(Under(S, R, a)) \in Nat /\ Cardinality(Under(S, R, a)) < Cardinality(S)
           /\ \A a, b \in S : <<a, b>> \in R => Cardinality(Under(S, R, a)) < Cardinality(Under(S, R, b))
<1>. DEFINE U(a) == Under(S, R, a)
            N == Cardinality(S)
            f == [a \in S |-> Cardinality(U(a)) + 1]
<1>1. N \in Nat
  BY FS_CardinalityType
<1>2. ASSUME NEW a \in S PROVE IsFiniteSet(U(a)) /\ Cardinality(U(a)) \in Nat /\ Cardinality(U(a)) < N
  <2>1. U(a) \in SUBSET S /\ U(a) # S
    BY DEF Ranked, Under
  <2>2. IsFiniteSet(U(a)) /\ Cardinality(U(a)) <= N /\ Cardinality(U(a)) # N
    BY <2>1, FS_Subset
  <2>3. Cardinality(U(a)) \in Nat
    BY <2>2, FS_CardinalityType
  <2>. QED BY <2>2, <2>3, <1>1
<1>3. ASSUME NEW a \in S, NEW b \in S, <<a, b>> \in R PROVE Cardinality(U(a)) < Cardinality(U(b))
  <2>1. U(a) \in SUBSET U(b)
    BY <1>3 DEF Ranked, Under
  <2>2. a \in U(b) /\ a \notin U(a)
    BY <1>3 DEF Ranked, Under
  <2>3. Cardinality(U(a)) <= Cardinality(U(b)) /\ Cardinality(U(a)) # Cardinality(U(b))
    BY <2>1, <2>2, <1>2, FS_Subset
  <2>. QED BY <2>3, <1>2
<1>4. \A a, b \in S : Cardinality(U(a)) = Cardinality(U(b)) => a = b
  <2>. SUFFICES ASSUME NEW a \in S, NEW b \in S, a # b PROVE Cardinality(U(a)) # Cardinality(U(b))
    OBVIOUS
  <2>1. CASE <<a, b>> \in R BY <2>1, <1>2, <1>3
  <2>2. CASE <<b, a>> \in R BY <2>2, <1>2, <1>3
  <2>. QED BY <2>1, <2>2 DEF Ranked
<1>. HIDE DEF U
<1>5. f \in [S -> 1..N]
  BY <1>1, <1>2
<1>6. \A a, b \in S : f[a] = f[b] => a = b
  BY <1>2, <1>4
<1>7. IsFiniteSet(1..N) /\ Cardinality(1..N) = N
  BY <1>1, FS_Interval
<1>8. f \in Surjection(S, 1..N)
  <2>1. f \in Injection(S, 1..N)
    BY <1>5, <1>6 DEF Injection, IsInjective
  <2>. HIDE DEF f
  <2>. QED BY <2>1, <1>7, FS_Injection
<1>9. ASSUME NEW n \in 1..N PROVE \E a \in S : Cardinality(U(a)) = n - 1
  <2>1. PICK a \in S : f[a] = n
    BY <1>8 DEF Surjection
  <2>. QED BY <2>1, <1>1, <1>2
<1>. QED BY <1>1, <1>2, <1>3, <1>4, <1>9 DEF U

\* Only finitely many functions map a finite set to another one.
LEMMA FiniteFunctions ==
    ASSUME NEW S, NEW T, IsFiniteSet(S), IsFiniteSet(T)
    PROVE  IsFiniteSet([S -> T])
<1>. DEFINE graph == [g \in [S -> T] |-> {<<x, g[x]>> : x \in S}]
<1>1. IsFiniteSet(SUBSET (S \X T))
  BY FS_Product, FS_SUBSET
<1>2. graph \in [[S -> T] -> SUBSET (S \X T)]
  OBVIOUS
<1>3. ASSUME NEW g \in [S -> T], NEW h \in [S -> T], graph[g] = graph[h] PROVE g = h
  <2>1. ASSUME NEW x \in S PROVE g[x] = h[x]
    <3>1. <<x, g[x]>> \in graph[h]
      BY <1>3
    <3>. QED BY <3>1
  <2>. QED BY <2>1
<1>. HIDE DEF graph
<1>4. graph \in Injection([S -> T], SUBSET (S \X T))
  BY <1>2, <1>3 DEF Injection, IsInjective
<1>. QED BY <1>1, <1>4, FS_Injection

-----------------------------------------------------------------------------
\* The steps of the other parts do not concern a part.
LEMMA QueriesGo ==
    ASSUME which' = "queries", [Next]_vars
    PROVE  which = "queries" /\ (QueriesStep \/ UNCHANGED vars)
BY DEF Next, vars, QueriesStep, FiltersStep, MediaStep, TokensStep, ConnectionsStep, ReflectionStep

LEMMA FiltersGo ==
    ASSUME which' = "filters", [Next]_vars
    PROVE  which = "filters" /\ (FiltersStep \/ UNCHANGED vars)
BY DEF Next, vars, QueriesStep, FiltersStep, MediaStep, TokensStep, ConnectionsStep, ReflectionStep

LEMMA ReflectionGo ==
    ASSUME which' = "reflection", [Next]_vars
    PROVE  which = "reflection" /\ (ReflectionStep \/ UNCHANGED vars)
BY DEF Next, vars, QueriesStep, FiltersStep, MediaStep, TokensStep, ConnectionsStep, ReflectionStep

LEMMA MediaGo ==
    ASSUME which' = "media", [Next]_vars
    PROVE  which = "media" /\ (MediaStep \/ UNCHANGED vars)
BY DEF Next, vars, QueriesStep, FiltersStep, MediaStep, TokensStep, ConnectionsStep, ReflectionStep

LEMMA ConnectionsGo ==
    ASSUME which' = "connections", [Next]_vars
    PROVE  which = "connections" /\ (ConnectionsStep \/ UNCHANGED vars)
BY DEF Next, vars, QueriesStep, FiltersStep, MediaStep, TokensStep, ConnectionsStep, ReflectionStep

LEMMA TokensGo ==
    ASSUME which' = "tokens", [Next]_vars
    PROVE  which = "tokens" /\ (TokensStep \/ UNCHANGED vars)
BY DEF Next, vars, QueriesStep, FiltersStep, MediaStep, TokensStep, ConnectionsStep, ReflectionStep

-----------------------------------------------------------------------------
(* Connections: a request is served by what its configuration asks for     *)

\* What the engine and its tables depend on.
EngineFields == Connections!IdFields \cup Connections!ParamsFields
TableFields == Connections!IdFields \cup Connections!MetaFields

Agree(c, d, fields) == \A field \in fields : c[field] = d[field]

LEMMA RestrictAgrees ==
    ASSUME NEW c, NEW d, NEW fields, Connections!Restrict(c, fields) = Connections!Restrict(d, fields)
    PROVE  Agree(c, d, fields)
<1>. SUFFICES ASSUME NEW field \in fields PROVE c[field] = d[field]
  BY DEF Agree
<1>1. Connections!Restrict(c, fields)[field] = c[field] /\ Connections!Restrict(d, fields)[field] = d[field]
  BY DEF Connections!Restrict
<1>. QED BY <1>1

\* The parts of an engine's URL are functions of the fields they name.
LEMMA UrlAgrees ==
    ASSUME NEW c, NEW d, Agree(c, d, TableFields)
    PROVE  Connections!Url(c) = Connections!Url(d)
<1>1. Connections!Parts(c, {"user", "password", "host", "name"}) = Connections!Parts(d, {"user", "password", "host", "name"})
  BY DEF Agree, Connections!Parts, TableFields, Connections!IdFields
<1>2. Connections!Parts(c, {"user", "password", "host", "port", "name"}) = Connections!Parts(d, {"user", "password", "host", "port", "name"})
  BY DEF Agree, Connections!Parts, TableFields, Connections!IdFields
<1>3. Connections!Parts(c, {"url", "name"}) = Connections!Parts(d, {"url", "name"})
  BY DEF Agree, Connections!Parts, TableFields, Connections!IdFields
<1>4. Connections!Parts(c, {"host", "port"}) = Connections!Parts(d, {"host", "port"}) /\ Connections!Parts(c, {"user", "password"}) = Connections!Parts(d, {"user", "password"})
  BY DEF Agree, Connections!Parts, TableFields, Connections!IdFields
<1>5. Connections!Parts(c, {"ssh_host", "ssh_port", "ssh_user", "ssh_private_key", "host", "port"})
        = Connections!Parts(d, {"ssh_host", "ssh_port", "ssh_user", "ssh_private_key", "host", "port"})
  BY DEF Agree, Connections!Parts, TableFields, Connections!IdFields
<1>6. \A field \in TableFields : Connections!Part(c, field) = Connections!Part(d, field) /\ Connections!Set(c, field) = Connections!Set(d, field)
  BY DEF Agree, Connections!Part, Connections!Set
<1>7. {"engine", "name", "password", "host", "port", "user", "extra",
       "ssh_host", "ssh_port", "ssh_user", "ssh_private_key"} \subseteq TableFields
  BY DEF TableFields, Connections!IdFields, Connections!MetaFields
<1>8. Connections!Tunnelled(c) = Connections!Tunnelled(d)
  BY <1>6, <1>7 DEF Connections!Tunnelled
<1>9. Connections!Server(c) = Connections!Server(d)
  BY <1>4, <1>5, <1>6, <1>7, <1>8 DEF Connections!Server
<1>10. Connections!Login(c) = Connections!Login(d)
  BY <1>4, <1>6, <1>7 DEF Connections!Login
<1>11. c["engine"] = d["engine"]
  BY <1>7 DEF Agree
<1>12. /\ Connections!Part(c, "name") = Connections!Part(d, "name") /\ Connections!Part(c, "extra") = Connections!Part(d, "extra")
       /\ Connections!Part(c, "password") = Connections!Part(d, "password") /\ Connections!Set(c, "password") = Connections!Set(d, "password")
       /\ Connections!Set(c, "extra") = Connections!Set(d, "extra")
  BY <1>6, <1>7
<1>. QED BY <1>1, <1>2, <1>3, <1>9, <1>10, <1>11, <1>12, Zenon DEF Connections!Url

LEMMA EngineAgrees ==
    ASSUME NEW c, NEW d, Agree(c, d, EngineFields)
    PROVE  Connections!Engine(c) = Connections!Engine(d)
<1>1. Agree(c, d, TableFields) /\ c["engine"] = d["engine"]
  BY DEF Agree, TableFields, EngineFields, Connections!ParamsFields, Connections!IdFields
<1>2. Connections!Parts(c, {"connections", "connections_overflow"}) = Connections!Parts(d, {"connections", "connections_overflow"})
  BY DEF Agree, Connections!Parts, EngineFields, Connections!ParamsFields
<1>3. Connections!Parts(c, {"connections", "connections_overflow", "ssl_ca", "ssl_cert", "ssl_key"})
        = Connections!Parts(d, {"connections", "connections_overflow", "ssl_ca", "ssl_cert", "ssl_key"})
  BY DEF Agree, Connections!Parts, EngineFields, Connections!ParamsFields, Connections!IdFields
<1>4. Connections!Arguments(c) = Connections!Arguments(d)
  BY <1>1, <1>2, <1>3 DEF Connections!Arguments
<1>. QED BY <1>1, <1>4, UrlAgrees DEF Connections!Engine

LEMMA ReflectedAgrees ==
    ASSUME NEW c, NEW d, Agree(c, d, TableFields)
    PROVE  Connections!Reflected(c) = Connections!Reflected(d)
<1>1. /\ c["engine"] = d["engine"] /\ c["schema"] = d["schema"]
      /\ c["only"] = d["only"] /\ c["except"] = d["except"]
  BY DEF Agree, TableFields, Connections!IdFields, Connections!MetaFields
<1>2. Connections!Schema(c) = Connections!Schema(d)
  BY <1>1 DEF Connections!Schema, Connections!Set
<1>3. {t \in TableNames : Connections!Only(c, t)} = {t \in TableNames : Connections!Only(d, t)}
  BY <1>1 DEF Connections!Only, Connections!Set
<1>. QED BY <1>2, <1>3, UrlAgrees DEF Connections!Reflected

-----------------------------------------------------------------------------
Same(connection, conf) ==
    /\ connection.params = Connections!ParamsId(conf) /\ connection.engine = Connections!Engine(conf)
    /\ connection.metadata = Connections!Reflected(conf) /\ connection.timezone = conf["timezone"]

\* Each connection, and each metadata file, was made for a configuration that has its key.
OwnConnections == \A id \in DOMAIN connections : \E conf : Connections!Id(conf) = id /\ Same(connections[id], conf)
OwnDumps == \A path \in DOMAIN dumps : \E conf : Connections!MetadataPath(conf) = path /\ dumps[path] = Connections!Reflected(conf)

ConfsInv == OwnConnections /\ OwnDumps /\ Connections!SameIdSameEngine

LEMMA SameForBoth ==
    ASSUME NEW connection, NEW c, NEW d, Connections!Id(c) = Connections!Id(d), Same(connection, c), connection.params = Connections!ParamsId(d)
    PROVE  Same(connection, d)
<1>1. Agree(c, d, Connections!IdFields) /\ Agree(c, d, Connections!ParamsFields)
  BY RestrictAgrees DEF Connections!Id, Connections!ParamsId, Same
<1>2. Agree(c, d, EngineFields) /\ Agree(c, d, TableFields) /\ c["timezone"] = d["timezone"]
  BY <1>1 DEF Agree, EngineFields, TableFields, Connections!ParamsFields, Connections!IdFields
<1>. QED BY <1>2, EngineAgrees, ReflectedAgrees DEF Same

LEMMA DumpForBoth ==
    ASSUME NEW c, NEW d, Connections!MetadataPath(c) = Connections!MetadataPath(d)
    PROVE  Connections!Reflected(c) = Connections!Reflected(d)
<1>1. Agree(c, d, Connections!IdFields) /\ Agree(c, d, Connections!MetaFields)
  BY RestrictAgrees DEF Connections!MetadataPath, Connections!Id
<1>. QED BY <1>1, ReflectedAgrees DEF Agree, TableFields

LEMMA InitConfs == Connections!Init => ConfsInv
BY DEF Connections!Init, ConfsInv, OwnConnections, OwnDumps, Connections!SameIdSameEngine

LEMMA NextConfs == ConfsInv /\ [Connections!Next]_(Connections!vars) => ConfsInv'
<1>. SUFFICES ASSUME ConfsInv, [Connections!Next]_(Connections!vars) PROVE ConfsInv'
  OBVIOUS
<1>1. ASSUME NEW conf, Connections!Reuse(conf) PROVE ConfsInv'
  <2>1. PICK c : Connections!Id(c) = Connections!Id(conf) /\ Same(connections[Connections!Id(conf)], c)
    BY <1>1 DEF Connections!Reuse, ConfsInv, OwnConnections
  <2>2. Same(connections[Connections!Id(conf)], conf)
    BY <1>1, <2>1, SameForBoth DEF Connections!Reuse
  <2>3. answer'.conf = conf /\ answer'.connection = connections[Connections!Id(conf)]
    BY <1>1 DEF Connections!Reuse
  <2>4. Connections!SameIdSameEngine'
    BY <2>2, <2>3 DEF Connections!SameIdSameEngine, Same
  <2>. QED BY <1>1, <2>4 DEF Connections!Reuse, ConfsInv, OwnConnections, OwnDumps
<1>2. ASSUME NEW conf, Connections!Connect(conf) PROVE ConfsInv'
  <2>. DEFINE path == Connections!MetadataPath(conf)
              metadata == IF path \in DOMAIN dumps THEN dumps[path] ELSE Connections!Reflected(conf)
              connection == [params |-> Connections!ParamsId(conf), engine |-> Connections!Engine(conf), metadata |-> metadata,
                             timezone |-> conf["timezone"]]
  <2>1. /\ connections' = Connections!Put(connections, Connections!Id(conf), connection)
        /\ dumps' = Connections!Put(dumps, path, metadata)
        /\ answer' = [conf |-> conf, connection |-> connection]
    BY <1>2 DEF Connections!Connect
  <2>2. metadata = Connections!Reflected(conf)
    BY DumpForBoth DEF ConfsInv, OwnDumps
  <2>3. Same(connection, conf)
    BY <2>2 DEF Same
  <2>. HIDE DEF connection, metadata, path
  <2>4. OwnConnections'
    <3>1. ASSUME NEW id \in DOMAIN connections' PROVE \E c : Connections!Id(c) = id /\ Same(connections'[id], c)
      <4>1. CASE id = Connections!Id(conf)
        BY <2>1, <2>3, <4>1 DEF Connections!Put
      <4>2. CASE id # Connections!Id(conf)
        <5>1. id \in DOMAIN connections /\ connections'[id] = connections[id]
          BY <2>1, <3>1, <4>2 DEF Connections!Put
        <5>. QED BY <5>1 DEF ConfsInv, OwnConnections
      <4>. QED BY <4>1, <4>2
    <3>. QED BY <3>1 DEF OwnConnections
  <2>5. OwnDumps'
    <3>1. ASSUME NEW at \in DOMAIN dumps' PROVE \E c : Connections!MetadataPath(c) = at /\ dumps'[at] = Connections!Reflected(c)
      <4>1. CASE at = path
        BY <2>1, <2>2, <4>1 DEF path, Connections!Put
      <4>2. CASE at # path
        <5>1. at \in DOMAIN dumps /\ dumps'[at] = dumps[at]
          BY <2>1, <3>1, <4>2 DEF Connections!Put
        <5>. QED BY <5>1 DEF ConfsInv, OwnDumps
      <4>. QED BY <4>1, <4>2
    <3>. QED BY <3>1 DEF OwnDumps
  <2>6. Connections!SameIdSameEngine'
    BY <2>1, <2>3 DEF Connections!SameIdSameEngine, Same
  <2>. QED BY <2>4, <2>5, <2>6 DEF ConfsInv
<1>3. ASSUME NEW conf, Connections!Incomplete(conf) PROVE ConfsInv'
  BY <1>3 DEF Connections!Incomplete, ConfsInv, OwnConnections, OwnDumps, Connections!SameIdSameEngine
<1>4. CASE Connections!Restart
  BY <1>4 DEF Connections!Restart, ConfsInv, OwnConnections, OwnDumps, Connections!SameIdSameEngine
<1>5. CASE UNCHANGED Connections!vars
  BY <1>5 DEF Connections!vars, ConfsInv, OwnConnections, OwnDumps, Connections!SameIdSameEngine
<1>. QED BY <1>1, <1>2, <1>3, <1>4, <1>5 DEF Connections!Next, Connections!Request

\* Whatever connections and files are left, the keys of utils/conf.py:87-123 and 205-212
\* cover all that an engine, its tables and its time zone depend on.
THEOREM SameIdSameEngineAlways == Spec => []SameIdSameEngine
<1>. DEFINE Inv == which = "connections" => ConfsInv
<1>1. Init => Inv
  BY InitConfs DEF Init
<1>2. Inv /\ [Next]_vars => Inv'
  <2>. SUFFICES ASSUME Inv, [Next]_vars, which' = "connections" PROVE ConfsInv'
    OBVIOUS
  <2>1. which = "connections" /\ (ConnectionsStep \/ UNCHANGED vars)
    BY ConnectionsGo
  <2>2. [Connections!Next]_(Connections!vars)
    BY <2>1 DEF ConnectionsStep, vars, connectionsVars, Connections!vars
  <2>. QED BY <2>1, <2>2, NextConfs
<1>3. Inv => SameIdSameEngine
  BY DEF ConfsInv, SameIdSameEngine
<1>. QED BY <1>1, <1>2, <1>3, PTL DEF Spec

-----------------------------------------------------------------------------
(* Tokens: the chain of refresh tokens                                     *)

TokenProofs == INSTANCE TokenRefresh_proofs

\* TokenRefresh_proofs is about the same definitions.
LEMMA SameTokens ==
    /\ Tokens!Init = TokenProofs!Init
    /\ Tokens!Next = TokenProofs!Next
    /\ Tokens!vars = TokenProofs!vars
    /\ Tokens!RefreshChainUnbroken = TokenProofs!RefreshChainUnbroken
<1>1. Tokens!Init = TokenProofs!Init
  BY DEF Tokens!Init, TokenProofs!Init, Tokens!Tokens, TokenProofs!Tokens, Tokens!Idle, TokenProofs!Idle, Tokens!Providers, TokenProofs!Providers
<1>2. Tokens!Next = TokenProofs!Next
  BY DEF Tokens!Next, TokenProofs!Next, Tokens!Providers, TokenProofs!Providers, Tokens!Idle, TokenProofs!Idle, Tokens!At, TokenProofs!At, Tokens!Goto, TokenProofs!Goto, Tokens!Tokens, TokenProofs!Tokens, Tokens!Send, TokenProofs!Send, Tokens!Lasting, TokenProofs!Lasting, Tokens!RefreshWith, TokenProofs!RefreshWith, Tokens!MustRefresh, TokenProofs!MustRefresh, Tokens!Resolved, TokenProofs!Resolved, Tokens!UseAsIs, TokenProofs!UseAsIs, Tokens!CookieOf, TokenProofs!CookieOf, Tokens!Accept, TokenProofs!Accept, Tokens!SentWith, TokenProofs!SentWith, Tokens!Refresh, TokenProofs!Refresh, Tokens!Refuse, TokenProofs!Refuse, Tokens!RefreshFails, TokenProofs!RefreshFails, Tokens!Respond, TokenProofs!Respond, Tokens!ResponseLost, TokenProofs!ResponseLost, Tokens!Expire, TokenProofs!Expire
<1>3. Tokens!vars = TokenProofs!vars
  BY DEF Tokens!vars, TokenProofs!vars
<1>4. Tokens!RefreshChainUnbroken = TokenProofs!RefreshChainUnbroken
  BY DEF Tokens!RefreshChainUnbroken, TokenProofs!RefreshChainUnbroken, Tokens!At, TokenProofs!At, Tokens!RefreshWith, TokenProofs!RefreshWith
<1>. QED BY <1>1, <1>2, <1>3, <1>4

\* Requests that overlap, and that name the access token any number of times, make the user
\* log in again only by a lost answer of a provider that takes tokens back, a provider that
\* sends no refresh token, or one that revokes a token it sees again
\* (get_access_token and resolve_secret_tokens, proxy_request.py:33-153).
THEOREM RefreshChainUnbrokenAlways == Spec => []RefreshChainUnbroken
<1>. USE TokensAssumption DEF TokensAssumption, TokenProofs!NoneIsNothing, TokenProofs!NamesAreCounted,
                              TokenProofs!TokenRecords
<1>. DEFINE Inv == which = "tokens" => TokenProofs!TypeInv /\ TokenProofs!Chain
<1>1. Init => Inv
  BY SameTokens, TokenProofs!InitTypes, TokenProofs!InitChain DEF Init
<1>2. Inv /\ [Next]_vars => Inv'
  <2>. SUFFICES ASSUME Inv, [Next]_vars, which' = "tokens" PROVE TokenProofs!TypeInv' /\ TokenProofs!Chain'
    OBVIOUS
  <2>1. which = "tokens" /\ (TokensStep \/ UNCHANGED vars)
    BY TokensGo
  <2>2. TokenProofs!Next \/ UNCHANGED TokenProofs!vars
    BY <2>1, SameTokens DEF TokensStep, vars, tokensVars, TokenProofs!vars
  <2>. QED BY <2>1, <2>2, TokenProofs!NextTypes, TokenProofs!NextChain
<1>3. Inv => RefreshChainUnbroken
  BY SameTokens, TokenProofs!ChainSuffices DEF RefreshChainUnbroken
<1>. QED BY <1>1, <1>2, <1>3, PTL DEF Spec

-----------------------------------------------------------------------------
(* Queries: what a list query answers                                      *)

LEMMA CountsAlike == \A S : Queries!Cardinality(S) = Cardinality(S)
BY DEF Cardinality, Queries!Cardinality

LEMMA SpanIsFinite == ASSUME NEW n \in Nat PROVE IsFiniteSet(1..n)
BY FS_Interval

\* What stays true of the tables that other sessions change.
Database ==
    /\ tables = [keys |-> tables.keys, related |-> tables.related]
    /\ DOMAIN tables.keys \subseteq Nat /\ IsFiniteSet(DOMAIN tables.keys)
    /\ \A i \in DOMAIN tables.keys : tables.keys[i] \in Int \cup {Null}
    /\ IsFiniteSet(DOMAIN tables.related)

LEMMA TimesAreNat ==
    ASSUME QueriesAssumption, Database, NEW q \in QuerySet, NEW i
    PROVE  Queries!Times(q, i) \in Nat
<1>. DEFINE S == DOMAIN q.filters
            T == {0} \cup DOMAIN tables.related
<1>1. IsFiniteSet(S) /\ IsFiniteSet(T)
  BY FS_Singleton, FS_Union DEF QueriesAssumption, Database
<1>2. IsFiniteSet([S -> T])
  BY <1>1, FiniteFunctions
<1>3. Queries!Joins(q, i) \in SUBSET [S -> T]
  BY DEF Queries!Joins
<1>. HIDE DEF S, T
<1>4. Cardinality(Queries!Joins(q, i)) \in Nat
  BY <1>2, <1>3, FS_Subset, FS_CardinalityType
<1>. QED BY <1>4, CountsAlike DEF Queries!Times

\* An engine that groups, and MongoDB, join no row twice.
LEMMA TimesAtMostOne ==
    ASSUME dialect \in {"postgresql", "mongo"}, NEW q, NEW i
    PROVE  Queries!Times(q, i) \in {0, 1}
<1>1. CASE dialect = "postgresql"
  <2>1. Queries!Joins(q, i) = {} => Queries!Times(q, i) = 0
    BY FS_EmptySet, CountsAlike DEF Queries!Times
  <2>2. Queries!Joins(q, i) # {} => Queries!Times(q, i) = 1
    BY <1>1 DEF Queries!Times, Queries!Groups
  <2>. QED BY <2>1, <2>2
<1>2. CASE dialect = "mongo"
  <2>1. ASSUME NEW join \in Queries!Joins(q, i) PROVE join = [c \in DOMAIN q.filters |-> 0]
    <3>1. \A c \in DOMAIN q.filters : Queries!Kept(q.filters[c], i) \subseteq {0}
      BY <1>2 DEF Queries!Kept
    <3>. QED BY <3>1 DEF Queries!Joins
  <2>2. Queries!Joins(q, i) \in {{}, {[c \in DOMAIN q.filters |-> 0]}}
    BY <2>1
  <2>3. Cardinality(Queries!Joins(q, i)) \in {0, 1}
    BY <2>2, FS_EmptySet, FS_Singleton
  <2>. QED BY <1>2, <2>3, CountsAlike DEF Queries!Times, Queries!Groups
<1>. QED BY <1>1, <1>2

LEMMA CopiesRanked ==
    ASSUME QueriesAssumption, Database, NEW q \in QuerySet
    PROVE  LET C == Queries!Copies(q)
               R == {ab \in C \X C : Queries!Precedes(q, ab[1], ab[2])}
           IN  /\ IsFiniteSet(C) /\ Ranked(C, R)
               /\ \A a \in C : {b \in C : Queries!Precedes(q, b, a)} = Under(C, R, a)
<1>. DEFINE K == DOMAIN tables.keys
            C == Queries!Copies(q)
            R == {ab \in C \X C : Queries!Precedes(q, ab[1], ab[2])}
            sets == {{i} \X (1..Queries!Times(q, i)) : i \in K}
<1>1. \A i : Queries!Times(q, i) \in Nat
  BY TimesAreNat
<1>2. IsFiniteSet(C)
  <2>. DEFINE f == [i \in K |-> {i} \X (1..Queries!Times(q, i))]
  <2>1. f \in Surjection(K, sets)
    BY DEF Surjection
  <2>2. \A T \in sets : IsFiniteSet(T)
    <3>. SUFFICES ASSUME NEW i \in K PROVE IsFiniteSet({i} \X (1..Queries!Times(q, i)))
      OBVIOUS
    <3>1. IsFiniteSet({i})
      BY FS_Singleton
    <3>2. Queries!Times(q, i) \in Nat
      BY <1>1
    <3>3. IsFiniteSet(1..Queries!Times(q, i))
      BY <3>2, SpanIsFinite
    <3>. QED BY <3>1, <3>3, FS_Product
  <2>3. C = UNION sets
    BY DEF Queries!Copies
  <2>. HIDE DEF f, sets, C
  <2>4. IsFiniteSet(sets)
    BY <2>1, FS_Surjection DEF Database
  <2>. QED BY <2>2, <2>3, <2>4, FS_UNION
<1>3. \A a \in C : a[1] \in K /\ a[2] \in Int /\ a = <<a[1], a[2]>>
  BY <1>1 DEF Queries!Copies
<1>4. \A i \in K : i \in Int /\ tables.keys[i] \in Int \cup {Null}
  BY DEF Database
<1>5. \A i, j \in K : i # j => Queries!Before(q, i, j) \/ Queries!Before(q, j, i)
  BY <1>4 DEF Queries!Before, Queries!Lower, QueriesAssumption
<1>6. \A i \in K : ~Queries!Before(q, i, i)
  BY <1>4 DEF Queries!Before
<1>7. \A i, j, k \in K : Queries!Before(q, i, j) /\ Queries!Before(q, j, k) => Queries!Before(q, i, k)
  <2>. SUFFICES ASSUME NEW i \in K, NEW j \in K, NEW k \in K, Queries!Before(q, i, j), Queries!Before(q, j, k)
                PROVE  Queries!Before(q, i, k)
    OBVIOUS
  <2>1. CASE q.sort
    BY <1>4, <2>1 DEF Queries!Before, Queries!Lower, QueriesAssumption
  <2>2. CASE ~q.sort
    BY <1>4, <2>2 DEF Queries!Before
  <2>. QED BY <2>1, <2>2
<1>8. Ranked(C, R)
  <2>. HIDE DEF C, K
  <2>1. \A a, b \in C : a # b => Queries!Precedes(q, a, b) \/ Queries!Precedes(q, b, a)
    BY <1>3, <1>5 DEF Queries!Precedes
  <2>2. \A a \in C : ~Queries!Precedes(q, a, a)
    BY <1>3 DEF Queries!Precedes
  <2>3. \A a, b, c \in C : Queries!Precedes(q, a, b) /\ Queries!Precedes(q, b, c) => Queries!Precedes(q, a, c)
    <3>. SUFFICES ASSUME NEW a \in C, NEW b \in C, NEW c \in C, Queries!Precedes(q, a, b), Queries!Precedes(q, b, c)
                  PROVE  Queries!Precedes(q, a, c)
      OBVIOUS
    <3>1. CASE a[1] = b[1] /\ b[1] = c[1]
      BY <3>1, <1>3 DEF Queries!Precedes
    <3>2. CASE a[1] = b[1] /\ b[1] # c[1]
      BY <3>2, <1>3 DEF Queries!Precedes
    <3>3. CASE a[1] # b[1] /\ b[1] = c[1]
      BY <3>3, <1>3 DEF Queries!Precedes
    <3>4. CASE a[1] # b[1] /\ b[1] # c[1]
      <4>1. Queries!Before(q, a[1], b[1]) /\ Queries!Before(q, b[1], c[1])
        BY <3>4 DEF Queries!Precedes
      <4>2. Queries!Before(q, a[1], c[1])
        BY <4>1, <1>3, <1>7
      <4>3. a[1] # c[1]
        BY <4>2, <1>3, <1>6
      <4>. QED BY <4>2, <4>3 DEF Queries!Precedes
    <3>. QED BY <3>1, <3>2, <3>3, <3>4
  <2>. QED BY <2>1, <2>2, <2>3 DEF Ranked
<1>9. \A a \in C : {b \in C : Queries!Precedes(q, b, a)} = Under(C, R, a)
  BY DEF Under
<1>. QED BY <1>2, <1>8, <1>9

\* A list is a sequence, of distinct rows if no row is joined twice.
LEMMA Lists ==
    ASSUME QueriesAssumption, Database, NEW q \in QuerySet
    PROVE  /\ \E n \in Nat : /\ DOMAIN Queries!Result(q) = 1..n /\ Len(Queries!Result(q)) = n
           /\ dialect \in {"postgresql", "mongo"} =>
                \A m, n \in DOMAIN Queries!Result(q) : Queries!Result(q)[m] = Queries!Result(q)[n] => m = n
<1>. DEFINE C == Queries!Copies(q)
            R == {ab \in C \X C : Queries!Precedes(q, ab[1], ab[2])}
            N == Cardinality(C)
<1>1. /\ IsFiniteSet(C) /\ Ranked(C, R)
      /\ \A a \in C : {b \in C : Queries!Precedes(q, b, a)} = Under(C, R, a)
  BY CopiesRanked
<1>. HIDE DEF R
<1>2. /\ N \in Nat
      /\ \A n \in 1..N : \E a \in C : Cardinality(Under(C, R, a)) = n - 1
  BY <1>1, Ranks
<1>3. ASSUME NEW n \in 1..N PROVE Queries!CopyAt(q, n) \in C /\ Cardinality(Under(C, R, Queries!CopyAt(q, n))) = n - 1
  <2>1. \E a \in C : Cardinality({b \in C : Queries!Precedes(q, b, a)}) = n - 1
    BY <1>1, <1>2
  <2>2. Queries!CopyAt(q, n) \in C /\ Cardinality({b \in C : Queries!Precedes(q, b, Queries!CopyAt(q, n))}) = n - 1
    BY <2>1, CountsAlike DEF Queries!CopyAt
  <2>. QED BY <2>2, <1>1
<1>4. Queries!Result(q) = [n \in 1..N |-> Queries!CopyAt(q, n)[1]]
  BY CountsAlike DEF Queries!Result
<1>5. DOMAIN Queries!Result(q) = 1..N /\ Len(Queries!Result(q)) = N
  BY <1>2, <1>4
<1>6. ASSUME dialect \in {"postgresql", "mongo"}, NEW m \in 1..N, NEW n \in 1..N,
             Queries!CopyAt(q, m)[1] = Queries!CopyAt(q, n)[1]
      PROVE  m = n
  <2>1. \A i : 1..Queries!Times(q, i) \subseteq {1}
    BY <1>6, TimesAtMostOne
  <2>2. \A a \in C : a = <<a[1], 1>>
    BY <2>1 DEF Queries!Copies
  <2>3. Queries!CopyAt(q, m) = Queries!CopyAt(q, n)
    BY <2>2, <1>3, <1>6
  <2>4. m - 1 = n - 1
    BY <2>3, <1>3
  <2>. QED BY <2>4, <1>2
<1>. QED BY <1>2, <1>4, <1>5, <1>6

\* p is the page from..to of the list r.
PageOf(p, r, all, limit, from, to) ==
    /\ all \in Nat /\ DOMAIN r = 1..all /\ Len(r) = all
    /\ limit \in Nat /\ from \in Nat /\ to \in Nat
    /\ p = SubSeq(r, from + 1, to)
    /\ to = all \/ (to = from + limit /\ to <= all)
PageFacts(p, r, all, limit, from, to) ==
    /\ \E n \in Nat : DOMAIN p = 1..n /\ Len(p) = n
    /\ \A m \in DOMAIN p : p[m] = r[from + m] /\ from + m \in 1..all
    /\ Len(p) # limit => to = all
    /\ from = 0 /\ Len(p) < limit => Len(p) = all

LEMMA PageOfList ==
    ASSUME NEW p, NEW r, NEW all, NEW limit, NEW from, NEW to, PageOf(p, r, all, limit, from, to)
    PROVE  PageFacts(p, r, all, limit, from, to)
<1>. USE DEF PageOf
<1>. DEFINE k == IF to >= from THEN to - from ELSE 0
<1>1. k \in Nat
  OBVIOUS
<1>2. DOMAIN p = 1..k
  <2>1. DOMAIN p = 1..(1 + to - (from + 1))
    OBVIOUS
  <2>. QED BY <2>1
<1>3. p = [m \in 1..k |-> r[from + m]]
  <2>1. p = [m \in 1..(1 + to - (from + 1)) |-> r[(from + 1) + m - 1]]
    OBVIOUS
  <2>2. 1..(1 + to - (from + 1)) = 1..k
    OBVIOUS
  <2>3. \A m \in 1..k : (from + 1) + m - 1 = from + m
    OBVIOUS
  <2>. QED BY <2>1, <2>2, <2>3
<1>4. Len(p) = k
  <2>. HIDE DEF k
  <2>. QED BY <1>1, <1>3
<1>5. to <= all
  OBVIOUS
<1>6. \A m \in 1..k : from + m \in 1..all
  OBVIOUS
<1>7. \A m \in DOMAIN p : p[m] = r[from + m] /\ from + m \in 1..all
  BY <1>2, <1>3, <1>6
<1>8. Len(p) # limit => to = all
  BY <1>4
<1>9. from = 0 /\ Len(p) < limit => Len(p) = all
  BY <1>4
<1>. QED BY <1>1, <1>2, <1>4, <1>7, <1>8, <1>9 DEF PageFacts

\* What a page is of its list, when it is read.
LEMMA PageIs ==
    ASSUME QueriesAssumption, Database, NEW q \in QuerySet,
           NEW p, p = SubSeq(Queries!Result(q), Queries!Offset(q) + 1, Queries!PageEnd(q))
    PROVE  /\ Queries!Limit(q) \in Nat
           /\ \E n \in Nat : DOMAIN p = 1..n /\ Len(p) = n
           /\ dialect \in {"postgresql", "mongo"} => \A m, n \in DOMAIN p : p[m] = p[n] => m = n
           /\ Len(p) # Queries!Limit(q) => Queries!PageEnd(q) >= Len(Queries!Result(q))
           /\ Queries!NeedsNoCount(q, p) /\ ~(q.offset # Absent /\ q.page # Absent) => Len(p) = Len(Queries!Result(q))
<1>. DEFINE r == Queries!Result(q)
            from == Queries!Offset(q)
            to == Queries!PageEnd(q)
            limit == Queries!Limit(q)
<1>1. PICK all \in Nat : DOMAIN r = 1..all /\ Len(r) = all
  BY Lists
<1>2. limit \in Nat
  BY DEF Queries!Limit, QueriesAssumption
<1>3. from \in Nat
  <2>1. CASE q.offset # Absent
    BY <2>1 DEF Queries!Offset, QueriesAssumption
  <2>2. CASE q.offset = Absent /\ q.page # Absent
    <3>1. q.page - 1 \in Nat
      BY <2>2 DEF QueriesAssumption
    <3>2. \A m, n \in Nat : m * n \in Nat
      OBVIOUS
    <3>. QED BY <3>1, <3>2, <1>2, <2>2 DEF Queries!Offset
  <2>3. CASE q.offset = Absent /\ q.page = Absent
    BY <2>3 DEF Queries!Offset
  <2>. QED BY <2>1, <2>2, <2>3
<1>4. \A m, n \in Int : Queries!Min({m, n}) = IF m <= n THEN m ELSE n
  BY DEF Queries!Min
<1>5. to = IF dialect = "mongo" /\ limit = 0 THEN all ELSE IF from + limit <= all THEN from + limit ELSE all
  <2>1. Len(r) = all
    BY <1>1
  <2>2. to = IF dialect = "mongo" /\ limit = 0 THEN Len(r) ELSE Queries!Min({from + limit, Len(r)})
    BY DEF Queries!PageEnd
  <2>3. from + limit \in Int /\ all \in Int
    BY <1>2, <1>3
  <2>4. Queries!Min({from + limit, all}) = IF from + limit <= all THEN from + limit ELSE all
    BY <1>4, <2>3
  <2>. QED BY <2>1, <2>2, <2>4
<1>6. to \in Nat /\ to <= all
  BY <1>2, <1>3, <1>5
<1>7. p = SubSeq(r, from + 1, to)
  BY DEF r, from, to
<1>8. PageFacts(p, r, all, limit, from, to)
  <2>1. to = all \/ (to = from + limit /\ to <= all)
    BY <1>5, <1>6
  <2>2. DOMAIN r = 1..all /\ Len(r) = all /\ to \in Nat
    BY <1>1, <1>6
  <2>3. PageOf(p, r, all, limit, from, to)
    BY <2>1, <2>2, <1>2, <1>3, <1>7 DEF PageOf
  <2>. QED BY <2>3, PageOfList
<1>10. dialect \in {"postgresql", "mongo"} => \A m, n \in DOMAIN p : p[m] = p[n] => m = n
  <2>. SUFFICES ASSUME dialect \in {"postgresql", "mongo"}, NEW m \in DOMAIN p, NEW n \in DOMAIN p, p[m] = p[n] PROVE m = n
    OBVIOUS
  <2>1. r[from + m] = r[from + n] /\ from + m \in DOMAIN r /\ from + n \in DOMAIN r
    BY <1>1, <1>8 DEF PageFacts
  <2>4. from + m = from + n
    BY <2>1, Lists
  <2>2. m \in Nat /\ n \in Nat
    BY <1>8 DEF PageFacts
  <2>. QED BY <2>4, <2>2, <1>3
<1>11. Len(p) # limit => to >= Len(r)
  <2>1. Len(r) = all
    BY <1>1
  <2>2. all >= all
    OBVIOUS
  <2>3. Len(p) # limit => to = all
    BY <1>8 DEF PageFacts
  <2>. QED BY <2>1, <2>2, <2>3
<1>12. Queries!NeedsNoCount(q, p) /\ ~(q.offset # Absent /\ q.page # Absent) => Len(p) = Len(r)
  <2>. SUFFICES ASSUME Queries!NeedsNoCount(q, p), ~(q.offset # Absent /\ q.page # Absent) PROVE Len(p) = Len(r)
    OBVIOUS
  <2>1. Len(p) < limit /\ (q.offset = 0 \/ q.page = 1)
    BY DEF Queries!NeedsNoCount, limit
  <2>2. from = 0
    BY <2>1, <1>2 DEF Queries!Offset, QueriesAssumption, from, limit
  <2>. QED BY <2>1, <2>2, <1>1, <1>8 DEF PageFacts
<1>13. \E n \in Nat : DOMAIN p = 1..n /\ Len(p) = n
  BY <1>8 DEF PageFacts
<1>. QED BY <1>2, <1>10, <1>11, <1>12, <1>13

QueryFields == {"pc", "q", "page", "end", "keys", "aggregated", "counted", "related", "own", "steady",
                "count", "hasMore", "all"}

\* The page and its keys; until it is counted, its list is still what the page was read from.
PageInv ==
    query.pc # "idle" =>
        /\ DOMAIN query = QueryFields /\ query.q \in QuerySet
        /\ \E n \in Nat : DOMAIN query.page = 1..n /\ Len(query.page) = n
        /\ DOMAIN query.keys = DOMAIN query.page
        /\ dialect # "sqlite" => \A m, n \in DOMAIN query.page : query.page[m] = query.page[n] => m = n
        /\ Len(query.page) # Queries!Limit(query.q) => query.end
        /\ /\ quiet /\ query.pc # "over" /\ Queries!NeedsNoCount(query.q, query.page)
           /\ ~(query.q.offset # Absent /\ query.q.page # Absent)
           => Len(query.page) = Len(Queries!Result(query.q))
        /\ query.pc = "over" => Queries!PagesAreRight

\* What the aggregate found, as long as nothing is committed.
LookupsInv ==
    /\ changes \in Nat
    /\ query.pc = "related" =>
        /\ query.counted \in Nat /\ query.counted <= changes
        /\ query.counted = changes =>
            query.aggregated = [n \in DOMAIN query.keys |-> Queries!Aggregated(query.keys, n)]
    /\ Queries!LookupsAreOwn

QueryInv == dialect \in Queries!SqlAndMongo /\ Database /\ PageInv /\ LookupsInv

LEMMA DistinctRows ==
    ASSUME NEW p, NEW n \in Nat, DOMAIN p = 1..n, Len(p) = n, \A k, m \in DOMAIN p : p[k] = p[m] => k = m
    PROVE  Len(p) = Cardinality(Queries!Range(p))
<1>. DEFINE f == [m \in 1..n |-> p[m]]
            S == Queries!Range(p)
<1>1. f \in Injection(1..n, S)
  BY DEF Injection, IsInjective, Queries!Range
<1>2. f \in Surjection(1..n, S)
  BY DEF Surjection, Queries!Range
<1>3. IsFiniteSet(1..n) /\ Cardinality(1..n) = n
  BY FS_Interval
<1>. HIDE DEF f, S
<1>4. Cardinality(S) = n
  BY <1>1, <1>2, <1>3, FS_Surjection
<1>. QED BY <1>4 DEF S

LEMMA PagesFollow == ASSUME PageInv PROVE Queries!PagesAreRight
<1>1. ASSUME query.pc # "idle", dialect # "sqlite" PROVE Len(query.page) = Cardinality(Queries!Range(query.page))
  <2>1. PICK n \in Nat : DOMAIN query.page = 1..n /\ Len(query.page) = n
    BY <1>1 DEF PageInv
  <2>2. \A k, m \in DOMAIN query.page : query.page[k] = query.page[m] => k = m
    BY <1>1 DEF PageInv
  <2>. QED BY <2>1, <2>2, DistinctRows
<1>2. query.pc = "over" => Queries!PagesAreRight
  BY DEF PageInv
<1>. QED BY <1>1, <1>2, CountsAlike DEF Queries!PagesAreRight

LEMMA InitQueries == ASSUME QueriesAssumption, Queries!Init PROVE QueryInv
<1>1. query.pc = "idle"
  BY DEF Queries!Init
<1>2. Database
  BY DEF Queries!Init, Database, QueriesAssumption
<1>. QED BY <1>1, <1>2 DEF Queries!Init, QueryInv, PageInv, LookupsInv, Queries!LookupsAreOwn

\* The group that a row takes is that of a key which looks like its own.
LEMMA AggregatedIsAlikes ==
    ASSUME NEW keys, NEW top \in Nat, DOMAIN keys = 1..top, NEW n \in 1..top
    PROVE  \E m \in DOMAIN keys :
             Queries!LooseIn(keys[m], {keys[n]}) /\ Queries!Aggregated(keys, n) = Cardinality(Queries!Joined(keys[m]))
<1>. DEFINE alike(m) == Queries!LooseIn(keys[m], {keys[n]})
            T == {m \in 1..top : alike(m)}
<1>1. n \in T
  <2>1. alike(n)
    BY Zenon DEF Queries!LooseIn
  <2>. HIDE DEF alike
  <2>. QED BY <2>1
<1>. HIDE DEF alike
<1>2. T \subseteq Nat /\ T # {}
  BY <1>1
<1>. HIDE DEF T
<1>3. PICK least \in T : \A m \in T : least <= m
  BY <1>2, LeastNatural
<1>4. least \in DOMAIN keys /\ alike(least) /\ \A l \in 1..(least - 1) : ~alike(l)
  <2>1. least \in 1..top /\ alike(least)
    BY DEF T
  <2>2. ASSUME NEW l \in 1..(least - 1), alike(l) PROVE FALSE
    <3>1. l \in T
      BY <2>1, <2>2 DEF T
    <3>. QED BY <3>1, <2>1, <1>3
  <2>. QED BY <2>1, <2>2
<1>. DEFINE first == CHOOSE m \in DOMAIN keys : alike(m) /\ \A l \in 1..(m - 1) : ~alike(l)
<1>5. first \in DOMAIN keys /\ alike(first)
  BY <1>4
<1>7. Queries!Aggregated(keys, n) = Queries!Cardinality(Queries!Joined(keys[first]))
  BY DEF Queries!Aggregated, alike
<1>. HIDE DEF first
<1>8. first \in DOMAIN keys /\ Queries!LooseIn(keys[first], {keys[n]})
  BY <1>5 DEF alike
<1>. QED BY <1>7, <1>8, CountsAlike

\* What a row gets refers to its own key or to one of the page that looks the same.
LEMMA RelatedIsAlikes ==
    ASSUME NEW keys, NEW n \in DOMAIN keys
    PROVE  Queries!RelatedTo(keys[n], Queries!Loaded(Queries!Range(keys))) =
             UNION {Queries!Joined(keys[m]) : m \in {l \in DOMAIN keys : Queries!LooseIn(keys[l], {keys[n]})}}
<1>1. ASSUME NEW m \in DOMAIN keys, Queries!LooseIn(keys[m], {keys[n]}), NEW s \in Queries!Joined(keys[m])
      PROVE  s \in Queries!RelatedTo(keys[n], Queries!Loaded(Queries!Range(keys)))
  <2>1. keys[m] \in Queries!Range(keys)
    BY DEF Queries!Range
  <2>2. s \in Queries!Loaded(Queries!Range(keys))
    BY <1>1, <2>1 DEF Queries!Loaded
  <2>3. tables.related[s].rel = keys[m]
    BY <1>1 DEF Queries!Joined
  <2>4. Queries!LooseIn(tables.related[s].rel, {keys[n]})
    BY <1>1, <2>3
  <2>. QED BY <2>2, <2>4 DEF Queries!RelatedTo
<1>2. ASSUME NEW s \in Queries!RelatedTo(keys[n], Queries!Loaded(Queries!Range(keys)))
      PROVE  \E m \in DOMAIN keys : Queries!LooseIn(keys[m], {keys[n]}) /\ s \in Queries!Joined(keys[m])
  <2>1. s \in Queries!Loaded(Queries!Range(keys)) /\ Queries!LooseIn(tables.related[s].rel, {keys[n]})
    BY <1>2 DEF Queries!RelatedTo
  <2>2. PICK m \in DOMAIN keys : s \in Queries!Joined(keys[m])
    BY <2>1 DEF Queries!Loaded, Queries!Range
  <2>3. tables.related[s].rel = keys[m]
    BY <2>2 DEF Queries!Joined
  <2>. QED BY <2>1, <2>2, <2>3
<1>. QED BY <1>1, <1>2

\* A list is a matter of the tables and of the dialect.
LEMMA SameList ==
    ASSUME dialect' = dialect, tables' = tables
    PROVE  /\ \A q : Queries!Result(q)' = Queries!Result(q)
           /\ \A key : Queries!Joined(key)' = Queries!Joined(key)
           /\ Database => Database'
<1>1. \A key : Queries!Joined(key)' = Queries!Joined(key)
  BY DEF Queries!Joined, Queries!Family
<1>2. \A clause, i : Queries!Kept(clause, i)' = Queries!Kept(clause, i)
  BY <1>1 DEF Queries!Kept, Queries!Family
<1>3. \A q, i : Queries!Joins(q, i)' = Queries!Joins(q, i)
  BY <1>2 DEF Queries!Joins
<1>4. \A q, i : Queries!Times(q, i)' = Queries!Times(q, i)
  BY <1>3 DEF Queries!Times, Queries!Groups
<1>5. \A q, i, j : Queries!Before(q, i, j)' = Queries!Before(q, i, j)
  BY DEF Queries!Before, Queries!Lower
<1>6. \A q, a, b : Queries!Precedes(q, a, b)' = Queries!Precedes(q, a, b)
  BY <1>5 DEF Queries!Precedes
<1>7. \A q : Queries!Copies(q)' = Queries!Copies(q)
  BY <1>4 DEF Queries!Copies
<1>8. \A q, n : Queries!CopyAt(q, n)' = Queries!CopyAt(q, n)
  BY <1>6, <1>7 DEF Queries!CopyAt
<1>9. \A q : Queries!Result(q)' = Queries!Result(q)
  BY <1>7, <1>8 DEF Queries!Result
<1>10. Database => Database'
  BY DEF Database
<1>. QED BY <1>1, <1>9, <1>10

LEMMA ReadPageStep ==
    ASSUME QueriesAssumption, QueryInv, NEW q \in QuerySet, Queries!ReadPage(q)
    PROVE  QueryInv'
<1>. DEFINE p == SubSeq(Queries!Result(q), Queries!Offset(q) + 1, Queries!PageEnd(q))
<1>1. /\ dialect \in Queries!SqlAndMongo /\ Database /\ changes \in Nat
      /\ dialect' = dialect /\ tables' = tables /\ changes' = changes
      /\ query' = [pc |-> "aggregate", q |-> q, page |-> p, end |-> Queries!PageEnd(q) >= Len(Queries!Result(q)),
                   keys |-> [n \in DOMAIN p |-> tables.keys[p[n]]],
                   aggregated |-> <<>>, counted |-> 0, related |-> <<>>, own |-> <<>>, steady |-> FALSE,
                   count |-> Null, hasMore |-> Null, all |-> Null]
  BY DEF Queries!ReadPage, QueryInv, LookupsInv
<1>2. /\ \E n \in Nat : DOMAIN p = 1..n /\ Len(p) = n
      /\ dialect \in {"postgresql", "mongo"} => \A m, n \in DOMAIN p : p[m] = p[n] => m = n
      /\ Len(p) # Queries!Limit(q) => Queries!PageEnd(q) >= Len(Queries!Result(q))
      /\ Queries!NeedsNoCount(q, p) /\ ~(q.offset # Absent /\ q.page # Absent) => Len(p) = Len(Queries!Result(q))
  BY <1>1, PageIs
<1>. HIDE DEF p
<1>3. Queries!Result(q)' = Queries!Result(q)
  BY <1>1, SameList
<1>4. Database'
  BY <1>1, SameList
<1>5. LookupsInv'
  BY <1>1 DEF LookupsInv, Queries!LookupsAreOwn
<1>6. PageInv'
  BY <1>1, <1>2, <1>3 DEF PageInv, QueryFields, Queries!SqlAndMongo, Queries!NeedsNoCount, Queries!Limit
<1>. QED BY <1>1, <1>4, <1>5, <1>6 DEF QueryInv

LEMMA AggregateStep ==
    ASSUME QueryInv, Queries!Aggregate
    PROVE  QueryInv'
<1>1. /\ dialect' = dialect /\ tables' = tables /\ changes' = changes /\ quiet' = quiet
      /\ query.pc = "aggregate" /\ DOMAIN query = QueryFields
      /\ query' = [query EXCEPT !.pc = "related", !.counted = changes,
                                !.aggregated = [n \in DOMAIN query.keys |-> Queries!Aggregated(query.keys, n)]]
  BY DEF Queries!Aggregate, QueryInv, PageInv
<1>2. /\ query'.pc = "related" /\ query'.counted = changes
      /\ query'.aggregated = [n \in DOMAIN query.keys |-> Queries!Aggregated(query.keys, n)]
      /\ query'.q = query.q /\ query'.page = query.page /\ query'.end = query.end /\ query'.keys = query.keys
      /\ DOMAIN query' = QueryFields
  BY <1>1 DEF QueryFields
<1>3. /\ Queries!Result(query.q)' = Queries!Result(query.q)
      /\ \A keys, n : Queries!Aggregated(keys, n)' = Queries!Aggregated(keys, n)
  BY <1>1, <1>2, SameList DEF Queries!Aggregated
<1>4. Database'
  BY <1>1, SameList DEF QueryInv
<1>. QED BY <1>1, <1>2, <1>3, <1>4 DEF QueryInv, PageInv, LookupsInv, Queries!LookupsAreOwn, Queries!NeedsNoCount, Queries!Limit

LEMMA LoadRelatedStep ==
    ASSUME QueryInv, Queries!LoadRelated
    PROVE  QueryInv'
<1>. DEFINE loaded == Queries!Loaded(Queries!Range(query.keys))
            related == [n \in DOMAIN query.keys |-> Queries!RelatedTo(query.keys[n], loaded)]
            own == [n \in DOMAIN query.keys |-> Queries!Joined(query.keys[n])]
<1>1. /\ dialect' = dialect /\ tables' = tables /\ changes' = changes /\ quiet' = quiet
      /\ query.pc = "related" /\ DOMAIN query = QueryFields
      /\ query' = [query EXCEPT !.pc = "count", !.steady = (query.counted = changes), !.related = related, !.own = own]
  BY DEF Queries!LoadRelated, QueryInv, PageInv
<1>2. /\ query'.pc = "count" /\ query'.steady = (query.counted = changes)
      /\ query'.related = related /\ query'.own = own
      /\ query'.aggregated = query.aggregated
      /\ query'.q = query.q /\ query'.page = query.page /\ query'.end = query.end /\ query'.keys = query.keys
      /\ DOMAIN query' = QueryFields
  BY <1>1 DEF QueryFields
<1>3. Database' /\ Queries!Result(query.q)' = Queries!Result(query.q)
  BY <1>1, <1>2, SameList DEF QueryInv
<1>4. Queries!LookupsAreOwn'
  <2>. DEFINE alike(n) == {m \in DOMAIN query.keys : Queries!LooseIn(query.keys[m], {query.keys[n]})}
  <2>1. ASSUME NEW n \in DOMAIN query.keys PROVE related[n] = UNION {own[m] : m \in alike(n)}
    <3>1. related[n] = UNION {Queries!Joined(query.keys[m]) : m \in alike(n)}
      BY <2>1, RelatedIsAlikes
    <3>. QED BY <3>1
  <2>2. ASSUME NEW n \in DOMAIN query.keys, query.counted = changes
        PROVE  \E m \in alike(n) : query.aggregated[n] = Queries!Cardinality(own[m])
    <3>1. query.aggregated[n] = Queries!Aggregated(query.keys, n)
      BY <2>2, <1>1 DEF QueryInv, LookupsInv
    <3>2. PICK top \in Nat : DOMAIN query.keys = 1..top
      BY <1>1 DEF QueryInv, PageInv
    <3>3. PICK m \in DOMAIN query.keys : /\ Queries!LooseIn(query.keys[m], {query.keys[n]})
                                         /\ Queries!Aggregated(query.keys, n) = Cardinality(Queries!Joined(query.keys[m]))
      BY <3>2, AggregatedIsAlikes
    <3>. QED BY <3>1, <3>3, CountsAlike
  <2>3. \A n : Queries!Alike(n)' = alike(n)
    BY <1>2 DEF Queries!Alike, Queries!LooseIn
  <2>4. /\ query'.related = related /\ query'.own = own /\ query'.aggregated = query.aggregated
        /\ query'.keys = query.keys /\ (query'.steady => query.counted = changes)
    BY <1>2
  <2>. HIDE DEF related, own, alike
  <2>. QED BY <2>1, <2>2, <2>3, <2>4 DEF Queries!LookupsAreOwn
<1>5. LookupsInv'
  BY <1>1, <1>2, <1>4 DEF QueryInv, LookupsInv
<1>6. PageInv'
  BY <1>1, <1>2, <1>3 DEF QueryInv, PageInv, Queries!NeedsNoCount, Queries!Limit
<1>. QED BY <1>1, <1>3, <1>5, <1>6 DEF QueryInv

LEMMA CountStep ==
    ASSUME QueryInv, Queries!Count
    PROVE  QueryInv'
<1>. DEFINE q == query.q
            all == Len(Queries!Result(q))
<1>1. /\ dialect' = dialect /\ tables' = tables /\ changes' = changes /\ quiet' = quiet
      /\ query.pc = "count" /\ DOMAIN query = QueryFields
  BY DEF Queries!Count, QueryInv, PageInv
<1>2. PICK count \in IF Queries!NeedsNoCount(q, query.page) THEN {Len(query.page)} ELSE Queries!CountsOf(all, q.filters # <<>>) :
        query' = [query EXCEPT !.pc = "over", !.count = count, !.all = all, !.hasMore = Queries!HasMore(q, query.page, count)]
  BY DEF Queries!Count
<1>3. /\ query'.pc = "over" /\ query'.count = count /\ query'.all = all /\ query'.hasMore = Queries!HasMore(q, query.page, count)
      /\ query'.q = q /\ query'.page = query.page /\ query'.end = query.end /\ query'.keys = query.keys
      /\ query'.aggregated = query.aggregated /\ query'.related = query.related /\ query'.own = query.own
      /\ query'.steady = query.steady /\ DOMAIN query' = QueryFields
  BY <1>1, <1>2 DEF QueryFields
<1>4. Database'
  BY <1>1, SameList DEF QueryInv
<1>5. LookupsInv'
  BY <1>1, <1>3 DEF QueryInv, LookupsInv, Queries!LookupsAreOwn, Queries!Alike, Queries!LooseIn
<1>6. query'.hasMore = FALSE => query.end
  BY <1>1, <1>3 DEF Queries!HasMore, QueryInv, PageInv
<1>7. quiet /\ ~(q.offset # Absent /\ q.page # Absent) => count = all \/ (q.filters = <<>> /\ count \in Estimates)
  <2>1. CASE Queries!NeedsNoCount(q, query.page)
    BY <1>1, <1>2, <2>1 DEF QueryInv, PageInv
  <2>2. CASE ~Queries!NeedsNoCount(q, query.page)
    BY <1>2, <2>2 DEF Queries!CountsOf
  <2>. QED BY <2>1, <2>2
<1>8. Queries!PagesAreRight'
  <2>1. Queries!PagesAreRight
    BY PagesFollow DEF QueryInv
  <2>. QED BY <2>1, <1>1, <1>3, <1>6, <1>7 DEF Queries!PagesAreRight
<1>9. PageInv'
  BY <1>1, <1>3, <1>8 DEF QueryInv, PageInv, Queries!Limit
<1>. QED BY <1>1, <1>4, <1>5, <1>9 DEF QueryInv

LEMMA ChangeStep ==
    ASSUME QueryInv, Queries!Change
    PROVE  QueryInv'
<1>1. /\ dialect' = dialect /\ query' = query /\ changes' = changes + 1 /\ quiet' = FALSE
      /\ query.pc \in {"aggregate", "related", "count"}
  BY DEF Queries!Change
<1>2. Database'
  <2>1. ASSUME NEW s, NEW row, tables' = [tables EXCEPT !.related[s] = row] PROVE Database'
    <3>1. tables' = [keys |-> tables.keys, related |-> [tables.related EXCEPT ![s] = row]]
      BY <2>1 DEF QueryInv, Database
    <3>2. DOMAIN [tables.related EXCEPT ![s] = row] = DOMAIN tables.related
      OBVIOUS
    <3>. QED BY <3>1, <3>2 DEF QueryInv, Database
  <2>2. ASSUME NEW i, tables' = [tables EXCEPT !.keys = [j \in DOMAIN tables.keys \ {i} |-> tables.keys[j]]] PROVE Database'
    <3>. DEFINE left == [j \in DOMAIN tables.keys \ {i} |-> tables.keys[j]]
    <3>1. tables' = [keys |-> left, related |-> tables.related]
      BY <2>2 DEF QueryInv, Database
    <3>2. IsFiniteSet(DOMAIN tables.keys \ {i})
      BY FS_RemoveElement DEF QueryInv, Database
    <3>. QED BY <3>1, <3>2 DEF QueryInv, Database
  <2>. QED BY <2>1, <2>2 DEF Queries!Change
<1>3. changes \in Nat /\ changes' \in Nat
  BY <1>1 DEF QueryInv, LookupsInv
<1>4. LookupsInv'
  BY <1>1, <1>3 DEF QueryInv, LookupsInv, Queries!LookupsAreOwn, Queries!Alike, Queries!LooseIn
<1>5. PageInv'
  BY <1>1 DEF QueryInv, PageInv, Queries!Limit
<1>. QED BY <1>1, <1>2, <1>4, <1>5 DEF QueryInv

LEMMA NextQueries == QueriesAssumption /\ QueryInv /\ [Queries!Next]_(Queries!vars) => QueryInv'
<1>1. CASE UNCHANGED Queries!vars
  <2>1. dialect' = dialect /\ tables' = tables /\ query' = query /\ quiet' = quiet /\ changes' = changes
    BY <1>1 DEF Queries!vars
  <2>2. (\A q : Queries!Result(q)' = Queries!Result(q)) /\ (Database => Database')
    BY <2>1, SameList
  <2>. QED BY <2>1, <2>2 DEF QueryInv, PageInv, LookupsInv, Queries!LookupsAreOwn, Queries!Alike, Queries!LooseIn, Queries!PagesAreRight,
                             Queries!Limit, Queries!NeedsNoCount, Queries!Aggregated, Queries!Joined
<1>. QED BY <1>1, ReadPageStep, AggregateStep, LoadRelatedStep, CountStep, ChangeStep DEF Queries!Next

LEMMA QueriesInvariant == Spec => [](which = "queries" => QueryInv)
<1>. DEFINE Inv == which = "queries" => QueryInv
<1>1. Init => Inv
  BY InitQueries, QueriesAssumption DEF Init
<1>2. Inv /\ [Next]_vars => Inv'
  <2>. SUFFICES ASSUME Inv, [Next]_vars, which' = "queries" PROVE QueryInv'
    OBVIOUS
  <2>1. which = "queries" /\ (QueriesStep \/ UNCHANGED vars)
    BY QueriesGo
  <2>2. [Queries!Next]_(Queries!vars)
    BY <2>1 DEF QueriesStep, vars, queriesVars, Queries!vars
  <2>. QED BY <2>1, <2>2, NextQueries, QueriesAssumption
<1>. QED BY <1>1, <1>2, PTL DEF Spec

\* Related rows that were read for a whole page are handed out by the looks of their keys:
\* each row gets all of its own, and others only of a key that looks the same, for any tables,
\* keys, queries and commits in between (get_models_lookup, filter_lookup_models).
THEOREM LookupsAreOwnAlways == Spec => []LookupsAreOwn
<1>1. (which = "queries" => QueryInv) => LookupsAreOwn
  BY DEF QueryInv, LookupsInv, LookupsAreOwn
<1>. QED BY <1>1, QueriesInvariant, PTL

\* No row twice where the engine groups or asks arrays, and a count and a hasMore that are
\* true of the list (get_queryset, paginate_queryset, resolve_model_list): see PagesAreRight.
THEOREM PagesAreRightAlways == Spec => []PagesAreRight
<1>1. (which = "queries" => QueryInv) => PagesAreRight
  BY PagesFollow DEF QueryInv, PagesAreRight
<1>. QED BY <1>1, QueriesInvariant, PTL

-----------------------------------------------------------------------------
(* Reflection: the type of a column is that of its values                  *)

\* What a column is when values were seen of its key.
ColumnFits(column, seen) ==
    /\ column = [type |-> column.type, mixed |-> column.mixed]
    /\ seen = [types |-> seen.types, nullFirst |-> seen.nullFirst] /\ seen.nullFirst \in BOOLEAN
    /\ Null \notin seen.types /\ IsFiniteSet(seen.types)
    /\ seen.nullFirst =>
        IF column.mixed = {} THEN column.type = "TEXT" /\ seen.types \subseteq {"TEXT"} ELSE ~(seen.types \subseteq {"TEXT"})
    /\ ~seen.nullFirst =>
        IF column.mixed = {} THEN seen.types = {column.type} ELSE column.type \in seen.types /\ seen.types # {column.type}

Fits(columns, seen) == DOMAIN columns = DOMAIN seen /\ \A key \in DOMAIN columns : ColumnFits(columns[key], seen[key])

\* What was seen has a record.
Covers(seen, record) == \A key \in DOMAIN record : key \in DOMAIN seen /\ record[key] \in seen[key].types \cup {Null}
Grows(seen, later) == \A key \in DOMAIN seen : key \in DOMAIN later /\ seen[key].types \subseteq later[key].types

LEMMA GrowsOn ==
    /\ \A seen : Grows(seen, seen)
    /\ \A seen, later, last : Grows(seen, later) /\ Grows(later, last) => Grows(seen, last)
    /\ \A seen, later, record : Covers(seen, record) /\ Grows(seen, later) => Covers(later, record)
BY DEF Grows, Covers

LEMMA ColumnTaken ==
    ASSUME NEW column, NEW seen, ColumnFits(column, seen), NEW type, type # Null
    PROVE  ColumnFits(Reflection!Taken(column, type), [seen EXCEPT !.types = @ \cup ({type} \ {Null})])
<1>. DEFINE later == [seen EXCEPT !.types = @ \cup ({type} \ {Null})]
<1>1. later = [types |-> seen.types \cup {type}, nullFirst |-> seen.nullFirst]
  BY DEF ColumnFits
<1>2. later.types = seen.types \cup {type} /\ later.nullFirst = seen.nullFirst
  BY <1>1
<1>3. IsFiniteSet(later.types)
  BY <1>2, FS_AddElement DEF ColumnFits
<1>4. CASE column.type = type
  <2>1. Reflection!Taken(column, type) = column
    BY <1>4 DEF Reflection!Taken
  <2>. HIDE DEF later
  <2>. QED BY <2>1, <1>1, <1>2, <1>3, <1>4 DEF ColumnFits
<1>5. CASE column.type # type
  <2>. DEFINE taken == Reflection!Taken(column, type)
  <2>1. taken = [type |-> type, mixed |-> column.mixed \cup {column.type, type}]
    BY <1>5 DEF Reflection!Taken
  <2>2. taken.type = type /\ taken.mixed = column.mixed \cup {column.type, type}
    BY <2>1
  <2>3. taken.mixed # {} /\ taken = [type |-> taken.type, mixed |-> taken.mixed]
    BY <2>1, <2>2
  <2>. HIDE DEF later, taken
  <2>4. seen.nullFirst => ~(later.types \subseteq {"TEXT"})
    BY <1>2, <1>5 DEF ColumnFits
  <2>5. ~seen.nullFirst => type \in later.types /\ later.types # {type}
    BY <1>2, <1>5 DEF ColumnFits
  <2>6. later = [types |-> later.types, nullFirst |-> later.nullFirst]
    BY <1>1, <1>2
  <2>7. later.nullFirst \in BOOLEAN /\ Null \notin later.types
    BY <1>2 DEF ColumnFits
  <2>8. later.nullFirst => IF taken.mixed = {} THEN taken.type = "TEXT" /\ later.types \subseteq {"TEXT"} ELSE ~(later.types \subseteq {"TEXT"})
    BY <2>3, <2>4, <1>2
  <2>9. ~later.nullFirst => IF taken.mixed = {} THEN later.types = {taken.type} ELSE taken.type \in later.types /\ later.types # {taken.type}
    BY <2>2, <2>3, <2>5, <1>2
  <2>10. ColumnFits(taken, later)
    BY <2>3, <2>6, <2>7, <2>8, <2>9, <1>3 DEF ColumnFits
  <2>. QED BY <2>10 DEF taken, later
<1>. QED BY <1>4, <1>5

LEMMA ColumnStarts ==
    ASSUME NEW type, IsFiniteSet({type} \ {Null})
    PROVE  ColumnFits([type |-> Reflection!TypeOf(type), mixed |-> {}],
                      [types |-> {type} \ {Null}, nullFirst |-> type = Null])
<1>. DEFINE column == [type |-> Reflection!TypeOf(type), mixed |-> {}]
            seen == [types |-> {type} \ {Null}, nullFirst |-> type = Null]
<1>1. column.type = Reflection!TypeOf(type) /\ column.mixed = {} /\ column = [type |-> column.type, mixed |-> column.mixed]
  OBVIOUS
<1>2. seen.types = {type} \ {Null} /\ seen = [types |-> seen.types, nullFirst |-> seen.nullFirst]
  OBVIOUS
<1>3. seen.nullFirst \in BOOLEAN /\ (seen.nullFirst <=> type = Null)
  OBVIOUS
<1>. HIDE DEF column, seen
<1>4. CASE type = Null
  <2>1. column.type = "TEXT" /\ seen.types = {}
    BY <1>1, <1>2, <1>4 DEF Reflection!TypeOf
  <2>2. ColumnFits(column, seen)
    BY <2>1, <1>1, <1>2, <1>3, <1>4 DEF ColumnFits
  <2>. QED BY <2>2 DEF column, seen
<1>5. CASE type # Null
  <2>1. column.type = type /\ seen.types = {type} /\ Null \notin seen.types
    BY <1>1, <1>2, <1>5 DEF Reflection!TypeOf
  <2>2. ColumnFits(column, seen)
    BY <2>1, <1>1, <1>2, <1>3, <1>5 DEF ColumnFits
  <2>. QED BY <2>2 DEF column, seen
<1>. QED BY <1>4, <1>5

LEMMA OneRecord ==
    ASSUME NEW columns, NEW seen, NEW record, Fits(columns, seen)
    PROVE  /\ Fits(Reflection!Read(columns, record), Reflection!Seen(seen, record))
           /\ Grows(seen, Reflection!Seen(seen, record))
           /\ Covers(Reflection!Seen(seen, record), record)
<1>. DEFINE cs == Reflection!Read(columns, record)
            later == Reflection!Seen(seen, record)
<1>1. /\ DOMAIN cs = DOMAIN record \cup DOMAIN columns /\ DOMAIN later = DOMAIN record \cup DOMAIN seen
      /\ DOMAIN cs = DOMAIN later
  BY DEF Reflection!Read, Reflection!Seen, Fits
<1>2. ASSUME NEW key \in DOMAIN cs
      PROVE  /\ ColumnFits(cs[key], later[key])
             /\ key \in DOMAIN seen => seen[key].types \subseteq later[key].types
             /\ key \in DOMAIN record => record[key] \in later[key].types \cup {Null}
  <2>1. key \in DOMAIN columns => ColumnFits(columns[key], seen[key])
    BY DEF Fits
  <2>2. key \in DOMAIN columns <=> key \in DOMAIN seen
    BY DEF Fits
  <2>3. CASE key \notin DOMAIN record
    <3>1. cs[key] = columns[key] /\ later[key] = seen[key] /\ key \in DOMAIN columns
      BY <2>2, <2>3, <1>1 DEF Reflection!Read, Reflection!Seen
    <3>. QED BY <3>1, <2>1, <2>3
  <2>4. CASE key \in DOMAIN record /\ key \notin DOMAIN columns
    <3>1. /\ cs[key] = [type |-> Reflection!TypeOf(record[key]), mixed |-> {}]
          /\ later[key] = [types |-> {record[key]} \ {Null}, nullFirst |-> record[key] = Null]
      BY <2>2, <2>4, <1>1 DEF Reflection!Read, Reflection!Seen
    <3>2. IsFiniteSet({record[key]} \ {Null})
      <4>1. IsFiniteSet({record[key]})
        BY FS_Singleton
      <4>. QED BY <4>1, FS_RemoveElement
    <3>3. ColumnFits([type |-> Reflection!TypeOf(record[key]), mixed |-> {}],
                     [types |-> {record[key]} \ {Null}, nullFirst |-> record[key] = Null])
      BY <3>2, ColumnStarts
    <3>. QED BY <3>1, <3>3, <2>2, <2>4
  <2>5. CASE key \in DOMAIN record /\ key \in DOMAIN columns /\ record[key] = Null
    <3>1. cs[key] = columns[key] /\ later[key] = [seen[key] EXCEPT !.types = @ \cup ({record[key]} \ {Null})]
      BY <2>2, <2>5, <1>1 DEF Reflection!Read, Reflection!Seen
    <3>2. later[key] = seen[key]
      BY <3>1, <2>1, <2>5 DEF ColumnFits
    <3>. QED BY <3>1, <3>2, <2>1, <2>5
  <2>6. CASE key \in DOMAIN record /\ key \in DOMAIN columns /\ record[key] # Null
    <3>1. /\ cs[key] = Reflection!Taken(columns[key], record[key])
          /\ later[key] = [seen[key] EXCEPT !.types = @ \cup ({record[key]} \ {Null})]
      BY <2>2, <2>6, <1>1 DEF Reflection!Read, Reflection!Seen, Reflection!TypeOf
    <3>2. later[key].types = seen[key].types \cup {record[key]}
      BY <3>1, <2>1, <2>6 DEF ColumnFits
    <3>3. ColumnFits(cs[key], later[key])
      BY <3>1, <2>1, <2>6, ColumnTaken
    <3>. QED BY <3>2, <3>3
  <2>. QED BY <2>3, <2>4, <2>5, <2>6
<1>. HIDE DEF cs, later
<1>3. Fits(cs, later)
  BY <1>1, <1>2 DEF Fits
<1>4. Grows(seen, later) /\ Covers(later, record)
  BY <1>1, <1>2 DEF Grows, Covers
<1>. QED BY <1>3, <1>4 DEF cs, later

LEMMA TypesCounted == \A S : Reflection!Cardinality(S) = Cardinality(S)
BY DEF Cardinality, Reflection!Cardinality

\* The type that a column has in the end, see TypesFollowData.
FinalType(seen) ==
    IF seen.nullFirst THEN IF seen.types \subseteq {"TEXT"} THEN "TEXT" ELSE "JSON"
    ELSE IF Reflection!Cardinality(seen.types) = 1 THEN CHOOSE t \in seen.types : TRUE ELSE "JSON"

LEMMA MixedIsJson ==
    ASSUME NEW column, NEW seen, ColumnFits(column, seen)
    PROVE  (IF column.mixed = {} THEN column ELSE [column EXCEPT !.type = "JSON"]).type = FinalType(seen)
<1>. DEFINE last == IF column.mixed = {} THEN column ELSE [column EXCEPT !.type = "JSON"]
<1>1. last.type = IF column.mixed = {} THEN column.type ELSE "JSON"
  BY DEF ColumnFits
<1>2. IsFiniteSet(seen.types)
  BY DEF ColumnFits
<1>. HIDE DEF last
<1>3. CASE seen.nullFirst
  BY <1>1, <1>3 DEF ColumnFits, FinalType
<1>4. CASE ~seen.nullFirst /\ column.mixed = {}
  <2>1. seen.types = {column.type}
    BY <1>4 DEF ColumnFits
  <2>2. Reflection!Cardinality(seen.types) = 1
    BY <2>1, FS_Singleton, TypesCounted
  <2>3. (CHOOSE t \in seen.types : TRUE) = column.type
    BY <2>1
  <2>. QED BY <2>2, <2>3, <1>1, <1>4 DEF FinalType
<1>5. CASE ~seen.nullFirst /\ column.mixed # {}
  <2>1. column.type \in seen.types /\ seen.types # {column.type}
    BY <1>5 DEF ColumnFits
  <2>2. \A x : seen.types # {x}
    BY <2>1
  <2>3. Cardinality(seen.types) # 1
    BY <2>2, <1>2, FS_Singleton
  <2>. QED BY <2>3, <1>1, <1>5, TypesCounted DEF FinalType
<1>. QED BY <1>3, <1>4, <1>5 DEF last

Cursors == [open : BOOLEAN, at : Nat, read : Nat]

\* The records that were read, as long as nobody writes.
Passed == IF cursor.open THEN cursor.at ELSE Reflection!Skip

\* Columns fit what was seen, and without writers that has the records passed by.
ReflectionInv ==
    /\ page \in Nat /\ writes \in Nat /\ collection \in Seq(Records) /\ cursor \in Cursors
    /\ page > 0 => Fits(table, values)
    /\ cursor.open => page > 0
    /\ cursor.open /\ writes = 0 =>
        cursor.at = (IF Reflection!Skip <= Len(collection) THEN Reflection!Skip ELSE Len(collection)) + cursor.read
    /\ page > 0 /\ writes = 0 => \A n \in 1..Len(collection) : n <= Passed => Covers(values, collection[n])
    /\ Reflection!TypesFollowData

LEMMA SkipIsNat ==
    ASSUME ReflectionAssumption, page \in Nat, page > 0
    PROVE  Reflection!Skip \in Nat /\ page * ReadLimit = Reflection!Skip + ReadLimit
<1>1. ReadLimit \in Nat /\ page - 1 \in Nat
  BY DEF ReflectionAssumption
<1>2. \A a, b \in Nat : a * b \in Nat /\ (a + 1) * b = a * b + b
  OBVIOUS
<1>3. page = (page - 1) + 1
  OBVIOUS
<1>. QED BY <1>1, <1>2, <1>3 DEF Reflection!Skip

LEMMA InitReflection == ASSUME ReflectionAssumption, Reflection!Init PROVE ReflectionInv
<1>1. PICK n \in Nat : collection \in [1..n -> Records]
  BY DEF Reflection!Init
<1>2. collection \in Seq(Records) /\ Len(collection) = n
  BY <1>1
<1>3. page = 1 /\ writes = 0 /\ table = <<>> /\ values = <<>> /\ cursor = [open |-> FALSE, at |-> 0, read |-> 0]
  BY DEF Reflection!Init, Reflection!Closed
<1>4. Fits(table, values)
  BY <1>3 DEF Fits
<1>5. Reflection!Skip = 0
  BY <1>3 DEF ReflectionAssumption, Reflection!Skip
<1>6. Reflection!TypesFollowData
  BY <1>3 DEF Reflection!TypesFollowData
<1>7. cursor \in Cursors /\ ~cursor.open
  BY <1>3 DEF Cursors
<1>. QED BY <1>2, <1>3, <1>4, <1>5, <1>6, <1>7 DEF ReflectionInv, Passed

LEMMA FindStep ==
    ASSUME ReflectionAssumption, ReflectionInv, Reflection!Find
    PROVE  ReflectionInv'
<1>1. page > 0 /\ ~cursor.open /\ UNCHANGED <<collection, page, table, values, writes>>
      /\ cursor' = [open |-> TRUE, at |-> Reflection!Min({Reflection!Skip, Len(collection)}), read |-> 0]
  BY DEF Reflection!Find
<1>2. page \in Nat /\ Reflection!Skip \in Nat /\ Len(collection) \in Nat
  BY <1>1, SkipIsNat DEF ReflectionInv
<1>3. \A m, n \in Int : Reflection!Min({m, n}) = IF m <= n THEN m ELSE n
  BY DEF Reflection!Min
<1>4. cursor'.open /\ cursor'.read = 0 /\ cursor' \in Cursors
      /\ cursor'.at = (IF Reflection!Skip <= Len(collection) THEN Reflection!Skip ELSE Len(collection))
  BY <1>1, <1>2, <1>3 DEF Cursors
<1>5. Reflection!Skip' = Reflection!Skip
  BY <1>1 DEF Reflection!Skip
<1>6. ASSUME writes = 0, NEW n \in 1..Len(collection), n <= cursor'.at PROVE Covers(values, collection[n])
  <2>1. n <= Reflection!Skip
    BY <1>2, <1>4, <1>6
  <2>. QED BY <2>1, <1>1, <1>6 DEF ReflectionInv, Passed
<1>7. Reflection!TypesFollowData'
  BY <1>1, <1>2 DEF Reflection!TypesFollowData
<1>8. \A n \in 1..Len(collection') : writes' = 0 /\ n <= Passed' => Covers(values', collection'[n])
  BY <1>1, <1>4, <1>6 DEF Passed
<1>9. writes' = 0 => cursor'.at = (IF Reflection!Skip' <= Len(collection') THEN Reflection!Skip' ELSE Len(collection')) + cursor'.read
  BY <1>1, <1>2, <1>4, <1>5
<1>. QED BY <1>1, <1>2, <1>4, <1>7, <1>8, <1>9 DEF ReflectionInv

LEMMA ReadRecordStep ==
    ASSUME ReflectionAssumption, ReflectionInv, Reflection!ReadRecord
    PROVE  ReflectionInv'
<1>. DEFINE record == collection[cursor.at + 1]
            columns == Reflection!Read(table, record)
            seen == Reflection!Seen(values, record)
<1>1. /\ cursor.open /\ cursor.at < Len(collection) /\ page > 0
      /\ UNCHANGED <<collection, page, writes>> /\ table' = columns /\ values' = seen
      /\ cursor' = [cursor EXCEPT !.at = cursor.at + 1, !.read = cursor.read + 1]
  BY DEF Reflection!ReadRecord, ReflectionInv
<1>2. /\ Len(collection) \in Nat /\ cursor.at \in Nat /\ cursor.read \in Nat
      /\ Reflection!Skip \in Nat
  BY <1>1, SkipIsNat DEF ReflectionInv, Cursors
<1>3. /\ cursor' \in Cursors /\ cursor'.open /\ cursor'.at = cursor.at + 1 /\ cursor'.read = cursor.read + 1
  <2>1. cursor = [open |-> cursor.open, at |-> cursor.at, read |-> cursor.read] /\ cursor.open \in BOOLEAN
    BY DEF ReflectionInv, Cursors
  <2>2. cursor' = [open |-> cursor.open, at |-> cursor.at + 1, read |-> cursor.read + 1]
    BY <2>1, <1>1
  <2>. QED BY <2>1, <2>2, <1>1, <1>2 DEF Cursors
<1>4. Fits(columns, seen) /\ Grows(values, seen) /\ Covers(seen, record)
  BY <1>1, OneRecord DEF ReflectionInv
<1>. HIDE DEF columns, seen
<1>5. Reflection!Skip' = Reflection!Skip
  BY <1>1 DEF Reflection!Skip
<1>6. ASSUME writes = 0, NEW n \in 1..Len(collection), n <= cursor.at + 1 PROVE Covers(seen, collection[n])
  <2>1. CASE n = cursor.at + 1
    BY <2>1, <1>4
  <2>2. CASE n # cursor.at + 1
    <3>1. n <= cursor.at
      BY <2>2, <1>2, <1>6
    <3>2. Covers(values, collection[n])
      BY <3>1, <1>1, <1>6 DEF ReflectionInv, Passed
    <3>. QED BY <3>2, <1>4, GrowsOn
  <2>. QED BY <2>1, <2>2
<1>7. writes' = 0 => cursor'.at = (IF Reflection!Skip' <= Len(collection') THEN Reflection!Skip' ELSE Len(collection')) + cursor'.read
  BY <1>1, <1>2, <1>3, <1>5 DEF ReflectionInv
<1>8. Reflection!TypesFollowData'
  <2>1. page' # 0
    BY <1>1 DEF ReflectionInv
  <2>. QED BY <2>1 DEF Reflection!TypesFollowData
<1>9. \A n \in 1..Len(collection') : writes' = 0 /\ n <= Passed' => Covers(values', collection'[n])
  BY <1>1, <1>3, <1>6 DEF Passed
<1>. QED BY <1>1, <1>3, <1>4, <1>7, <1>8, <1>9 DEF ReflectionInv

LEMMA EndPageStep ==
    ASSUME ReflectionAssumption, ReflectionInv, Reflection!EndPage
    PROVE  ReflectionInv'
<1>. DEFINE skip == Reflection!Skip
            more == cursor.read > 0 /\ skip + ReadLimit < MaxReadRecords
<1>1. /\ cursor.open /\ (cursor.read = ReadLimit \/ cursor.at >= Len(collection)) /\ page > 0
      /\ page' = IF more THEN page + 1 ELSE 0
      /\ table' = IF more THEN table
                  ELSE [key \in DOMAIN table |->
                          IF table[key].mixed = {} THEN table[key] ELSE [table[key] EXCEPT !.type = "JSON"]]
      /\ cursor' = [open |-> FALSE, at |-> 0, read |-> 0] /\ UNCHANGED <<collection, values, writes>>
  <2>1. cursor.open /\ page > 0
    BY DEF Reflection!EndPage, ReflectionInv
  <2>. QED BY <2>1 DEF Reflection!EndPage, Reflection!Closed
<1>2. /\ page \in Nat /\ writes \in Nat /\ collection \in Seq(Records) /\ Len(collection) \in Nat
      /\ cursor.at \in Nat /\ cursor.read \in Nat /\ Fits(table, values)
      /\ skip \in Nat /\ page * ReadLimit = skip + ReadLimit
      /\ ReadLimit \in Nat \ {0} /\ MaxReadRecords \in Nat
  BY <1>1, SkipIsNat DEF ReflectionInv, Cursors, ReflectionAssumption
<1>3. cursor' \in Cursors /\ ~cursor'.open
  BY <1>1 DEF Cursors
<1>. HIDE DEF skip
<1>4. ASSUME writes = 0, NEW n \in 1..Len(collection), n <= skip + ReadLimit \/ cursor.read = 0
      PROVE  Covers(values, collection[n])
  <2>1. cursor.at = (IF skip <= Len(collection) THEN skip ELSE Len(collection)) + cursor.read
    BY <1>1, <1>4 DEF ReflectionInv, skip
  <2>2. n <= cursor.at
    BY <2>1, <1>1, <1>2, <1>4
  <2>. QED BY <2>2, <1>1, <1>4 DEF ReflectionInv, Passed
<1>5. CASE more
  <2>1. page' = page + 1 /\ table' = table /\ values' = values
    BY <1>1, <1>5
  <2>2. page' # 0 /\ page' > 0 /\ page' \in Nat /\ page' - 1 = page
    BY <2>1, <1>2
  <2>3. Passed' = skip + ReadLimit
    BY <2>2, <1>2, <1>3 DEF Passed, Reflection!Skip
  <2>4. \A n \in 1..Len(collection') : writes' = 0 /\ n <= Passed' => Covers(values', collection'[n])
    BY <2>1, <2>3, <1>1, <1>4
  <2>5. Reflection!TypesFollowData'
    BY <2>2 DEF Reflection!TypesFollowData
  <2>. QED BY <2>1, <2>2, <2>4, <2>5, <1>1, <1>2, <1>3 DEF ReflectionInv
<1>6. CASE ~more
  <2>1. page' = 0 /\ values' = values
        /\ table' = [key \in DOMAIN table |->
                        IF table[key].mixed = {} THEN table[key] ELSE [table[key] EXCEPT !.type = "JSON"]]
    BY <1>1, <1>6
  <2>2. ASSUME NEW key \in DOMAIN table' PROVE table'[key].type = FinalType(values'[key])
    <3>1. key \in DOMAIN table /\ ColumnFits(table[key], values[key])
      BY <2>1, <1>2 DEF Fits
    <3>2. table'[key] = IF table[key].mixed = {} THEN table[key] ELSE [table[key] EXCEPT !.type = "JSON"]
      BY <3>1, <2>1
    <3>. QED BY <3>1, <3>2, <2>1, MixedIsJson
  <2>3. ASSUME writes' = 0, NEW n \in DOMAIN collection', n <= MaxReadRecords, NEW key \in DOMAIN collection'[n]
        PROVE  key \in DOMAIN table' /\ collection'[n][key] \in values'[key].types \cup {Null}
    <3>1. n \in 1..Len(collection)
      BY <2>3, <1>1, <1>2
    <3>2. n <= skip + ReadLimit \/ cursor.read = 0
      BY <3>1, <1>2, <1>6, <2>3
    <3>3. Covers(values, collection[n])
      BY <3>1, <3>2, <2>3, <1>1, <1>4
    <3>4. key \in DOMAIN values /\ collection[n][key] \in values[key].types \cup {Null}
      BY <3>3, <2>3, <1>1 DEF Covers
    <3>5. DOMAIN table' = DOMAIN values
      BY <2>1, <1>2 DEF Fits
    <3>. QED BY <3>4, <3>5, <2>1, <1>1
  <2>4. Reflection!TypesFollowData'
    BY <2>2, <2>3 DEF Reflection!TypesFollowData, FinalType
  <2>5. page' \in Nat /\ ~(page' > 0)
    BY <2>1
  <2>. QED BY <2>4, <2>5, <1>1, <1>2, <1>3 DEF ReflectionInv
<1>. QED BY <1>5, <1>6

LEMMA WriteStep ==
    ASSUME ReflectionInv, page > 0, collection' \in Seq(Records), cursor' \in Cursors, cursor'.open = cursor.open,
           writes' = writes + 1, UNCHANGED <<page, table, values>>
    PROVE  ReflectionInv'
<1>1. page' = page /\ page' # 0 /\ writes' \in Nat /\ writes' # 0
  BY DEF ReflectionInv
<1>2. Reflection!TypesFollowData'
  BY <1>1 DEF Reflection!TypesFollowData
<1>. QED BY <1>1, <1>2 DEF ReflectionInv

LEMMA InsertStep ==
    ASSUME ReflectionInv, NEW record \in Records, NEW at \in 1..(Len(collection) + 1), Reflection!Insert(record, at)
    PROVE  ReflectionInv'
<1>1. collection \in Seq(Records) /\ Len(collection) \in Nat
  BY DEF ReflectionInv
<1>2. SubSeq(collection, 1, at - 1) \in Seq(Records)
  <2>1. \A i \in 1..(at - 1) : collection[i] \in Records
    BY <1>1
  <2>. QED BY <2>1, <1>1, SubSeqProperties
<1>3. SubSeq(collection, at, Len(collection)) \in Seq(Records)
  <2>1. \A i \in at..Len(collection) : collection[i] \in Records
    BY <1>1
  <2>. QED BY <2>1, <1>1, SubSeqProperties
<1>4. <<record>> \in Seq(Records)
  OBVIOUS
<1>5. collection' = SubSeq(collection, 1, at - 1) \o <<record>> \o SubSeq(collection, at, Len(collection))
  BY DEF Reflection!Insert, Reflection!InsertAt
<1>6. collection' \in Seq(Records)
  BY <1>2, <1>3, <1>4, <1>5, ConcatProperties
<1>7. cursor' \in Cursors /\ cursor'.open = cursor.open
  <2>1. cursor \in Cursors /\ cursor' = [cursor EXCEPT !.at = IF at <= cursor.at THEN cursor.at + 1 ELSE cursor.at]
    BY DEF Reflection!Insert, ReflectionInv
  <2>. QED BY <2>1 DEF Cursors
<1>. QED BY <1>6, <1>7, WriteStep DEF Reflection!Insert

LEMMA DeleteStep ==
    ASSUME ReflectionInv, NEW at \in DOMAIN collection, Reflection!DeleteRecord(at)
    PROVE  ReflectionInv'
<1>1. collection \in Seq(Records) /\ Len(collection) \in Nat /\ at \in 1..Len(collection)
  BY DEF ReflectionInv
<1>2. SubSeq(collection, 1, at - 1) \in Seq(Records)
  <2>1. \A i \in 1..(at - 1) : collection[i] \in Records
    BY <1>1
  <2>. QED BY <2>1, <1>1, SubSeqProperties
<1>3. SubSeq(collection, at + 1, Len(collection)) \in Seq(Records)
  <2>1. \A i \in (at + 1)..Len(collection) : collection[i] \in Records
    BY <1>1
  <2>. QED BY <2>1, <1>1, SubSeqProperties
<1>4. collection' = SubSeq(collection, 1, at - 1) \o SubSeq(collection, at + 1, Len(collection))
  BY DEF Reflection!DeleteRecord, Reflection!RemoveAt
<1>5. collection' \in Seq(Records)
  BY <1>2, <1>3, <1>4, ConcatProperties
<1>6. cursor' \in Cursors /\ cursor'.open = cursor.open
  <2>1. cursor \in Cursors /\ cursor' = [cursor EXCEPT !.at = IF at <= cursor.at THEN cursor.at - 1 ELSE cursor.at]
    BY DEF Reflection!DeleteRecord, ReflectionInv
  <2>. QED BY <2>1, <1>1 DEF Cursors
<1>. QED BY <1>5, <1>6, WriteStep DEF Reflection!DeleteRecord

LEMMA NextReflection == ReflectionAssumption /\ ReflectionInv /\ [Reflection!Next]_(Reflection!vars) => ReflectionInv'
<1>. SUFFICES ASSUME ReflectionAssumption, ReflectionInv, [Reflection!Next]_(Reflection!vars) PROVE ReflectionInv'
  OBVIOUS
<1>1. CASE UNCHANGED Reflection!vars
  <2>1. Reflection!TypesFollowData'
    BY <1>1 DEF Reflection!vars, ReflectionInv, Reflection!TypesFollowData
  <2>. QED BY <2>1, <1>1 DEF Reflection!vars, Reflection!Skip, ReflectionInv, Passed
<1>. QED BY <1>1, FindStep, ReadRecordStep, EndPageStep, InsertStep, DeleteStep DEF Reflection!Next

\* The type of a column of MongoDB is that of the values that were read of it, or JSON, for
\* any collection, page size, limit of records and writers (reflect_mongodb,
\* mongo_reflect.py:44-127): see TypesFollowData.
THEOREM TypesFollowDataAlways == Spec => []TypesFollowData
<1>. DEFINE Inv == which = "reflection" => ReflectionInv
<1>1. Init => Inv
  BY InitReflection, ReflectionAssumption DEF Init
<1>2. Inv /\ [Next]_vars => Inv'
  <2>. SUFFICES ASSUME Inv, [Next]_vars, which' = "reflection" PROVE ReflectionInv'
    OBVIOUS
  <2>1. which = "reflection" /\ (ReflectionStep \/ UNCHANGED vars)
    BY ReflectionGo
  <2>2. [Reflection!Next]_(Reflection!vars)
    BY <2>1 DEF ReflectionStep, vars, reflectionVars, Reflection!vars
  <2>. QED BY <2>1, <2>2, NextReflection, ReflectionAssumption
<1>3. Inv => TypesFollowData
  BY DEF ReflectionInv, TypesFollowData
<1>. QED BY <1>1, <1>2, <1>3, PTL DEF Spec

-----------------------------------------------------------------------------
(* Media: what the cache lists                                             *)

LEMMA FilesCounted == \A S : Media!Cardinality(S) = Cardinality(S)
BY DEF Cardinality, Media!Cardinality

\* Sizes added up, one after the other: a function as the one that Total defines.
Summing(sum, list, n) == sum = [k \in 0..n |-> IF k = 0 THEN 0 ELSE sum[k - 1] + list[k].size]

LEMMA SummingExists ==
    ASSUME NEW list, NEW n \in Nat
    PROVE  \E sum : Summing(sum, list, n)
<1>. DEFINE T == {k \in Nat : ~\E sum : Summing(sum, list, k)}
<1>. SUFFICES ASSUME T # {} PROVE FALSE
  OBVIOUS
<1>1. PICK k \in T : \A m \in T : k <= m
  <2>1. T \subseteq Nat
    OBVIOUS
  <2>. HIDE DEF T
  <2>. QED BY <2>1, LeastNatural
<1>2. CASE k = 0
  <2>. DEFINE sum == [m \in 0..0 |-> 0]
  <2>1. Summing(sum, list, 0)
    BY DEF Summing
  <2>. QED BY <2>1, <1>1, <1>2
<1>3. CASE k # 0
  <2>1. k \in Nat /\ k - 1 \in Nat /\ k - 1 \notin T
    BY <1>1, <1>3
  <2>2. PICK before : Summing(before, list, k - 1)
    BY <2>1
  <2>. DEFINE last == before[k - 1] + list[k].size
              sum == [m \in 0..k |-> IF m = k THEN last ELSE before[m]]
  <2>3. \A m \in 0..(k - 1) : sum[m] = before[m]
    BY <2>1
  <2>4. Summing(sum, list, k)
    <3>1. ASSUME NEW m \in 0..k
          PROVE  sum[m] = IF m = 0 THEN 0 ELSE sum[m - 1] + list[m].size
      <4>1. CASE m = k
        <5>1. sum[m] = last /\ sum[m - 1] = before[k - 1]
          BY <4>1, <2>1, <2>3
        <5>. HIDE DEF sum
        <5>. QED BY <5>1, <4>1, <1>3
      <4>2. CASE m # k
        <5>1. m \in 0..(k - 1) /\ (m # 0 => m - 1 \in 0..(k - 1))
          BY <4>2, <2>1
        <5>2. sum[m] = before[m] /\ (m # 0 => sum[m - 1] = before[m - 1])
          BY <5>1, <2>3
        <5>3. before[m] = IF m = 0 THEN 0 ELSE before[m - 1] + list[m].size
          BY <2>2, <5>1 DEF Summing
        <5>. HIDE DEF sum
        <5>. QED BY <5>2, <5>3
      <4>. QED BY <4>1, <4>2
    <3>. QED BY <3>1 DEF Summing
  <2>. QED BY <2>4, <1>1
<1>. QED BY <1>2, <1>3

LEMMA TotalIs ==
    ASSUME NEW list, Len(list) \in Nat
    PROVE  \E sum : Summing(sum, list, Len(list)) /\ Media!Total(list) = sum[Len(list)]
<1>. DEFINE sum == CHOOSE f : Summing(f, list, Len(list))
<1>1. Summing(sum, list, Len(list))
  BY SummingExists
<1>2. Media!Total(list) = sum[Len(list)]
  BY DEF Media!Total, Summing
<1>. QED BY <1>1, <1>2

LEMMA SumsAre ==
    ASSUME NEW sum, NEW list, NEW n \in Nat, Summing(sum, list, n)
    PROVE  sum[0] = 0 /\ \A k \in 1..n : sum[k] = sum[k - 1] + list[k].size
BY DEF Summing

LEMMA TotalOfNone == ASSUME NEW list, Len(list) = 0 PROVE Media!Total(list) = 0
<1>1. PICK sum : Summing(sum, list, 0) /\ Media!Total(list) = sum[0]
  BY TotalIs
<1>. QED BY <1>1, SumsAre

LEMMA TotalOfMore ==
    ASSUME NEW list, NEW longer, NEW n \in Nat, Len(list) = n, Len(longer) = n + 1,
           \A k \in 1..n : longer[k] = list[k]
    PROVE  Media!Total(longer) = Media!Total(list) + longer[n + 1].size
<1>1. PICK sum : Summing(sum, list, n) /\ Media!Total(list) = sum[n]
  BY TotalIs
<1>2. PICK more : Summing(more, longer, n + 1) /\ Media!Total(longer) = more[n + 1]
  <2>1. Len(longer) \in Nat
    OBVIOUS
  <2>. QED BY <2>1, TotalIs
<1>3. sum[0] = 0 /\ \A k \in 1..n : sum[k] = sum[k - 1] + list[k].size
  BY <1>1, SumsAre
<1>4. more[0] = 0 /\ \A k \in 1..(n + 1) : more[k] = more[k - 1] + longer[k].size
  <2>1. n + 1 \in Nat
    OBVIOUS
  <2>. QED BY <2>1, <1>2, SumsAre
<1>. DEFINE T == {k \in 0..n : more[k] # sum[k]}
<1>5. T = {}
  <2>. SUFFICES ASSUME T # {} PROVE FALSE
    OBVIOUS
  <2>1. PICK k \in T : \A m \in T : k <= m
    <3>1. T \subseteq Nat
      OBVIOUS
    <3>. HIDE DEF T
    <3>. QED BY <3>1, LeastNatural
  <2>2. k # 0 /\ k \in 1..n /\ k - 1 \in 0..n /\ k - 1 \notin T
    BY <2>1, <1>3, <1>4
  <2>3. more[k] = more[k - 1] + longer[k].size /\ sum[k] = sum[k - 1] + list[k].size
    BY <2>2, <1>3, <1>4
  <2>4. more[k - 1] = sum[k - 1] /\ longer[k] = list[k]
    BY <2>2
  <2>. QED BY <2>1, <2>3, <2>4
<1>6. more[n] = sum[n]
  BY <1>5
<1>7. more[n + 1] = more[n] + longer[n + 1].size
  BY <1>4
<1>. QED BY <1>1, <1>2, <1>6, <1>7

LEMMA TotalOfRest ==
    ASSUME NEW list, NEW rest, NEW n \in Nat, Len(list) = n + 1, Len(rest) = n,
           \A k \in 1..n : rest[k] = list[k + 1], \A k \in 1..(n + 1) : list[k].size \in Nat
    PROVE  Media!Total(list) = list[1].size + Media!Total(rest) /\ Media!Total(rest) \in Nat
<1>1. PICK sum : Summing(sum, rest, n) /\ Media!Total(rest) = sum[n]
  BY TotalIs
<1>2. PICK more : Summing(more, list, n + 1) /\ Media!Total(list) = more[n + 1]
  <2>1. Len(list) \in Nat
    OBVIOUS
  <2>. QED BY <2>1, TotalIs
<1>3. sum[0] = 0 /\ \A k \in 1..n : sum[k] = sum[k - 1] + rest[k].size
  BY <1>1, SumsAre
<1>4. more[0] = 0 /\ \A k \in 1..(n + 1) : more[k] = more[k - 1] + list[k].size
  <2>1. n + 1 \in Nat
    OBVIOUS
  <2>. QED BY <2>1, <1>2, SumsAre
<1>. DEFINE T == {k \in 0..n : ~(sum[k] \in Nat /\ more[k + 1] = list[1].size + sum[k])}
<1>5. T = {}
  <2>. SUFFICES ASSUME T # {} PROVE FALSE
    OBVIOUS
  <2>1. PICK k \in T : \A m \in T : k <= m
    <3>1. T \subseteq Nat
      OBVIOUS
    <3>. HIDE DEF T
    <3>. QED BY <3>1, LeastNatural
  <2>2. k # 0
    <3>1. 1 \in 1..(n + 1)
      OBVIOUS
    <3>2. more[1] = more[0] + list[1].size /\ list[1].size \in Nat
      BY <3>1, <1>4
    <3>3. more[0 + 1] = list[1].size + sum[0] /\ sum[0] \in Nat
      BY <3>2, <1>3, <1>4
    <3>. QED BY <3>3, <2>1
  <2>3. k \in 1..n /\ k - 1 \in 0..n /\ k - 1 \notin T /\ k + 1 \in 1..(n + 1)
    BY <2>1, <2>2
  <2>4. more[k + 1] = more[k] + list[k + 1].size /\ sum[k] = sum[k - 1] + rest[k].size
    <3>1. (k + 1) - 1 = k
      BY <2>3
    <3>. QED BY <3>1, <2>3, <1>3, <1>4
  <2>5. sum[k - 1] \in Nat /\ more[k] = list[1].size + sum[k - 1]
    <3>1. (k - 1) + 1 = k
      BY <2>3
    <3>. QED BY <3>1, <2>3
  <2>6. rest[k] = list[k + 1] /\ list[k + 1].size \in Nat /\ list[1].size \in Nat
    BY <2>3
  <2>. QED BY <2>1, <2>4, <2>5, <2>6
<1>6. sum[n] \in Nat /\ more[n + 1] = list[1].size + sum[n]
  BY <1>5
<1>. QED BY <1>1, <1>2, <1>6

Entries == [path : Paths, size : Nat]

\* What the directory has, d being what disk is.
Directory(d, n) ==
    /\ IsFiniteSet(DOMAIN d) /\ DOMAIN d \subseteq Paths
    /\ \A p \in DOMAIN d : d[p].size \in Nat /\ d[p].time \in Nat /\ d[p].time < n
    /\ \A p, q \in DOMAIN d : d[p].time = d[q].time => p = q

\* A list has the files of dir, each of them once, the oldest first.
Lined(list, dir, d) ==
    /\ list \in Seq(Entries)
    /\ \A n \in 1..Len(list) : list[n].path \in dir /\ list[n].size = d[list[n].path].size
    /\ \A p \in dir : \E n \in 1..Len(list) : list[n].path = p
    /\ \A m, n \in 1..Len(list) : m < n => d[list[m].path].time < d[list[n].path].time

Older(d, p, q) == d[p].time < d[q].time
OlderThan(S, d) == {pq \in S \X S : Older(d, pq[1], pq[2])}

LEMMA OlderIs ==
    ASSUME NEW S, NEW d, NEW p \in S, NEW q \in S
    PROVE  <<p, q>> \in OlderThan(S, d) <=> d[p].time < d[q].time
<1>1. <<p, q>> \in OlderThan(S, d) <=> Older(d, p, q)
  BY DEF OlderThan
<1>. QED BY <1>1 DEF Older

LEMMA ByAge ==
    ASSUME NEW n \in Nat, Directory(disk, n)
    PROVE  /\ Ranked(DOMAIN disk, OlderThan(DOMAIN disk, disk))
           /\ \A p \in DOMAIN disk : {q \in DOMAIN disk : disk[q].time < disk[p].time} = Under(DOMAIN disk, OlderThan(DOMAIN disk, disk), p)
<1>. DEFINE S == DOMAIN disk
            R == OlderThan(DOMAIN disk, disk)
<1>1. \A p, q \in S : <<p, q>> \in R <=> disk[p].time < disk[q].time
  BY OlderIs
<1>2. \A p \in S : disk[p].time \in Nat
  BY DEF Directory
<1>3. \A p, q \in S : p # q => disk[p].time # disk[q].time
  BY DEF Directory
<1>. HIDE DEF S, R
<1>4. Ranked(S, R)
  BY <1>1, <1>2, <1>3 DEF Ranked
<1>5. \A p \in S : {q \in S : disk[q].time < disk[p].time} = Under(S, R, p)
  BY <1>1 DEF Under
<1>. QED BY <1>4, <1>5 DEF S, R

\* A number for each file, by age.
LEMMA AgeRanks ==
    ASSUME NEW most \in Nat, Directory(disk, most)
    PROVE  LET older(p) == Cardinality({q \in DOMAIN disk : disk[q].time < disk[p].time})
               N == Cardinality(DOMAIN disk)
           IN  /\ N \in Nat
               /\ \A p \in DOMAIN disk : older(p) \in Nat /\ older(p) < N
               /\ \A p, q \in DOMAIN disk : older(p) = older(q) => p = q
               /\ \A p, q \in DOMAIN disk : older(p) < older(q) => disk[p].time < disk[q].time
               /\ \A n \in 1..N : \E p \in DOMAIN disk : older(p) = n - 1
<1>. DEFINE S == DOMAIN disk
            R == OlderThan(DOMAIN disk, disk)
            N == Cardinality(S)
            older(p) == Cardinality({q \in S : disk[q].time < disk[p].time})
<1>1. /\ Ranked(S, R)
      /\ \A p \in S : {q \in S : disk[q].time < disk[p].time} = Under(S, R, p)
  BY ByAge
<1>2. \A p \in S : older(p) = Cardinality(Under(S, R, p))
  BY <1>1
<1>3. IsFiniteSet(S)
  BY DEF Directory
<1>4. \A p, q \in S : <<p, q>> \in R <=> disk[p].time < disk[q].time
  BY OlderIs
<1>. HIDE DEF S, R, older
<1>5. /\ N \in Nat
      /\ \A a, b \in S : Cardinality(Under(S, R, a)) = Cardinality(Under(S, R, b)) => a = b
      /\ \A n \in 1..N : \E a \in S : Cardinality(Under(S, R, a)) = n - 1
      /\ \A a \in S : Cardinality(Under(S, R, a)) \in Nat /\ Cardinality(Under(S, R, a)) < N
      /\ \A a, b \in S : <<a, b>> \in R => Cardinality(Under(S, R, a)) < Cardinality(Under(S, R, b))
  BY <1>1, <1>3, Ranks
<1>6. \A p \in S : older(p) \in Nat /\ older(p) < N
  BY <1>2, <1>5
<1>7. \A p, q \in S : older(p) = older(q) => p = q
  BY <1>2, <1>5
<1>8. \A n \in 1..N : \E p \in S : older(p) = n - 1
  BY <1>2, <1>5
<1>9. ASSUME NEW p \in S, NEW q \in S, older(p) < older(q) PROVE disk[p].time < disk[q].time
  <2>1. p # q /\ older(p) \in Nat /\ older(q) \in Nat
    BY <1>9, <1>6
  <2>2. CASE <<q, p>> \in R
    <3>1. older(q) < older(p)
      BY <2>2, <1>2, <1>5
    <3>. QED BY <3>1, <2>1, <1>9
  <2>. QED BY <2>1, <2>2, <1>1, <1>4 DEF Ranked
<1>. QED BY <1>5, <1>6, <1>7, <1>8, <1>9 DEF S, older

LEMMA ListingIsLined ==
    ASSUME NEW most \in Nat, Directory(disk, most)
    PROVE  Lined(Media!Listing, DOMAIN disk, disk)
<1>. DEFINE S == DOMAIN disk
            older(p) == Cardinality({q \in S : disk[q].time < disk[p].time})
            N == Cardinality(S)
            at(n) == Media!ByAge(n)
            list == Media!Listing
<1>1. /\ N \in Nat
      /\ \A p \in S : older(p) \in Nat /\ older(p) < N
      /\ \A p, q \in S : older(p) = older(q) => p = q
      /\ \A p, q \in S : older(p) < older(q) => disk[p].time < disk[q].time
      /\ \A n \in 1..N : \E p \in S : older(p) = n - 1
  BY AgeRanks
<1>2. list = [n \in 1..N |-> Media!Entry(at(n))]
  BY FilesCounted DEF Media!Listing
<1>3. \A p \in S : Media!Entry(p) = [path |-> p, size |-> disk[p].size] /\ p \in Paths /\ disk[p].size \in Nat
  BY DEF Media!Entry, Directory
<1>4. ASSUME NEW n \in 1..N PROVE at(n) \in S /\ older(at(n)) = n - 1
  <2>1. \E p \in S : Media!Cardinality({q \in S : disk[q].time < disk[p].time}) = n - 1
    BY <1>1, FilesCounted
  <2>2. at(n) \in S /\ Media!Cardinality({q \in S : disk[q].time < disk[at(n)].time}) = n - 1
    BY <2>1 DEF Media!ByAge
  <2>. QED BY <2>2, FilesCounted
<1>. HIDE DEF older, S, list, at
<1>5. ASSUME NEW n \in 1..N
      PROVE  list[n] \in Entries /\ list[n].path = at(n) /\ list[n].size = disk[at(n)].size
  <2>1. list[n] = [path |-> at(n), size |-> disk[at(n)].size] /\ at(n) \in Paths /\ disk[at(n)].size \in Nat
    BY <1>2, <1>3, <1>4
  <2>. QED BY <2>1 DEF Entries
<1>6. list \in Seq(Entries) /\ Len(list) = N
  <2>1. list \in [1..N -> Entries]
    BY <1>2, <1>5
  <2>. QED BY <2>1, <1>1
<1>7. ASSUME NEW p \in S PROVE \E n \in 1..N : list[n].path = p
  <2>1. older(p) + 1 \in 1..N
    BY <1>1
  <2>2. at(older(p) + 1) = p
    <3>1. older(at(older(p) + 1)) = (older(p) + 1) - 1 /\ at(older(p) + 1) \in S
      BY <2>1, <1>4
    <3>2. older(at(older(p) + 1)) = older(p)
      BY <3>1, <1>1
    <3>. QED BY <3>1, <3>2, <1>1
  <2>. QED BY <2>1, <2>2, <1>5
<1>8. ASSUME NEW m \in 1..N, NEW n \in 1..N, m < n PROVE disk[list[m].path].time < disk[list[n].path].time
  <2>1. older(at(m)) < older(at(n))
    BY <1>4, <1>8
  <2>. QED BY <2>1, <1>1, <1>4, <1>5
<1>. QED BY <1>4, <1>5, <1>6, <1>7, <1>8 DEF Lined, S, list

\* A list in line has as many files before an entry as its place says.
LEMMA InLine ==
    ASSUME NEW most \in Nat, Directory(disk, most), NEW list, Lined(list, DOMAIN disk, disk)
    PROVE  /\ Len(list) = Cardinality(DOMAIN disk)
           /\ \A n \in 1..Len(list) :
                Cardinality({q \in DOMAIN disk : disk[q].time < disk[list[n].path].time}) = n - 1
<1>. DEFINE S == DOMAIN disk
<1>1. list \in Seq(Entries) /\ Len(list) \in Nat
  BY DEF Lined
<1>2. \A n \in 1..Len(list) : list[n].path \in S /\ disk[list[n].path].time \in Nat
  BY DEF Lined, Directory
<1>3. \A m, n \in 1..Len(list) : m < n <=> disk[list[m].path].time < disk[list[n].path].time
  <2>. SUFFICES ASSUME NEW m \in 1..Len(list), NEW n \in 1..Len(list)
                PROVE  m < n <=> disk[list[m].path].time < disk[list[n].path].time
    OBVIOUS
  <2>1. m < n => disk[list[m].path].time < disk[list[n].path].time
    BY DEF Lined
  <2>2. n < m => disk[list[n].path].time < disk[list[m].path].time
    BY DEF Lined
  <2>. QED BY <2>1, <2>2, <1>1, <1>2
<1>4. \A p \in S : \E n \in 1..Len(list) : list[n].path = p
  BY DEF Lined
<1>. HIDE DEF S
<1>5. ASSUME NEW k \in 0..Len(list), NEW T, T = {list[m].path : m \in 1..k} PROVE Cardinality(T) = k
  <2>. DEFINE f == [m \in 1..k |-> list[m].path]
  <2>1. \A m, n \in 1..k : f[m] = f[n] => m = n
    BY <1>1, <1>2, <1>3
  <2>2. f \in Injection(1..k, T)
    BY <2>1, <1>5 DEF Injection, IsInjective
  <2>3. f \in Surjection(1..k, T)
    BY <1>5 DEF Surjection
  <2>4. IsFiniteSet(1..k) /\ Cardinality(1..k) = k
    BY <1>1, FS_Interval
  <2>. HIDE DEF f
  <2>. QED BY <2>2, <2>3, <2>4, FS_Surjection
<1>6. Len(list) = Cardinality(S)
  <2>1. S = {list[m].path : m \in 1..Len(list)}
    BY <1>2, <1>4
  <2>. QED BY <2>1, <1>1, <1>5
<1>7. ASSUME NEW n \in 1..Len(list)
      PROVE  Cardinality({q \in S : disk[q].time < disk[list[n].path].time}) = n - 1
  <2>. DEFINE T == {q \in S : disk[q].time < disk[list[n].path].time}
  <2>1. n - 1 \in 0..Len(list) /\ \A m \in 1..(n - 1) : m \in 1..Len(list) /\ m < n
    BY <1>1
  <2>2. T = {list[m].path : m \in 1..(n - 1)}
    <3>1. ASSUME NEW q \in T PROVE \E m \in 1..(n - 1) : q = list[m].path
      <4>1. PICK m \in 1..Len(list) : list[m].path = q
        BY <1>4
      <4>2. m < n
        BY <4>1, <1>3
      <4>. QED BY <4>1, <4>2, <1>1
    <3>2. ASSUME NEW m \in 1..(n - 1) PROVE list[m].path \in T
      BY <2>1, <1>2, <1>3
    <3>. QED BY <3>1, <3>2
  <2>. HIDE DEF T
  <2>3. Cardinality(T) = n - 1
    BY <2>1, <2>2, <1>5
  <2>. QED BY <2>3 DEF T
<1>. QED BY <1>6, <1>7 DEF S

LEMMA LinedIsListing ==
    ASSUME NEW most \in Nat, Directory(disk, most), NEW list, Lined(list, DOMAIN disk, disk)
    PROVE  list = Media!Listing
<1>. DEFINE S == DOMAIN disk
            older(p) == Cardinality({q \in S : disk[q].time < disk[p].time})
            N == Cardinality(S)
            at(n) == Media!ByAge(n)
<1>1. Len(list) = N /\ \A n \in 1..Len(list) : older(list[n].path) = n - 1
  BY InLine
<1>2. N \in Nat /\ \A p, q \in S : older(p) = older(q) => p = q
  BY AgeRanks
<1>3. Media!Listing = [n \in 1..N |-> Media!Entry(at(n))]
  BY FilesCounted DEF Media!Listing
<1>4. list \in Seq(Entries) /\ \A n \in 1..N : list[n].path \in S /\ list[n].size = disk[list[n].path].size
  BY <1>1 DEF Lined
<1>7. ASSUME NEW n \in 1..N, NEW p \in S, older(p) = n - 1 PROVE at(n) \in S /\ older(at(n)) = n - 1
  <2>1. Media!Cardinality({q \in S : disk[q].time < disk[p].time}) = n - 1
    BY <1>7, FilesCounted
  <2>2. at(n) \in S /\ Media!Cardinality({q \in S : disk[q].time < disk[at(n)].time}) = n - 1
    BY <2>1 DEF Media!ByAge
  <2>. QED BY <2>2, FilesCounted
<1>. HIDE DEF older, S, at
<1>5. ASSUME NEW n \in 1..N PROVE list[n] = Media!Entry(at(n))
  <2>1. list[n].path \in S /\ older(list[n].path) = n - 1
    BY <1>1, <1>4
  <2>2. at(n) = list[n].path
    BY <2>1, <1>2, <1>7
  <2>3. list[n] = [path |-> list[n].path, size |-> list[n].size]
    <3>1. list[n] \in Entries
      BY <1>1, <1>4
    <3>. QED BY <3>1 DEF Entries
  <2>. QED BY <2>2, <2>3, <1>4 DEF Media!Entry
<1>6. list = [n \in 1..N |-> list[n]]
  BY <1>1, <1>4
<1>. QED BY <1>3, <1>5, <1>6

\* A list that is in line stays as it is when it is sorted.
LEMMA SortedAlready ==
    ASSUME NEW most \in Nat, Directory(disk, most), NEW list, Lined(list, DOMAIN disk, disk)
    PROVE  Media!Sorted(list) = list
<1>. DEFINE N == Len(list)
            before(m) == Cardinality({k \in 1..N : Media!Before(list, k, m)})
<1>1. list \in Seq(Entries) /\ N \in Nat /\ DOMAIN list = 1..N
  BY DEF Lined
<1>2. \A n \in 1..N : disk[list[n].path].time \in Nat
  BY DEF Lined, Directory
<1>3. \A m, n \in 1..N : m < n => disk[list[m].path].time < disk[list[n].path].time
  BY DEF Lined
<1>4. \A k, m \in 1..N : Media!Before(list, k, m) <=> k < m
  <2>. SUFFICES ASSUME NEW k \in 1..N, NEW m \in 1..N PROVE Media!Before(list, k, m) <=> k < m
    OBVIOUS
  <2>. DEFINE a == disk[list[k].path].time
              b == disk[list[m].path].time
  <2>1. a \in Nat /\ b \in Nat /\ (k < m => a < b) /\ (m < k => b < a)
    BY <1>2, <1>3
  <2>2. Media!Before(list, k, m) <=> (a < b \/ (a = b /\ k < m))
    BY DEF Media!Before
  <2>. HIDE DEF a, b
  <2>3. k = m => a = b
    BY DEF a, b
  <2>. QED BY <2>1, <2>2, <2>3, <1>1
<1>5. ASSUME NEW m \in 1..N PROVE before(m) = m - 1
  <2>1. {k \in 1..N : Media!Before(list, k, m)} = 1..(m - 1)
    BY <1>1, <1>4
  <2>2. Cardinality(1..(m - 1)) = m - 1
    BY <1>1, FS_Interval
  <2>. QED BY <2>1, <2>2
<1>6. Media!Sorted(list) = [n \in 1..N |-> list[Media!Place(list, n)]]
  BY <1>1 DEF Media!Sorted
<1>7. ASSUME NEW n \in 1..N PROVE Media!Place(list, n) = n
  <2>. DEFINE under(m) == Media!Cardinality({k \in DOMAIN list : Media!Before(list, k, m)})
  <2>1. \A m \in DOMAIN list : under(m) = m - 1
    BY <1>1, <1>5, FilesCounted
  <2>2. Media!Place(list, n) = CHOOSE m \in DOMAIN list : under(m) = n - 1
    BY DEF Media!Place
  <2>. HIDE DEF under
  <2>3. \A m \in DOMAIN list : under(m) = n - 1 <=> m = n
    BY <2>1, <1>1
  <2>. QED BY <2>2, <2>3, <1>1
<1>8. list = [n \in 1..N |-> list[n]]
  BY <1>1
<1>. QED BY <1>6, <1>7, <1>8

-----------------------------------------------------------------------------
(* Media: requests that come one by one                                    *)

\* How far a request is: its thumbnail is not on the disk yet, one is being evicted, its own
\* one is on the disk and not listed, or the list is taken away to be sorted.
Exact(list, n, dir, d) == Lined(list, dir, d) /\ n = Media!Total(list)
Phase(th, list, n, d) ==
    \/ /\ th.pc = "clear" /\ th.path \notin DOMAIN d /\ Exact(list, n, DOMAIN d, d)
    \/ /\ th.pc = "subtract" /\ th.path \notin DOMAIN d
       /\ Len(list) # 0 /\ Exact(Tail(list), n - Head(list).size, DOMAIN d, d)
    \/ /\ th.pc = "remove" /\ th.path \notin DOMAIN d
       /\ Len(list) # 0 /\ Exact(Tail(list), n, DOMAIN d, d)
    \/ /\ th.pc = "save" /\ th.path \notin DOMAIN d /\ Exact(list, n, DOMAIN d, d) /\ n <= MaxCacheSize
    \/ /\ th.pc = "append" /\ th.path \in DOMAIN d
       /\ Exact(list, n, DOMAIN d \ {th.path}, d)
       /\ \A p \in DOMAIN d \ {th.path} : d[p].time < d[th.path].time
    \/ /\ th.pc = "sort" /\ Exact(list, n, DOMAIN d, d)
    \/ /\ th.pc = "sorting" /\ Exact(th.list, n, DOMAIN d, d)

RequestFields == {"pc", "path", "list"}
MediaTypes ==
    /\ saves \in Nat /\ clean \in BOOLEAN /\ Directory(disk, saves)
    /\ DOMAIN thread = Threads
    /\ \A t \in Threads : DOMAIN thread[t] = RequestFields /\ (thread[t].pc # "idle" => thread[t].path \in Paths)

MediaInv ==
    /\ MediaTypes
    /\ clean =>
        /\ \A t \in Threads : thread[t].pc # "idle" =>
            /\ Phase(thread[t], files, size, disk)
            /\ \A u \in Threads : u # t => thread[u].pc = "idle"
        /\ (\A t \in Threads : thread[t].pc = "idle") => Exact(files, size, DOMAIN disk, disk)

LEMMA LinesFollow == ASSUME MediaInv PROVE Media!CacheAccounts
<1>. SUFFICES ASSUME clean, \A t \in Threads : Media!At(t, "idle") \/ Media!At(t, "save")
              PROVE  /\ files = Media!Listing /\ size = Media!Total(files)
                     /\ (\E t \in Threads : Media!At(t, "save")) => size <= MaxCacheSize
  BY DEF Media!CacheAccounts
<1>1. \A t \in Threads : thread[t].pc = "idle" \/ thread[t].pc = "save"
  BY DEF Media!At
<1>2. Exact(files, size, DOMAIN disk, disk) /\ ((\E t \in Threads : thread[t].pc = "save") => size <= MaxCacheSize)
  <2>1. CASE \A t \in Threads : thread[t].pc = "idle"
    BY <2>1 DEF MediaInv
  <2>2. CASE ~\A t \in Threads : thread[t].pc = "idle"
    <3>1. PICK t \in Threads : thread[t].pc = "save"
      BY <2>2, <1>1
    <3>2. Phase(thread[t], files, size, disk)
      BY <3>1 DEF MediaInv
    <3>. QED BY <3>1, <3>2 DEF Phase
  <2>. QED BY <2>1, <2>2
<1>3. files = Media!Listing
  BY <1>2, LinedIsListing DEF Exact, MediaInv, MediaTypes
<1>. QED BY <1>2, <1>3 DEF Exact, Media!At

LEMMA InitMedia == ASSUME Media!Init PROVE MediaInv
<1>. USE DEF Media!Init
<1>1. DOMAIN disk = {}
  OBVIOUS
<1>2. Directory(disk, saves)
  BY <1>1, FS_EmptySet DEF Directory
<1>3. Exact(files, size, DOMAIN disk, disk)
  <2>1. Len(files) = 0 /\ files \in Seq(Entries)
    OBVIOUS
  <2>2. Lined(files, DOMAIN disk, disk)
    BY <1>1, <2>1 DEF Lined
  <2>. QED BY <2>1, <2>2, TotalOfNone DEF Exact
<1>4. \A t \in Threads : thread[t].pc = "idle" /\ DOMAIN thread[t] = RequestFields
  BY DEF Media!Idle, RequestFields
<1>. QED BY <1>2, <1>3, <1>4 DEF MediaInv, MediaTypes

\* A thread that goes on from a phase to another one, or ends.
LEMMA GoesOn ==
    ASSUME MediaInv, NEW t \in Threads, thread[t].pc # "idle" \/ (clean' => \A u \in Threads : thread[u].pc = "idle"),
           DOMAIN thread' = Threads, \A u \in Threads : u # t => thread'[u] = thread[u],
           MediaTypes', clean' => clean,
           clean' => IF thread'[t].pc = "idle" THEN Exact(files', size', DOMAIN disk', disk')
                    ELSE Phase(thread'[t], files', size', disk')
    PROVE  MediaInv'
<1>. SUFFICES ASSUME clean'
              PROVE  /\ \A s \in Threads : thread'[s].pc # "idle" =>
                        /\ Phase(thread'[s], files', size', disk')
                        /\ \A u \in Threads : u # s => thread'[u].pc = "idle"
                     /\ (\A s \in Threads : thread'[s].pc = "idle") => Exact(files', size', DOMAIN disk', disk')
  BY DEF MediaInv
<1>1. clean
  OBVIOUS
<1>2. \A u \in Threads : u # t => thread[u].pc = "idle"
  BY <1>1 DEF MediaInv
<1>3. \A u \in Threads : u # t => thread'[u].pc = "idle"
  BY <1>2
<1>4. IF thread'[t].pc = "idle" THEN Exact(files', size', DOMAIN disk', disk')
      ELSE Phase(thread'[t], files', size', disk')
  BY <1>1
<1>5. ASSUME NEW s \in Threads, thread'[s].pc # "idle"
      PROVE  Phase(thread'[s], files', size', disk') /\ \A u \in Threads : u # s => thread'[u].pc = "idle"
  BY <1>3, <1>4, <1>5
<1>. QED BY <1>4, <1>5

\* What a thread may do with its record.
LEMMA NewRecord ==
    ASSUME MediaTypes, NEW t \in Threads, NEW pc
    PROVE  /\ Media!Goto(t, pc) =>
                /\ DOMAIN thread' = Threads /\ \A u \in Threads : u # t => thread'[u] = thread[u]
                /\ DOMAIN thread'[t] = RequestFields
                /\ thread'[t].pc = pc /\ thread'[t].path = thread[t].path /\ thread'[t].list = thread[t].list
           /\ Media!End(t) =>
                /\ DOMAIN thread' = Threads /\ \A u \in Threads : u # t => thread'[u] = thread[u]
                /\ DOMAIN thread'[t] = RequestFields /\ thread'[t].pc = "idle"
<1>1. DOMAIN thread = Threads /\ DOMAIN thread[t] = RequestFields
  BY DEF MediaTypes
<1>2. ASSUME Media!Goto(t, pc)
      PROVE  /\ DOMAIN thread' = Threads /\ \A u \in Threads : u # t => thread'[u] = thread[u]
             /\ DOMAIN thread'[t] = RequestFields
             /\ thread'[t].pc = pc /\ thread'[t].path = thread[t].path /\ thread'[t].list = thread[t].list
  BY <1>1, <1>2 DEF Media!Goto, RequestFields
<1>3. ASSUME Media!End(t)
      PROVE  /\ DOMAIN thread' = Threads /\ \A u \in Threads : u # t => thread'[u] = thread[u]
             /\ DOMAIN thread'[t] = RequestFields /\ thread'[t].pc = "idle"
  BY <1>1, <1>3 DEF Media!End, Media!Idle, RequestFields
<1>. QED BY <1>2, <1>3

\* The types after a step of a thread.
LEMMA TypesGoOn ==
    ASSUME MediaTypes, NEW t \in Threads,
           DOMAIN thread' = Threads, \A u \in Threads : u # t => thread'[u] = thread[u],
           DOMAIN thread'[t] = RequestFields, thread'[t].pc # "idle" => thread'[t].path \in Paths,
           saves' \in Nat, clean' \in BOOLEAN, Directory(disk', saves')
    PROVE  MediaTypes'
BY DEF MediaTypes

-----------------------------------------------------------------------------
(* Media: what the steps make of a list                                    *)

LEMMA LinedElsewhere ==
    ASSUME NEW list, NEW dir, NEW d, NEW e, Lined(list, dir, d), \A p \in dir : e[p] = d[p]
    PROVE  Lined(list, dir, e)
BY DEF Lined

LEMMA LinedMore ==
    ASSUME NEW list, NEW dir, NEW d, NEW p, NEW entry, Lined(list, dir, d),
           entry \in Entries, entry.path = p, entry.size = d[p].size,
           \A q \in dir : d[q].time < d[p].time
    PROVE  /\ Lined(Append(list, entry), dir \cup {p}, d)
           /\ Media!Total(Append(list, entry)) = Media!Total(list) + entry.size
<1>. DEFINE n == Len(list)
            more == Append(list, entry)
<1>1. list \in Seq(Entries) /\ n \in Nat
  BY DEF Lined
<1>2. more \in Seq(Entries) /\ Len(more) = n + 1 /\ more[n + 1] = entry /\ \A k \in 1..n : more[k] = list[k]
  BY <1>1
<1>. HIDE DEF more
<1>3. \A k \in 1..n : list[k].path \in dir /\ list[k].size = d[list[k].path].size
  BY DEF Lined
<1>4. \A q \in dir : \E k \in 1..n : list[k].path = q
  BY DEF Lined
<1>5. \A k, m \in 1..n : k < m => d[list[k].path].time < d[list[m].path].time
  BY DEF Lined
<1>. HIDE DEF n
<1>6. \A k \in 1..(n + 1) : k = n + 1 \/ k \in 1..n
  BY <1>1
<1>7. \A k \in 1..(n + 1) : more[k].path \in dir \cup {p} /\ more[k].size = d[more[k].path].size
  BY <1>2, <1>3, <1>6
<1>8. ASSUME NEW q \in dir \cup {p} PROVE \E k \in 1..(n + 1) : more[k].path = q
  <2>1. n + 1 \in 1..(n + 1) /\ \A k \in 1..n : k \in 1..(n + 1)
    BY <1>1
  <2>. QED BY <2>1, <1>2, <1>4
<1>9. ASSUME NEW k \in 1..(n + 1), NEW m \in 1..(n + 1), k < m PROVE d[more[k].path].time < d[more[m].path].time
  <2>1. k \in 1..n
    BY <1>1, <1>9
  <2>2. CASE m = n + 1
    BY <2>1, <2>2, <1>2, <1>3
  <2>3. CASE m # n + 1
    <3>1. m \in 1..n
      BY <2>3, <1>6
    <3>. QED BY <2>1, <3>1, <1>2, <1>5, <1>9
  <2>. QED BY <2>2, <2>3
<1>10. Lined(more, dir \cup {p}, d)
  BY <1>2, <1>7, <1>8, <1>9 DEF Lined
<1>11. Media!Total(more) = Media!Total(list) + more[n + 1].size
  BY <1>1, <1>2, TotalOfMore DEF n
<1>. QED BY <1>2, <1>10, <1>11 DEF more

LEMMA LinedLess ==
    ASSUME NEW list, NEW d, NEW most \in Nat, Directory(d, most), Lined(list, DOMAIN d, d), Len(list) # 0,
           NEW e, e = [p \in DOMAIN d \ {Head(list).path} |-> d[p]]
    PROVE  /\ Head(list).path \in DOMAIN d /\ Head(list).size \in Nat
           /\ Lined(Tail(list), DOMAIN e, e)
           /\ Media!Total(Tail(list)) = Media!Total(list) - Head(list).size
<1>. DEFINE rest == Tail(list)
            x == list[1].path
            D == DOMAIN d
<1>1. list \in Seq(Entries) /\ Len(list) \in Nat
  BY DEF Lined
<1>2. PICK n \in Nat : Len(list) = n + 1
  <2>1. Len(list) - 1 \in Nat /\ Len(list) = (Len(list) - 1) + 1
    BY <1>1
  <2>. QED BY <2>1
<1>3. Head(list) = list[1] /\ rest \in Seq(Entries) /\ Len(rest) = n /\ \A k \in 1..n : rest[k] = list[k + 1]
  BY <1>1, <1>2
<1>. HIDE DEF rest
<1>4. \A k \in 1..(n + 1) : list[k].path \in D /\ list[k].size = d[list[k].path].size
  BY <1>2 DEF Lined
<1>5. \A q \in D : \E k \in 1..(n + 1) : list[k].path = q
  BY <1>2 DEF Lined
<1>6. \A k, m \in 1..(n + 1) : k < m => d[list[k].path].time < d[list[m].path].time
  BY <1>2 DEF Lined
<1>7. \A p \in D : d[p].time \in Nat /\ d[p].size \in Nat
  BY DEF Directory
<1>8. DOMAIN e = D \ {x} /\ \A p \in D \ {x} : e[p] = d[p]
  BY <1>3
<1>. HIDE DEF D
<1>9. \A k \in 1..n : k + 1 \in 1..(n + 1) /\ 1 \in 1..(n + 1) /\ 1 < k + 1
  OBVIOUS
<1>10. ASSUME NEW k \in 1..n PROVE rest[k].path \in D \ {x} /\ rest[k].size = e[rest[k].path].size
  <2>1. d[x].time < d[list[k + 1].path].time
    BY <1>6, <1>9
  <2>2. list[k + 1].path # x /\ list[k + 1].path \in D
    BY <2>1, <1>4, <1>7, <1>9
  <2>. QED BY <2>2, <1>3, <1>4, <1>8, <1>9
<1>11. ASSUME NEW q \in D \ {x} PROVE \E k \in 1..n : rest[k].path = q
  <2>1. PICK k \in 1..(n + 1) : list[k].path = q
    BY <1>5
  <2>2. k # 1
    BY <2>1
  <2>3. k - 1 \in 1..n /\ (k - 1) + 1 = k
    BY <2>2
  <2>. QED BY <2>1, <2>3, <1>3
<1>12. ASSUME NEW k \in 1..n, NEW m \in 1..n, k < m PROVE e[rest[k].path].time < e[rest[m].path].time
  <2>1. k + 1 < m + 1 /\ k + 1 \in 1..(n + 1) /\ m + 1 \in 1..(n + 1)
    BY <1>12
  <2>2. d[list[k + 1].path].time < d[list[m + 1].path].time
    BY <2>1, <1>6
  <2>3. rest[k] = list[k + 1] /\ rest[m] = list[m + 1] /\ rest[k].path \in D \ {x} /\ rest[m].path \in D \ {x}
    BY <1>3, <1>10
  <2>. QED BY <2>2, <2>3, <1>8
<1>13. Lined(rest, DOMAIN e, e)
  BY <1>3, <1>8, <1>10, <1>11, <1>12 DEF Lined
<1>14. \A k \in 1..(n + 1) : list[k].size \in Nat
  BY <1>4, <1>7
<1>15. Media!Total(list) = list[1].size + Media!Total(rest) /\ Media!Total(rest) \in Nat
  BY <1>2, <1>3, <1>14, TotalOfRest
<1>16. list[1].path \in D /\ list[1].size \in Nat
  BY <1>4, <1>9, <1>14
<1>17. Media!Total(rest) = Media!Total(list) - list[1].size
  BY <1>15, <1>16
<1>. QED BY <1>3, <1>13, <1>16, <1>17 DEF rest, D

LEMMA DirectoryLess ==
    ASSUME NEW d, NEW n \in Nat, Directory(d, n), NEW x
    PROVE  Directory([p \in DOMAIN d \ {x} |-> d[p]], n)
<1>. DEFINE e == [p \in DOMAIN d \ {x} |-> d[p]]
<1>1. DOMAIN e = DOMAIN d \ {x} /\ \A p \in DOMAIN e : e[p] = d[p]
  OBVIOUS
<1>2. IsFiniteSet(DOMAIN e)
  BY <1>1, FS_RemoveElement DEF Directory
<1>. HIDE DEF e
<1>3. Directory(e, n)
  BY <1>1, <1>2 DEF Directory
<1>. QED BY <1>3 DEF e

LEMMA DirectoryMore ==
    ASSUME NEW d, NEW n \in Nat, Directory(d, n), NEW x \in Paths, NEW s \in Nat
    PROVE  Directory([p \in DOMAIN d \cup {x} |-> IF p = x THEN [size |-> s, time |-> n] ELSE d[p]], n + 1)
<1>. DEFINE e == [p \in DOMAIN d \cup {x} |-> IF p = x THEN [size |-> s, time |-> n] ELSE d[p]]
<1>1. DOMAIN e = DOMAIN d \cup {x} /\ (\A p \in DOMAIN e : p # x => p \in DOMAIN d /\ e[p] = d[p])
      /\ e[x].size = s /\ e[x].time = n
  OBVIOUS
<1>2. IsFiniteSet(DOMAIN e) /\ DOMAIN e \subseteq Paths
  BY <1>1, FS_AddElement DEF Directory
<1>. HIDE DEF e
<1>3. ASSUME NEW p \in DOMAIN e
      PROVE  e[p].size \in Nat /\ e[p].time \in Nat /\ e[p].time < n + 1 /\ (p # x => e[p].time < n)
  BY <1>1 DEF Directory
<1>4. ASSUME NEW p \in DOMAIN e, NEW q \in DOMAIN e, e[p].time = e[q].time PROVE p = q
  <2>1. CASE p # x /\ q # x
    BY <2>1, <1>1, <1>4 DEF Directory
  <2>2. CASE p = x \/ q = x
    BY <2>2, <1>1, <1>3, <1>4
  <2>. QED BY <2>1, <2>2
<1>5. Directory(e, n + 1)
  BY <1>2, <1>3, <1>4 DEF Directory
<1>. QED BY <1>5 DEF e

-----------------------------------------------------------------------------
(* Media: the steps of a request                                           *)

\* What holds of a thread that is in a phase.
Going(t) == t \in Threads /\ thread[t].pc # "idle" /\ (clean => Phase(thread[t], files, size, disk))

LEMMA PhaseIs ==
    ASSUME MediaInv, NEW t \in Threads, thread[t].pc # "idle"
    PROVE  Going(t) /\ thread[t].path \in Paths /\ MediaTypes
BY DEF MediaInv, MediaTypes, Going

LEMMA ResizeStep ==
    ASSUME MediaInv, NEW t \in Threads, NEW p \in Paths, Media!Resize(t, p)
    PROVE  MediaInv'
<1>. USE DEF Media!Resize, Media!At
<1>1. MediaTypes /\ DOMAIN thread = Threads
  BY DEF MediaInv, MediaTypes
<1>. DEFINE new == [pc |-> "clear", path |-> p, list |-> <<>>]
<1>2. DOMAIN thread' = Threads /\ (\A u \in Threads : u # t => thread'[u] = thread[u]) /\ thread'[t] = new
  BY <1>1
<1>3. DOMAIN new = RequestFields /\ new.pc = "clear" /\ new.path = p
  BY DEF RequestFields
<1>. HIDE DEF new
<1>4. disk' = disk /\ files' = files /\ size' = size /\ saves' = saves /\ p \notin DOMAIN disk
  OBVIOUS
<1>5. clean' \in BOOLEAN /\ (clean' => clean /\ \A u \in Threads : thread[u].pc = "idle")
  BY <1>1 DEF MediaTypes
<1>6. MediaTypes'
  BY <1>1, <1>2, <1>3, <1>4, <1>5, TypesGoOn DEF MediaTypes
<1>7. clean' => Phase(thread'[t], files', size', disk')
  <2>. SUFFICES ASSUME clean' PROVE Phase(new, files, size, disk)
    BY <1>2, <1>4
  <2>1. Exact(files, size, DOMAIN disk, disk)
    BY <1>5 DEF MediaInv
  <2>. QED BY <2>1, <1>3, <1>4 DEF Phase
<1>. QED BY <1>2, <1>3, <1>5, <1>6, <1>7, GoesOn

\* A step of a thread in a phase that leaves the disk and the history alone.
LEMMA DiskStays ==
    ASSUME MediaInv, NEW t \in Threads, thread[t].pc # "idle", UNCHANGED <<disk, saves, clean>>,
           Media!End(t) \/ \E pc : Media!Goto(t, pc),
           clean => IF thread'[t].pc = "idle" THEN Exact(files', size', DOMAIN disk, disk)
                    ELSE Phase(thread'[t], files', size', disk)
    PROVE  MediaInv'
<1>1. MediaTypes /\ thread[t].path \in Paths
  BY PhaseIs
<1>2. /\ DOMAIN thread' = Threads /\ \A u \in Threads : u # t => thread'[u] = thread[u]
      /\ DOMAIN thread'[t] = RequestFields /\ (thread'[t].pc # "idle" => thread'[t].path \in Paths)
  <2>1. CASE Media!End(t)
    BY <2>1, <1>1, NewRecord
  <2>2. CASE \E pc : Media!Goto(t, pc)
    <3>1. PICK pc : Media!Goto(t, pc)
      BY <2>2
    <3>. QED BY <3>1, <1>1, NewRecord
  <2>. QED BY <2>1, <2>2
<1>3. MediaTypes'
  BY <1>1, <1>2, TypesGoOn DEF MediaTypes
<1>. QED BY <1>2, <1>3, GoesOn

LEMMA ClearEnoughStep ==
    ASSUME MediaInv, NEW t \in Threads, Media!ClearEnough(t)
    PROVE  MediaInv'
<1>1. thread[t].pc = "clear" /\ size <= MaxCacheSize /\ Media!Goto(t, "save") /\ UNCHANGED <<disk, files, size, saves, clean>>
  BY DEF Media!ClearEnough, Media!At
<1>2. Going(t) /\ MediaTypes
  BY <1>1, PhaseIs
<1>3. thread'[t].pc = "save" /\ thread'[t].path = thread[t].path
  BY <1>1, <1>2, NewRecord
<1>4. clean => Phase(thread'[t], files', size', disk)
  <2>. SUFFICES ASSUME clean PROVE Phase(thread'[t], files', size', disk)
    OBVIOUS
  <2>1. thread[t].path \notin DOMAIN disk /\ Exact(files, size, DOMAIN disk, disk)
    BY <1>1, <1>2 DEF Going, Phase
  <2>. QED BY <2>1, <1>1, <1>3 DEF Phase
<1>. QED BY <1>1, <1>3, <1>4, DiskStays

LEMMA SubtractStep ==
    ASSUME MediaInv, NEW t \in Threads, Media!Subtract(t)
    PROVE  MediaInv'
<1>1. thread[t].pc = "subtract" /\ UNCHANGED <<disk, files, saves, clean>>
      /\ IF files = <<>> THEN Media!End(t) /\ size' = size
         ELSE size' = size - Head(files).size /\ Media!Goto(t, "remove")
  BY DEF Media!Subtract, Media!At
<1>2. Going(t) /\ MediaTypes
  BY <1>1, PhaseIs
<1>3. clean => thread[t].path \notin DOMAIN disk /\ Len(files) # 0
               /\ Exact(Tail(files), size - Head(files).size, DOMAIN disk, disk)
  BY <1>1, <1>2 DEF Going, Phase
<1>4. CASE files = <<>>
  <2>1. ~clean
    BY <1>3, <1>4
  <2>2. Media!End(t)
    BY <1>1, <1>4
  <2>. QED BY <2>1, <2>2, <1>1, DiskStays
<1>5. CASE files # <<>>
  <2>1. size' = size - Head(files).size /\ Media!Goto(t, "remove")
    BY <1>1, <1>5
  <2>2. thread'[t].pc = "remove" /\ thread'[t].path = thread[t].path
    BY <2>1, <1>2, NewRecord
  <2>3. clean => Phase(thread'[t], files', size', disk)
    BY <2>1, <2>2, <1>1, <1>3 DEF Phase
  <2>. QED BY <2>1, <2>2, <2>3, <1>1, DiskStays
<1>. QED BY <1>4, <1>5

LEMMA UnlistStep ==
    ASSUME MediaInv, NEW t \in Threads, Media!Unlist(t)
    PROVE  MediaInv'
<1>1. thread[t].pc = "remove" /\ UNCHANGED <<disk, size, saves, clean>>
      /\ IF files = <<>> THEN Media!End(t) /\ files' = files
         ELSE files' = Tail(files) /\ Media!Goto(t, "clear")
  BY DEF Media!Unlist, Media!At
<1>2. Going(t) /\ MediaTypes
  BY <1>1, PhaseIs
<1>3. clean => thread[t].path \notin DOMAIN disk /\ Len(files) # 0 /\ Exact(Tail(files), size, DOMAIN disk, disk)
  BY <1>1, <1>2 DEF Going, Phase
<1>4. CASE files = <<>>
  <2>1. ~clean
    BY <1>3, <1>4
  <2>2. Media!End(t)
    BY <1>1, <1>4
  <2>. QED BY <2>1, <2>2, <1>1, DiskStays
<1>5. CASE files # <<>>
  <2>1. files' = Tail(files) /\ Media!Goto(t, "clear")
    BY <1>1, <1>5
  <2>2. thread'[t].pc = "clear" /\ thread'[t].path = thread[t].path
    BY <2>1, <1>2, NewRecord
  <2>3. clean => Phase(thread'[t], files', size', disk)
    BY <2>1, <2>2, <1>1, <1>3 DEF Phase
  <2>. QED BY <2>1, <2>2, <2>3, <1>1, DiskStays
<1>. QED BY <1>4, <1>5

LEMMA NoImageStep ==
    ASSUME MediaInv, NEW t \in Threads, Media!NoImage(t)
    PROVE  MediaInv'
<1>1. thread[t].pc = "save" /\ Media!End(t) /\ UNCHANGED <<disk, files, size, saves, clean>>
  BY DEF Media!NoImage, Media!At
<1>2. Going(t) /\ MediaTypes
  BY <1>1, PhaseIs
<1>3. thread'[t].pc = "idle"
  BY <1>1, <1>2, NewRecord
<1>4. clean => Exact(files, size, DOMAIN disk, disk)
  BY <1>1, <1>2 DEF Going, Phase
<1>. QED BY <1>1, <1>3, <1>4, DiskStays

LEMMA AppendStep ==
    ASSUME MediaInv, NEW t \in Threads, Media!AppendFile(t)
    PROVE  MediaInv'
<1>. DEFINE path == thread[t].path
            entry == Media!Entry(path)
<1>1. thread[t].pc = "append" /\ UNCHANGED <<disk, saves, clean>>
      /\ IF path \notin DOMAIN disk THEN Media!End(t) /\ UNCHANGED <<files, size>>
         ELSE files' = Append(files, entry) /\ size' = size + disk[path].size /\ Media!Goto(t, "sort")
  BY DEF Media!AppendFile, Media!At
<1>2. Going(t) /\ MediaTypes
  BY <1>1, PhaseIs
<1>3. clean => path \in DOMAIN disk /\ Exact(files, size, DOMAIN disk \ {path}, disk)
               /\ \A p \in DOMAIN disk \ {path} : disk[p].time < disk[path].time
  BY <1>1, <1>2 DEF Going, Phase
<1>4. CASE path \notin DOMAIN disk
  <2>1. ~clean /\ Media!End(t)
    BY <1>1, <1>3, <1>4
  <2>. QED BY <2>1, <1>1, DiskStays
<1>5. CASE path \in DOMAIN disk
  <2>1. files' = Append(files, entry) /\ size' = size + disk[path].size /\ Media!Goto(t, "sort")
    BY <1>1, <1>5
  <2>2. thread'[t].pc = "sort"
    BY <2>1, <1>2, NewRecord
  <2>3. entry \in Entries /\ entry.path = path /\ entry.size = disk[path].size
    <3>1. path \in Paths /\ disk[path].size \in Nat
      BY <1>2, <1>5 DEF MediaTypes, Directory
    <3>. QED BY <3>1 DEF Media!Entry, Entries
  <2>. HIDE DEF path, entry
  <2>4. ASSUME clean PROVE Exact(files', size', DOMAIN disk, disk)
    <3>1. /\ Lined(Append(files, entry), (DOMAIN disk \ {path}) \cup {path}, disk)
          /\ Media!Total(Append(files, entry)) = Media!Total(files) + entry.size
      BY <2>3, <2>4, <1>3, LinedMore DEF Exact
    <3>2. (DOMAIN disk \ {path}) \cup {path} = DOMAIN disk
      BY <1>5
    <3>3. size = Media!Total(files)
      BY <2>4, <1>3 DEF Exact
    <3>. QED BY <3>1, <3>2, <3>3, <2>1, <2>3 DEF Exact
  <2>5. clean => Phase(thread'[t], files', size', disk)
    BY <2>2, <2>4 DEF Phase
  <2>. QED BY <2>1, <2>2, <2>5, <1>1, DiskStays
<1>. QED BY <1>4, <1>5

LEMMA SortBeginsStep ==
    ASSUME MediaInv, NEW t \in Threads, Media!SortBegins(t)
    PROVE  MediaInv'
<1>1. thread[t].pc = "sort" /\ UNCHANGED <<disk, size, saves, clean>>
      /\ thread' = [thread EXCEPT ![t].pc = "sorting", ![t].list = files]
  BY DEF Media!SortBegins, Media!At
<1>2. Going(t) /\ MediaTypes /\ thread[t].path \in Paths
  BY <1>1, PhaseIs
<1>3. DOMAIN thread = Threads /\ DOMAIN thread[t] = RequestFields
  BY <1>2 DEF MediaTypes
<1>4. /\ DOMAIN thread' = Threads /\ \A u \in Threads : u # t => thread'[u] = thread[u]
      /\ DOMAIN thread'[t] = RequestFields
      /\ thread'[t].pc = "sorting" /\ thread'[t].path = thread[t].path /\ thread'[t].list = files
  BY <1>1, <1>3 DEF RequestFields
<1>5. MediaTypes'
  BY <1>1, <1>2, <1>4, TypesGoOn DEF MediaTypes
<1>6. clean => Phase(thread'[t], files', size', disk')
  BY <1>1, <1>2, <1>4 DEF Going, Phase
<1>. QED BY <1>1, <1>4, <1>5, <1>6, GoesOn

LEMMA SortEndsStep ==
    ASSUME MediaInv, NEW t \in Threads, Media!SortEnds(t)
    PROVE  MediaInv'
<1>. DEFINE list == thread[t].list
            gone == \E n \in DOMAIN list : list[n].path \notin DOMAIN disk
<1>1. thread[t].pc = "sorting" /\ UNCHANGED <<disk, size, saves, clean>> /\ Media!End(t)
      /\ files' = IF gone THEN list ELSE Media!Sorted(list)
  BY DEF Media!SortEnds, Media!At
<1>2. Going(t) /\ MediaTypes
  BY <1>1, PhaseIs
<1>. HIDE DEF list, gone
<1>3. thread'[t].pc = "idle"
  BY <1>1, <1>2, NewRecord
<1>4. ASSUME clean PROVE Exact(files', size', DOMAIN disk, disk)
  <2>1. Exact(list, size, DOMAIN disk, disk)
    BY <1>1, <1>2, <1>4 DEF Going, Phase, list
  <2>2. Media!Sorted(list) = list
    BY <2>1, <1>2, SortedAlready DEF Exact, MediaTypes
  <2>. QED BY <2>1, <2>2, <1>1
<1>. QED BY <1>1, <1>3, <1>4, DiskStays

LEMMA EvictStep ==
    ASSUME MediaInv, NEW t \in Threads, Media!Delete(t)
    PROVE  MediaInv'
<1>. DEFINE x == Head(files).path
            less == [p \in DOMAIN disk \ {x} |-> disk[p]]
<1>1. thread[t].pc = "clear" /\ UNCHANGED <<files, size, saves, clean>>
      /\ IF files = <<>> \/ x \notin DOMAIN disk THEN Media!End(t) /\ disk' = disk
         ELSE disk' = less /\ Media!Goto(t, "subtract")
  BY DEF Media!Delete, Media!At
<1>2. Going(t) /\ MediaTypes /\ thread[t].path \in Paths
  BY <1>1, PhaseIs
<1>3. clean => thread[t].path \notin DOMAIN disk /\ Exact(files, size, DOMAIN disk, disk)
  BY <1>1, <1>2 DEF Going, Phase
<1>4. CASE files = <<>> \/ x \notin DOMAIN disk
  <2>1. Media!End(t) /\ disk' = disk
    BY <1>1, <1>4
  <2>2. thread'[t].pc = "idle"
    BY <2>1, <1>2, NewRecord
  <2>. QED BY <2>1, <2>2, <1>1, <1>3, DiskStays
<1>5. CASE ~(files = <<>> \/ x \notin DOMAIN disk)
  <2>1. disk' = less /\ Media!Goto(t, "subtract") /\ files # <<>>
    BY <1>1, <1>5
  <2>2. /\ DOMAIN thread' = Threads /\ \A u \in Threads : u # t => thread'[u] = thread[u]
        /\ DOMAIN thread'[t] = RequestFields
        /\ thread'[t].pc = "subtract" /\ thread'[t].path = thread[t].path
    BY <2>1, <1>2, NewRecord
  <2>3. DOMAIN less \subseteq DOMAIN disk
    OBVIOUS
  <2>4. Directory(less, saves)
    BY <1>2, DirectoryLess DEF MediaTypes
  <2>5. ASSUME clean PROVE Len(files) # 0 /\ Exact(Tail(files), size - Head(files).size, DOMAIN less, less)
    <3>1. Lined(files, DOMAIN disk, disk) /\ size = Media!Total(files)
      BY <2>5, <1>3 DEF Exact
    <3>2. Len(files) # 0
      <4>1. files \in Seq(Entries)
        BY <3>1 DEF Lined
      <4>. QED BY <4>1, <2>1
    <3>3. Directory(disk, saves) /\ saves \in Nat
      BY <1>2 DEF MediaTypes
    <3>. HIDE DEF less
    <3>4. less = [p \in DOMAIN disk \ {Head(files).path} |-> disk[p]]
      BY DEF less
    <3>5. Lined(Tail(files), DOMAIN less, less) /\ Media!Total(Tail(files)) = Media!Total(files) - Head(files).size
      BY <3>1, <3>2, <3>3, <3>4, LinedLess
    <3>. QED BY <3>1, <3>2, <3>5 DEF Exact
  <2>. HIDE DEF less, x
  <2>6. MediaTypes'
    BY <2>1, <2>2, <2>4, <1>1, <1>2, TypesGoOn DEF MediaTypes
  <2>7. clean => Phase(thread'[t], files', size', disk')
    <3>. SUFFICES ASSUME clean PROVE Phase(thread'[t], files, size, less)
      BY <2>1, <1>1
    <3>. QED BY <2>2, <2>3, <2>5, <1>3 DEF Phase
  <2>. QED BY <2>2, <2>6, <2>7, <1>1, GoesOn
<1>. QED BY <1>4, <1>5

LEMMA SaveStep ==
    ASSUME MediaAssumption, MediaInv, NEW t \in Threads, Media!Save(t)
    PROVE  MediaInv'
<1>. DEFINE x == thread[t].path
<1>1. PICK s \in Sizes : disk' = [p \in DOMAIN disk \cup {x} |-> IF p = x THEN [size |-> s, time |-> saves] ELSE disk[p]]
  BY DEF Media!Save
<1>2. thread[t].pc = "save" /\ UNCHANGED <<files, size>> /\ saves' = saves + 1
      /\ \/ Media!Goto(t, "append") /\ clean' = clean
         \/ Media!End(t) /\ clean' = FALSE
  BY DEF Media!Save, Media!At
<1>3. Going(t) /\ MediaTypes /\ x \in Paths /\ s \in Nat
  BY <1>2, PhaseIs DEF MediaAssumption
<1>4. clean => x \notin DOMAIN disk /\ Exact(files, size, DOMAIN disk, disk)
  BY <1>2, <1>3 DEF Going, Phase
<1>5. Directory(disk', saves') /\ saves' \in Nat
  BY <1>1, <1>2, <1>3, DirectoryMore DEF MediaTypes
<1>6. DOMAIN disk' = DOMAIN disk \cup {x} /\ disk'[x].time = saves /\ \A p \in DOMAIN disk : p # x => disk'[p] = disk[p]
  BY <1>1
<1>7. thread'[t].path = x \/ thread'[t].pc = "idle"
  BY <1>2, <1>3, NewRecord
<1>. HIDE DEF x
<1>8. /\ DOMAIN thread' = Threads /\ \A u \in Threads : u # t => thread'[u] = thread[u]
      /\ DOMAIN thread'[t] = RequestFields
  BY <1>2, <1>3, NewRecord
<1>9. clean' \in BOOLEAN /\ (clean' => clean /\ Media!Goto(t, "append"))
  <2>1. CASE Media!Goto(t, "append") /\ clean' = clean
    BY <2>1, <1>3 DEF MediaTypes
  <2>2. CASE clean' = FALSE
    BY <2>2
  <2>. QED BY <2>1, <2>2, <1>2
<1>10. MediaTypes'
  BY <1>3, <1>5, <1>7, <1>8, <1>9, TypesGoOn
<1>11. ASSUME clean' PROVE thread'[t].pc = "append" /\ Phase(thread'[t], files', size', disk')
  <2>1. clean /\ thread'[t].pc = "append" /\ thread'[t].path = x
    BY <1>3, <1>9, <1>11, NewRecord DEF x
  <2>2. x \notin DOMAIN disk /\ Lined(files, DOMAIN disk, disk) /\ size = Media!Total(files)
    BY <2>1, <1>4 DEF Exact
  <2>3. DOMAIN disk' \ {x} = DOMAIN disk /\ \A p \in DOMAIN disk : disk'[p] = disk[p]
    BY <2>2, <1>6
  <2>4. Exact(files, size, DOMAIN disk' \ {x}, disk')
    BY <2>2, <2>3, LinedElsewhere DEF Exact
  <2>5. \A p \in DOMAIN disk' \ {x} : disk'[p].time < disk'[x].time
    BY <2>3, <1>3, <1>6 DEF MediaTypes, Directory
  <2>. QED BY <2>1, <2>4, <2>5, <1>2, <1>6 DEF Phase
<1>. QED BY <1>2, <1>8, <1>9, <1>10, <1>11, GoesOn

LEMMA RestartStep == ASSUME MediaInv, Media!Restart PROVE MediaInv'
<1>1. /\ files' = Media!Listing /\ size' = Media!Total(Media!Listing)
      /\ thread' = [t \in Threads |-> Media!Idle] /\ clean' = TRUE /\ UNCHANGED <<disk, saves>>
  BY DEF Media!Restart
<1>2. MediaTypes
  BY DEF MediaInv
<1>3. Exact(files', size', DOMAIN disk', disk')
  <2>1. Lined(Media!Listing, DOMAIN disk, disk)
    BY <1>2, ListingIsLined DEF MediaTypes
  <2>. QED BY <2>1, <1>1 DEF Exact
<1>4. DOMAIN thread' = Threads /\ \A t \in Threads : thread'[t].pc = "idle" /\ DOMAIN thread'[t] = RequestFields
  BY <1>1 DEF Media!Idle, RequestFields
<1>5. MediaTypes'
  BY <1>1, <1>2, <1>4 DEF MediaTypes
<1>. QED BY <1>3, <1>4, <1>5 DEF MediaInv

LEMMA NextMedia == MediaAssumption /\ MediaInv /\ [Media!Next]_(Media!vars) => MediaInv'
<1>. SUFFICES ASSUME MediaAssumption, MediaInv, [Media!Next]_(Media!vars) PROVE MediaInv'
  OBVIOUS
<1>1. CASE UNCHANGED Media!vars
  BY <1>1 DEF Media!vars, MediaInv, MediaTypes
<1>2. ASSUME NEW t \in Threads, Media!Step(t) PROVE MediaInv'
  BY <1>2, ResizeStep, ClearEnoughStep, EvictStep, SubtractStep, UnlistStep, SaveStep, NoImageStep,
     AppendStep, SortBeginsStep, SortEndsStep DEF Media!Step
<1>. QED BY <1>1, <1>2, RestartStep DEF Media!Next

\* The list and the size of the media cache are those of its directory, and within the
\* limit, while its requests come one by one (MediaCache, ImageResizeView): see CacheAccounts.
THEOREM CacheAccountsAlways == Spec => []CacheAccounts
<1>. DEFINE Inv == which = "media" => MediaInv
<1>1. Init => Inv
  BY InitMedia DEF Init
<1>2. Inv /\ [Next]_vars => Inv'
  <2>. SUFFICES ASSUME Inv, [Next]_vars, which' = "media" PROVE MediaInv'
    OBVIOUS
  <2>1. which = "media" /\ (MediaStep \/ UNCHANGED vars)
    BY MediaGo
  <2>2. [Media!Next]_(Media!vars)
    BY <2>1 DEF MediaStep, vars, mediaVars, Media!vars
  <2>. QED BY <2>1, <2>2, NextMedia, MediaAssumption
<1>3. Inv => CacheAccounts
  BY LinesFollow DEF CacheAccounts
<1>. QED BY <1>1, <1>2, <1>3, PTL DEF Spec

-----------------------------------------------------------------------------
(* Filters: what a request keeps                                           *)

\* The text v is in s after i characters, at its ends if they are not open.
Occurs(s, v, i, open, loose) ==
    /\ i \in Int /\ 0 <= i /\ i + Len(v) <= Len(s)
    /\ \A k \in 1..Len(v) : s[i + k] = v[k]
    /\ open \/ i = 0
    /\ loose \/ i + Len(v) = Len(s)

TextLookups == {"icontains", "istartswith", "iendswith"}

\* The characters of a pattern: those of o wildcards, of the text, and maybe of another one.
Parts(p, o, v, lookup) ==
    /\ p \in Seq(Int) /\ o \in 0..1 /\ (o = 0 <=> lookup = "istartswith")
    /\ Len(p) = IF lookup = "iendswith" THEN o + Len(v) ELSE o + Len(v) + 1
    /\ \A k \in 1..Len(p) : k <= o => p[k] = 0
    /\ \A k \in 1..Len(v) : p[o + k] = v[k]
    /\ lookup # "iendswith" => p[o + Len(v) + 1] = 0

LEMMA TwoParts ==
    ASSUME NEW a \in Seq(Int), NEW b \in Seq(Int), NEW p, p = a \o b
    PROVE  /\ p \in Seq(Int) /\ Len(p) = Len(a) + Len(b)
           /\ \A k \in 1..Len(a) : p[k] = a[k]
           /\ \A k \in 1..Len(b) : p[Len(a) + k] = b[k]
OBVIOUS

LEMMA ThreeParts ==
    ASSUME NEW a \in Seq(Int), NEW v \in Seq(Int), NEW b \in Seq(Int), NEW p, p = a \o v \o b
    PROVE  /\ p \in Seq(Int) /\ Len(p) = Len(a) + Len(v) + Len(b)
           /\ \A k \in 1..Len(a) : p[k] = a[k]
           /\ \A k \in 1..Len(v) : p[Len(a) + k] = v[k]
           /\ \A k \in 1..Len(b) : p[Len(a) + Len(v) + k] = b[k]
<1>1. PICK w : w = a \o v
  OBVIOUS
<1>2. /\ w \in Seq(Int) /\ Len(w) = Len(a) + Len(v)
      /\ \A k \in 1..Len(a) : w[k] = a[k]
      /\ \A k \in 1..Len(v) : w[Len(a) + k] = v[k]
  BY <1>1, TwoParts
<1>3. p = w \o b
  BY <1>1
<1>4. /\ p \in Seq(Int) /\ Len(p) = Len(w) + Len(b)
      /\ \A k \in 1..Len(w) : p[k] = w[k]
      /\ \A k \in 1..Len(b) : p[Len(w) + k] = b[k]
  <2>1. w \in Seq(Int)
    BY <1>2
  <2>. QED BY ONLY <2>1, <1>3, b \in Seq(Int), TwoParts
<1>5. Len(a) \in Nat /\ Len(v) \in Nat /\ Len(b) \in Nat
  OBVIOUS
<1>6. \A k \in 1..Len(a) : k \in 1..Len(w)
  BY <1>2, <1>5
<1>7. \A k \in 1..Len(v) : Len(a) + k \in 1..Len(w)
  BY <1>2, <1>5
<1>. QED BY <1>2, <1>4, <1>5, <1>6, <1>7

LEMMA PatternIs ==
    ASSUME NEW v \in Seq(Int), NEW lookup \in TextLookups
    PROVE  Parts(Filters!Pattern(lookup, v), IF lookup = "istartswith" THEN 0 ELSE 1, v, lookup)
<1>. DEFINE p == Filters!Pattern(lookup, v)
<1>1. <<>> \in Seq(Int) /\ Len(<<>>) = 0 /\ <<0>> \in Seq(Int) /\ Len(<<0>>) = 1 /\ <<0>>[1] = 0 /\ Len(v) \in Nat
  OBVIOUS
<1>2. CASE lookup = "istartswith"
  <2>1. p = <<>> \o v \o <<0>>
    BY <1>2 DEF Filters!Pattern, Filters!Wild
  <2>. HIDE DEF p
  <2>2. /\ p \in Seq(Int) /\ Len(p) = Len(<<>>) + Len(v) + Len(<<0>>)
        /\ \A k \in 1..Len(v) : p[Len(<<>>) + k] = v[k]
        /\ \A k \in 1..Len(<<0>>) : p[Len(<<>>) + Len(v) + k] = <<0>>[k]
    BY <2>1, <1>1, ThreeParts
  <2>3. Len(p) = Len(v) + 1 /\ (\A k \in 1..Len(v) : p[0 + k] = v[k]) /\ p[0 + Len(v) + 1] = 0
    BY <2>2, <1>1
  <2>4. Parts(p, 0, v, lookup)
    BY <2>2, <2>3, <1>1, <1>2 DEF Parts
  <2>. QED BY <2>4, <1>2 DEF p
<1>3. CASE lookup = "iendswith"
  <2>1. p = <<0>> \o v \o <<>>
    BY <1>3 DEF Filters!Pattern, Filters!Wild
  <2>. HIDE DEF p
  <2>2. /\ p \in Seq(Int) /\ Len(p) = Len(<<0>>) + Len(v) + Len(<<>>)
        /\ \A k \in 1..Len(<<0>>) : p[k] = <<0>>[k]
        /\ \A k \in 1..Len(v) : p[Len(<<0>>) + k] = v[k]
    BY <2>1, <1>1, ThreeParts
  <2>3. Len(p) = 1 + Len(v) /\ (\A k \in 1..Len(v) : p[1 + k] = v[k]) /\ p[1] = 0
    BY <2>2, <1>1
  <2>4. Parts(p, 1, v, lookup)
    BY <2>2, <2>3, <1>1, <1>3 DEF Parts
  <2>. QED BY <2>4, <1>3 DEF p
<1>4. CASE lookup = "icontains"
  <2>1. p = <<0>> \o v \o <<0>>
    BY <1>4 DEF Filters!Pattern, Filters!Wild
  <2>. HIDE DEF p
  <2>2. /\ p \in Seq(Int) /\ Len(p) = Len(<<0>>) + Len(v) + Len(<<0>>)
        /\ \A k \in 1..Len(<<0>>) : p[k] = <<0>>[k]
        /\ \A k \in 1..Len(v) : p[Len(<<0>>) + k] = v[k]
        /\ \A k \in 1..Len(<<0>>) : p[Len(<<0>>) + Len(v) + k] = <<0>>[k]
    BY <2>1, <1>1, ThreeParts
  <2>3. Len(p) = 1 + Len(v) + 1 /\ (\A k \in 1..Len(v) : p[1 + k] = v[k]) /\ p[1] = 0 /\ p[1 + Len(v) + 1] = 0
    BY <2>2, <1>1
  <2>4. Parts(p, 1, v, lookup)
    BY <2>2, <2>3, <1>1, <1>4 DEF Parts
  <2>. QED BY <2>4, <1>4 DEF p
<1>. QED BY <1>2, <1>3, <1>4 DEF TextLookups

LEMMA LikeOccurs ==
    ASSUME NEW s \in Seq(Int), NEW v \in Seq(Int), \A k \in 1..Len(v) : v[k] # 0, NEW lookup \in TextLookups,
           Filters!SqlLike(s, Filters!Pattern(lookup, v))
    PROVE  \E i : Occurs(s, v, i, lookup # "istartswith", lookup # "iendswith")
<1>. DEFINE p == Filters!Pattern(lookup, v)
            o == IF lookup = "istartswith" THEN 0 ELSE 1
            n == Len(v)
            m == Len(s)
<1>1. Parts(p, o, v, lookup)
  BY PatternIs
<1>. USE DEF Parts
<1>2. PICK at \in [1..(Len(p) + 1) -> 0..m] :
        /\ at[1] = 0 /\ at[Len(p) + 1] = m
        /\ \A k \in 1..Len(p) : IF p[k] = 0 THEN at[k] <= at[k + 1] ELSE at[k + 1] = at[k] + 1 /\ s[at[k + 1]] = p[k]
  BY DEF Filters!SqlLike, Filters!Wild
<1>3. n \in Nat /\ m \in Nat /\ Len(p) \in Nat /\ (lookup = "istartswith" <=> o = 0)
  BY <1>1
<1>. HIDE DEF p, o
<1>. DEFINE i == at[o + 1]
<1>4. i \in 0..m
  <2>1. o + 1 \in 1..(Len(p) + 1)
    BY <1>1, <1>3
  <2>. QED BY <2>1, <1>2
<1>5. ASSUME NEW k \in 1..n
      PROVE  o + k \in 1..Len(p) /\ at[o + k + 1] = at[o + k] + 1 /\ s[at[o + k + 1]] = v[k]
  <2>1. o + k \in 1..Len(p)
    BY <1>1, <1>3
  <2>2. p[o + k] = v[k] /\ v[k] # 0
    BY <1>1
  <2>. QED BY <2>1, <2>2, <1>2
<1>. DEFINE T == {k \in 0..n : at[o + k + 1] # i + k}
<1>6. T = {}
  <2>. SUFFICES ASSUME T # {} PROVE FALSE
    OBVIOUS
  <2>1. PICK k \in T : \A l \in T : k <= l
    <3>1. T \subseteq Nat
      OBVIOUS
    <3>. HIDE DEF T
    <3>. QED BY <3>1, LeastNatural
  <2>2. k # 0
    <3>1. at[o + 0 + 1] = i + 0
      BY <1>1, <1>4
    <3>. QED BY <3>1, <2>1
  <2>3. k \in 1..n /\ k - 1 \in 0..n /\ k - 1 \notin T
    BY <2>1, <2>2
  <2>4. at[o + (k - 1) + 1] = i + (k - 1)
    BY <2>3
  <2>5. o + (k - 1) + 1 = o + k
    BY <2>3, <1>1
  <2>. QED BY <2>1, <2>3, <2>4, <2>5, <1>4, <1>5
<1>7. \A k \in 0..n : at[o + k + 1] = i + k
  BY <1>6
<1>8. ASSUME NEW k \in 1..n PROVE s[i + k] = v[k]
  <2>1. at[o + k + 1] = i + k
    BY <1>7
  <2>. QED BY <2>1, <1>5
<1>9. at[o + n + 1] = i + n
  BY <1>3, <1>7
<1>10. i + n <= m
  <2>1. o + n + 1 \in 1..(Len(p) + 1)
    BY <1>1, <1>3
  <2>2. at[o + n + 1] \in 0..m
    BY <2>1, <1>2
  <2>. QED BY <2>2, <1>3, <1>4, <1>9
<1>11. o = 0 => i = 0
  BY <1>2
<1>12. lookup = "iendswith" => i + n = m
  BY <1>1, <1>2, <1>9
<1>. HIDE DEF i
<1>13. Occurs(s, v, i, lookup # "istartswith", lookup # "iendswith")
  BY <1>3, <1>4, <1>8, <1>10, <1>11, <1>12 DEF Occurs
<1>. QED BY <1>13

LEMMA OccursLike ==
    ASSUME NEW s \in Seq(Int), NEW v \in Seq(Int), \A k \in 1..Len(v) : v[k] # 0, NEW lookup \in TextLookups,
           NEW i, Occurs(s, v, i, lookup # "istartswith", lookup # "iendswith")
    PROVE  Filters!SqlLike(s, Filters!Pattern(lookup, v))
<1>. DEFINE p == Filters!Pattern(lookup, v)
            o == IF lookup = "istartswith" THEN 0 ELSE 1
            n == Len(v)
            m == Len(s)
<1>1. Parts(p, o, v, lookup)
  BY PatternIs
<1>. USE DEF Parts
<1>2. n \in Nat /\ m \in Nat /\ Len(p) \in Nat /\ (lookup = "istartswith" <=> o = 0)
  BY <1>1
<1>3. /\ i \in Int /\ 0 <= i /\ i + n <= m
      /\ \A k \in 1..n : s[i + k] = v[k]
      /\ (o = 0 => i = 0) /\ (lookup = "iendswith" => i + n = m)
  BY <1>2 DEF Occurs
<1>. HIDE DEF p, o
<1>. DEFINE place(k) == IF k <= o THEN 0 ELSE IF k <= o + n + 1 THEN i + (k - o - 1) ELSE m
            at == [k \in 1..(Len(p) + 1) |-> place(k)]
<1>4. ASSUME NEW k \in 1..(Len(p) + 1) PROVE place(k) \in 0..m
  <2>1. CASE k <= o
    BY <2>1, <1>2
  <2>2. CASE k > o /\ k <= o + n + 1
    BY <2>2, <1>1, <1>2, <1>3
  <2>3. CASE k > o + n + 1
    BY <2>3, <1>1, <1>2
  <2>. QED BY <2>1, <2>2, <2>3, <1>1, <1>2
<1>5. at \in [1..(Len(p) + 1) -> 0..m]
  BY <1>4
<1>6. place(1) = 0
  BY <1>1, <1>2, <1>3
<1>7. place(Len(p) + 1) = m
  <2>1. CASE lookup = "iendswith"
    BY <2>1, <1>1, <1>2, <1>3
  <2>2. CASE lookup # "iendswith"
    BY <2>2, <1>1, <1>2
  <2>. QED BY <2>1, <2>2
<1>8. ASSUME NEW k \in 1..Len(p)
      PROVE  IF p[k] = 0 THEN place(k) <= place(k + 1) ELSE place(k + 1) = place(k) + 1 /\ s[place(k + 1)] = p[k]
  <2>1. CASE k <= o
    <3>1. p[k] = 0 /\ place(k) = 0
      BY <2>1, <1>1
    <3>2. place(k + 1) \in 0..m
      BY <1>2, <1>4
    <3>. QED BY <3>1, <3>2
  <2>2. CASE k > o /\ k <= o + n
    <3>1. k - o \in 1..n /\ k = o + (k - o)
      BY <2>2, <1>1, <1>2
    <3>2. p[k] = v[k - o] /\ v[k - o] # 0 /\ s[i + (k - o)] = v[k - o]
      BY <3>1, <1>1, <1>3
    <3>3. place(k) = i + (k - o - 1) /\ place(k + 1) = i + ((k + 1) - o - 1)
      BY <2>2, <1>1, <1>2
    <3>. HIDE DEF place
    <3>4. i \in Int /\ o \in Int /\ k \in Int
      BY <1>1, <1>3
    <3>6. place(k + 1) = i + (k - o) /\ place(k + 1) = place(k) + 1
      BY <3>3, <3>4
    <3>5. s[place(k + 1)] = p[k] /\ p[k] # 0
      BY <3>2, <3>6
    <3>. QED BY <3>6, <3>5
  <2>3. CASE k > o + n
    <3>1. lookup # "iendswith" /\ k = o + n + 1 /\ Len(p) = o + n + 1
      BY <2>3, <1>1, <1>2
    <3>2. p[k] = 0
      BY <3>1, <1>1
    <3>3. place(k) = i + n /\ place(k + 1) = m
      BY <3>1, <1>1, <1>2
    <3>. QED BY <3>2, <3>3, <1>3
  <2>. QED BY <2>1, <2>2, <2>3, <1>1, <1>2
<1>. HIDE DEF place
<1>9. at[1] = 0 /\ at[Len(p) + 1] = m
  BY <1>2, <1>6, <1>7
<1>10. ASSUME NEW k \in 1..Len(p)
       PROVE  IF p[k] = 0 THEN at[k] <= at[k + 1] ELSE at[k + 1] = at[k] + 1 /\ s[at[k + 1]] = p[k]
  <2>1. at[k] = place(k) /\ at[k + 1] = place(k + 1)
    BY <1>2
  <2>. QED BY <2>1, <1>8
<1>. HIDE DEF at
<1>11. Filters!SqlLike(s, p)
  BY <1>5, <1>9, <1>10 DEF Filters!SqlLike, Filters!Wild
<1>. QED BY <1>11 DEF p

\* A piece of a text as long as v is v, or has another character somewhere.
LEMMA PieceIs ==
    ASSUME NEW s \in Seq(Int), NEW v \in Seq(Int), NEW i \in Int, 0 <= i, i + Len(v) <= Len(s)
    PROVE  SubSeq(s, i + 1, i + Len(v)) = v <=> \A k \in 1..Len(v) : s[i + k] = v[k]
<1>. DEFINE n == Len(v)
            t == SubSeq(s, i + 1, i + n)
<1>1. n \in Nat /\ Len(s) \in Nat
  OBVIOUS
<1>2. \A k \in (i + 1)..(i + n) : s[k] \in Int
  <2>. SUFFICES ASSUME NEW k \in (i + 1)..(i + n) PROVE s[k] \in Int
    OBVIOUS
  <2>1. k \in 1..Len(s)
    BY <1>1
  <2>. QED BY <2>1
<1>3. /\ t \in Seq(Int)
      /\ Len(t) = IF i + 1 <= i + n THEN (i + n) - (i + 1) + 1 ELSE 0
      /\ \A k \in 1..((i + n) - (i + 1) + 1) : t[k] = s[(i + 1) + k - 1]
  <2>1. i + 1 \in Int /\ i + n \in Int
    BY <1>1
  <2>. QED BY <2>1, <1>2, SubSeqProperties
<1>. HIDE DEF t
<1>4. Len(t) = n
  BY <1>1, <1>3
<1>5. \A k \in 1..n : t[k] = s[i + k]
  <2>. SUFFICES ASSUME NEW k \in 1..n PROVE t[k] = s[i + k]
    OBVIOUS
  <2>1. k \in 1..((i + n) - (i + 1) + 1) /\ (i + 1) + k - 1 = i + k
    BY <1>1
  <2>. QED BY <2>1, <1>3
<1>6. (\A k \in 1..n : s[i + k] = v[k]) => t = v
  BY <1>3, <1>4, <1>5, SeqEqual
<1>. QED BY <1>5, <1>6 DEF t

\* What get_regex_from_ilike takes a pattern apart into.
WordIn(s, word, open, loose) ==
    \E i \in 0..(Len(s) - Len(word)) :
        /\ SubSeq(s, i + 1, i + Len(word)) = word
        /\ open \/ i = 0
        /\ loose \/ i + Len(word) = Len(s)

LEMMA WordOccurs ==
    ASSUME NEW s \in Seq(Int), NEW v \in Seq(Int), NEW open \in BOOLEAN, NEW loose \in BOOLEAN
    PROVE  WordIn(s, v, open, loose) <=> \E i : Occurs(s, v, i, open, loose)
<1>1. Len(v) \in Nat /\ Len(s) \in Nat
  OBVIOUS
<1>2. ASSUME NEW i \in 0..(Len(s) - Len(v)), SubSeq(s, i + 1, i + Len(v)) = v, open \/ i = 0, loose \/ i + Len(v) = Len(s)
      PROVE  Occurs(s, v, i, open, loose)
  <2>1. i \in Int /\ 0 <= i /\ i + Len(v) <= Len(s)
    BY <1>1, <1>2
  <2>2. \A k \in 1..Len(v) : s[i + k] = v[k]
    BY <2>1, <1>2, PieceIs
  <2>. QED BY <2>1, <2>2, <1>2 DEF Occurs
<1>3. ASSUME NEW i, Occurs(s, v, i, open, loose) PROVE WordIn(s, v, open, loose)
  <2>1. /\ i \in Int /\ 0 <= i /\ i + Len(v) <= Len(s)
        /\ \A k \in 1..Len(v) : s[i + k] = v[k]
        /\ open \/ i = 0
        /\ loose \/ i + Len(v) = Len(s)
    BY <1>3 DEF Occurs
  <2>2. SubSeq(s, i + 1, i + Len(v)) = v
    BY <2>1, PieceIs
  <2>3. i \in 0..(Len(s) - Len(v))
    BY <2>1, <1>1
  <2>. QED BY <2>1, <2>2, <2>3 DEF WordIn
<1>. QED BY <1>2, <1>3 DEF WordIn

LEMMA MongoWord ==
    ASSUME NEW s, NEW p, NEW open \in BOOLEAN, NEW loose \in BOOLEAN, NEW rest, NEW word,
           open <=> p # <<>> /\ p[1] = 0,
           rest = IF open THEN Tail(p) ELSE p,
           loose <=> rest # <<>> /\ rest[Len(rest)] = 0,
           word = IF loose THEN SubSeq(rest, 1, Len(rest) - 1) ELSE rest
    PROVE  Filters!MongoLike(s, p) <=> WordIn(s, word, open, loose)
BY DEF Filters!MongoLike, Filters!Wild, WordIn

LEMMA MongoOccurs ==
    ASSUME NEW s \in Seq(Int), NEW v \in Seq(Int), \A k \in 1..Len(v) : v[k] # 0, NEW lookup \in TextLookups
    PROVE  Filters!MongoLike(s, Filters!Pattern(lookup, v))
             <=> \E i : Occurs(s, v, i, lookup # "istartswith", lookup # "iendswith")
<1>. DEFINE p == Filters!Pattern(lookup, v)
            o == IF lookup = "istartswith" THEN 0 ELSE 1
            n == Len(v)
            open == lookup # "istartswith"
            loose == lookup # "iendswith"
<1>1. Parts(p, o, v, lookup)
  BY PatternIs
<1>2. n \in Nat /\ Len(s) \in Nat /\ Len(p) \in Nat /\ (o = IF open THEN 1 ELSE 0) /\ open \in BOOLEAN /\ loose \in BOOLEAN
  BY <1>1 DEF Parts
<1>3. /\ p \in Seq(Int)
      /\ Len(p) = IF loose THEN o + n + 1 ELSE o + n
      /\ open => p[1] = 0
      /\ \A k \in 1..n : p[o + k] = v[k]
      /\ loose => p[o + n + 1] = 0
  BY <1>1, <1>2 DEF Parts
<1>. HIDE DEF p, o
<1>4. CASE ~open /\ n = 0
  <2>1. loose
    BY <1>4
  <2>2. Len(p) = 1 /\ p # <<>> /\ p[1] = 0
    BY <2>1, <1>2, <1>3, <1>4
  <2>3. PICK rest : rest = Tail(p)
    OBVIOUS
  <2>4. rest = <<>>
    <3>1. rest \in Seq(Int) /\ Len(rest) = 0
      BY <2>2, <2>3, <1>3, HeadTailProperties
    <3>. QED BY <3>1
  <2>5. Filters!MongoLike(s, p) <=> WordIn(s, rest, TRUE, FALSE)
    BY <2>2, <2>3, <2>4, MongoWord
  <2>6. v = <<>>
    BY <1>4
  <2>7. Occurs(s, v, Len(s), TRUE, FALSE)
    BY <2>6, <1>2 DEF Occurs
  <2>8. WordIn(s, v, TRUE, FALSE)
    BY <2>7, WordOccurs
  <2>9. Occurs(s, v, 0, FALSE, TRUE)
    BY <2>6, <1>2 DEF Occurs
  <2>. QED BY <2>1, <2>4, <2>5, <2>6, <2>8, <2>9, <1>4 DEF p
<1>5. CASE open \/ n # 0
  <2>1. p # <<>>
    <3>1. Len(p) # 0
      BY <1>2, <1>3, <1>5
    <3>. QED BY <3>1
  <2>2. open <=> p # <<>> /\ p[1] = 0
    <3>1. CASE open
      BY <3>1, <2>1, <1>3
    <3>2. CASE ~open
      <4>1. o = 0 /\ 1 \in 1..n /\ o + 1 = 1
        BY <3>2, <1>2, <1>5
      <4>2. p[1] = v[1] /\ v[1] # 0
        BY <4>1, <1>3
      <4>. QED BY <3>2, <4>2
    <3>. QED BY <3>1, <3>2
  <2>3. PICK rest : rest = IF open THEN Tail(p) ELSE p
    OBVIOUS
  <2>4. /\ rest \in Seq(Int) /\ Len(rest) = Len(p) - o
        /\ \A k \in 1..(Len(p) - o) : rest[k] = p[o + k]
    <3>1. CASE open
      <4>1. rest \in Seq(Int) /\ Len(rest) = Len(p) - 1 /\ \A k \in 1..Len(rest) : rest[k] = p[k + 1]
        BY <3>1, <2>1, <2>3, <1>3, HeadTailProperties
      <4>2. o = 1 /\ Len(p) - o = Len(rest)
        BY <3>1, <4>1, <1>2
      <4>3. \A k \in 1..Len(rest) : k + 1 = o + k
        BY <4>2
      <4>. QED BY <4>1, <4>2, <4>3
    <3>2. CASE ~open
      <4>1. rest = p /\ o = 0 /\ Len(p) - o = Len(p)
        BY <3>2, <2>3, <1>2
      <4>. QED BY <4>1, <1>3
    <3>. QED BY <3>1, <3>2
  <2>5. /\ Len(rest) = IF loose THEN n + 1 ELSE n
        /\ \A k \in 1..n : rest[k] = v[k]
        /\ loose => rest[n + 1] = 0
    <3>0. o \in 0..1
      BY <1>2
    <3>1. /\ o \in 0..1 /\ Len(p) - o = IF loose THEN n + 1 ELSE n
          /\ n <= Len(p) - o /\ Len(p) - o \in Int
      <4>. HIDE DEF loose, open, n
      <4>1. CASE loose
        BY <4>1, <3>0, <1>2, <1>3
      <4>2. CASE ~loose
        BY <4>2, <3>0, <1>2, <1>3
      <4>. QED BY <4>1, <4>2
    <3>2. ASSUME NEW k \in 1..n PROVE rest[k] = v[k]
      <4>1. k \in 1..(Len(p) - o)
        BY <3>1, <1>2
      <4>. QED BY <4>1, <2>4, <1>3
    <3>3. ASSUME loose PROVE rest[n + 1] = 0
      <4>1. n + 1 \in 1..(Len(p) - o) /\ o + (n + 1) = o + n + 1
        BY <3>1, <3>3, <1>2
      <4>. QED BY <4>1, <3>3, <2>4, <1>3
    <3>. QED BY <3>1, <3>2, <3>3, <2>4
  <2>6. loose <=> rest # <<>> /\ rest[Len(rest)] = 0
    <3>1. CASE loose
      <4>1. Len(rest) = n + 1 /\ rest[n + 1] = 0
        BY <3>1, <2>5
      <4>2. rest # <<>>
        BY <4>1, <1>2
      <4>. QED BY <3>1, <4>1, <4>2
    <3>2. CASE ~loose
      <4>1. Len(rest) = n
        BY <3>2, <2>5
      <4>2. CASE n = 0
        BY <4>1, <4>2, <3>2, <2>4
      <4>3. CASE n # 0
        <5>1. n \in 1..n
          BY <4>3, <1>2
        <5>2. rest[n] = v[n] /\ v[n] # 0
          BY <5>1, <2>5
        <5>. QED BY <4>1, <5>2, <3>2
      <4>. QED BY <4>2, <4>3
    <3>. QED BY <3>1, <3>2
  <2>7. PICK word : word = IF loose THEN SubSeq(rest, 1, Len(rest) - 1) ELSE rest
    OBVIOUS
  <2>8. word = v
    <3>1. CASE loose
      <4>1. Len(rest) - 1 = 0 + n /\ 0 + Len(v) <= Len(rest)
        BY <3>1, <2>5, <1>2
      <4>2. word = SubSeq(rest, 0 + 1, 0 + Len(v))
        BY <3>1, <4>1, <2>7
      <4>3. \A k \in 1..Len(v) : rest[0 + k] = v[k]
        BY <2>5
      <4>4. SubSeq(rest, 0 + 1, 0 + Len(v)) = v
        BY <4>1, <4>3, <2>4, PieceIs
      <4>. QED BY <4>2, <4>4
    <3>2. CASE ~loose
      <4>1. word = rest /\ Len(rest) = Len(v)
        BY <3>2, <2>5, <2>7
      <4>. QED BY <4>1, <2>4, <2>5, SeqEqual
    <3>. QED BY <3>1, <3>2
  <2>. HIDE DEF open, loose
  <2>9. Filters!MongoLike(s, p) <=> WordIn(s, word, open, loose)
    BY <2>2, <2>3, <2>6, <2>7, <1>2, MongoWord
  <2>10. WordIn(s, v, open, loose) <=> \E i : Occurs(s, v, i, open, loose)
    BY <1>2, WordOccurs
  <2>. QED BY <2>8, <2>9, <2>10 DEF p, open, loose
<1>. QED BY <1>2, <1>4, <1>5

\* A pattern means the same to both: no wildcard is in the text itself.
LEMMA LikesAgree ==
    ASSUME NEW s \in Seq(Int), NEW v \in Seq(Int), \A k \in 1..Len(v) : v[k] # 0, NEW lookup \in TextLookups
    PROVE  Filters!SqlLike(s, Filters!Pattern(lookup, v)) <=> Filters!MongoLike(s, Filters!Pattern(lookup, v))
<1>1. Filters!SqlLike(s, Filters!Pattern(lookup, v)) => \E i : Occurs(s, v, i, lookup # "istartswith", lookup # "iendswith")
  BY LikeOccurs
<1>2. (\E i : Occurs(s, v, i, lookup # "istartswith", lookup # "iendswith")) => Filters!SqlLike(s, Filters!Pattern(lookup, v))
  BY OccursLike
<1>. QED BY <1>1, <1>2, MongoOccurs

TextKinds == {"text", "select"}
Comparisons == {"gt", "gte", "lt", "lte"}
NullTests == {"isnull", "isempty"}

LEMMA LookupsAre ==
    ASSUME NEW k \in Filters!Kinds
    PROVE  /\ "exact" \in Filters!Modelled(k) /\ Filters!NoLookup \notin Filters!Modelled(k)
           /\ Filters!Modelled(k) \subseteq
                {"exact", "in", "json_icontains"} \cup NullTests \cup TextLookups \cup Comparisons
           /\ \A lookup \in Filters!Modelled(k) : lookup \in TextLookups => k \in TextKinds
<1>0. Filters!NoLookup \notin {"exact", "in", "json_icontains", "isnull", "isempty", "icontains", "istartswith",
                               "iendswith", "gt", "gte", "lt", "lte"}
  BY Zenon DEF Filters!NoLookup
<1>1. CASE k \in {"number", "datetime"}
  <2>1. Filters!Modelled(k) = {"exact", "in", "isnull", "isempty", "gt", "gte", "lt", "lte"}
    BY <1>1 DEF Filters!Modelled, Filters!Lookups
  <2>. QED BY <2>1, <1>0 DEF NullTests, TextLookups, Comparisons
<1>2. CASE k \in TextKinds
  <2>1. Filters!Modelled(k) = {"exact", "in", "isnull", "isempty", "icontains", "istartswith", "iendswith"}
    BY <1>2 DEF Filters!Modelled, Filters!Lookups, TextKinds
  <2>. QED BY <2>1, <1>0, <1>2 DEF NullTests, TextLookups, Comparisons
<1>3. CASE k = "json"
  <2>1. Filters!Modelled(k) = {"exact", "in", "isnull", "isempty", "json_icontains"}
    BY <1>3 DEF Filters!Modelled, Filters!Lookups
  <2>. QED BY <2>1, <1>0 DEF NullTests, TextLookups, Comparisons
<1>4. CASE k \in {"boolean", "binary"}
  <2>1. Filters!Modelled(k) = {"exact", "in", "isnull", "isempty"}
    BY <1>4 DEF Filters!Modelled, Filters!Lookups
  <2>. QED BY <2>1, <1>0 DEF NullTests, TextLookups, Comparisons
<1>. QED BY <1>1, <1>2, <1>3, <1>4 DEF Filters!Kinds, TextKinds

\* A criterion is true or false, but SQL's on an unknown cell.
LEMMA HoldsKnown ==
    ASSUME NEW k \in Filters!Kinds, NEW lookup \in Filters!Modelled(k), NEW c, NEW v
    PROVE  /\ Filters!MongoHolds(k, lookup, c, v) \in BOOLEAN
           /\ c = Null /\ lookup \notin NullTests => Filters!SqlHolds(k, lookup, c, v) = Null
           /\ c # Null \/ lookup \in NullTests => Filters!SqlHolds(k, lookup, c, v) \in BOOLEAN
<1>. DEFINE sql == Filters!SqlHolds(k, lookup, c, v)
            mongo == Filters!MongoHolds(k, lookup, c, v)
<1>1. lookup \in {"exact", "in", "json_icontains"} \cup NullTests \cup TextLookups \cup Comparisons
  BY LookupsAre
<1>2. CASE lookup \in NullTests
  BY <1>2 DEF Filters!SqlHolds, Filters!MongoHolds, NullTests
<1>3. CASE lookup \notin NullTests /\ c = Null
  BY <1>3 DEF Filters!SqlHolds, Filters!MongoHolds, NullTests
<1>4. CASE lookup \notin NullTests /\ c # Null
  <2>1. CASE lookup = "exact"
    <3>1. CASE k = "json"
      BY <1>4, <2>1, <3>1 DEF Filters!SqlHolds, Filters!MongoHolds, NullTests
    <3>2. CASE k # "json"
      BY <1>4, <2>1, <3>2 DEF Filters!SqlHolds, Filters!MongoHolds, NullTests
    <3>. QED BY <3>1, <3>2
  <2>2. CASE lookup = "in"
    <3>1. CASE k = "json"
      BY <1>4, <2>2, <3>1 DEF Filters!SqlHolds, Filters!MongoHolds, NullTests
    <3>2. CASE k # "json"
      BY <1>4, <2>2, <3>2 DEF Filters!SqlHolds, Filters!MongoHolds, NullTests
    <3>. QED BY <3>1, <3>2
  <2>3. CASE lookup = "json_icontains"
    BY <1>4, <2>3 DEF Filters!SqlHolds, Filters!MongoHolds, NullTests
  <2>4. CASE lookup \in TextLookups
    <3>1. sql = Filters!SqlLike(c, Filters!Pattern(lookup, v)) /\ mongo = Filters!MongoLike(c, Filters!Pattern(lookup, v))
      BY <1>4, <2>4 DEF Filters!SqlHolds, Filters!MongoHolds, NullTests, TextLookups
    <3>2. \A s, p : Filters!SqlLike(s, p) \in BOOLEAN /\ Filters!MongoLike(s, p) \in BOOLEAN
      BY DEF Filters!SqlLike, Filters!MongoLike
    <3>. QED BY <1>4, <3>1, <3>2
  <2>5. CASE lookup \in Comparisons
    <3>1. sql = Filters!Compares(lookup, c, v) /\ mongo = Filters!Compares(lookup, c, v)
      BY <1>4, <2>5 DEF Filters!SqlHolds, Filters!MongoHolds, NullTests, Comparisons
    <3>2. Filters!Compares(lookup, c, v) \in BOOLEAN
      <4>1. CASE lookup = "gt"
        BY <4>1 DEF Filters!Compares
      <4>2. CASE lookup = "gte"
        BY <4>2 DEF Filters!Compares
      <4>3. CASE lookup = "lt"
        BY <4>3 DEF Filters!Compares
      <4>4. CASE lookup = "lte"
        BY <4>4 DEF Filters!Compares
      <4>. QED BY <2>5, <4>1, <4>2, <4>3, <4>4 DEF Comparisons
    <3>. QED BY <1>4, <3>1, <3>2
  <2>. QED BY <2>1, <2>2, <2>3, <2>4, <2>5, <1>1, <1>4
<1>. QED BY <1>2, <1>3, <1>4

\* The two databases agree on a known cell, but for the cases that EnginesAgree names.
Comparable(k, lookup, c, v) ==
    /\ c # Null /\ lookup # "json_icontains"
    /\ lookup = "isempty" /\ k \in TextKinds => c # <<>>
    /\ lookup \in TextLookups => c \in Seq(Int) /\ v \in Seq(Int) /\ \A n \in 1..Len(v) : v[n] # 0

LEMMA HoldAlike ==
    ASSUME NEW k \in Filters!Kinds, NEW lookup \in Filters!Modelled(k), NEW c, NEW v, Comparable(k, lookup, c, v)
    PROVE  Filters!SqlHolds(k, lookup, c, v) = Filters!MongoHolds(k, lookup, c, v)
<1>1. lookup \in {"exact", "in", "json_icontains"} \cup NullTests \cup TextLookups \cup Comparisons
  BY LookupsAre
<1>2. CASE lookup = "isnull"
  BY <1>2 DEF Filters!SqlHolds, Filters!MongoHolds
<1>3. CASE lookup = "isempty"
  <2>1. (c = Null \/ (k \in {"text", "select"} /\ c = <<>>)) = (c = Null)
    BY <1>3 DEF Comparable, TextKinds
  <2>2. /\ Filters!SqlHolds(k, lookup, c, v) = (v = (c = Null \/ (k \in {"text", "select"} /\ c = <<>>)))
        /\ Filters!MongoHolds(k, lookup, c, v) = (v = (c = Null))
    BY <1>3 DEF Filters!SqlHolds, Filters!MongoHolds
  <2>. QED BY <2>1, <2>2
<1>4. CASE lookup \in {"exact", "in"} \cup Comparisons
  <2>1. lookup \notin NullTests /\ lookup \notin TextLookups /\ lookup # "json_icontains" /\ c # Null
    BY <1>4 DEF NullTests, TextLookups, Comparisons, Comparable
  <2>2. CASE lookup = "exact"
    BY <2>1, <2>2 DEF Filters!SqlHolds, Filters!MongoHolds
  <2>3. CASE lookup = "in"
    BY <2>1, <2>3 DEF Filters!SqlHolds, Filters!MongoHolds
  <2>4. CASE lookup \in Comparisons
    BY <2>1, <2>4 DEF Filters!SqlHolds, Filters!MongoHolds, Comparisons
  <2>. QED BY <1>4, <2>2, <2>3, <2>4
<1>5. CASE lookup \in TextLookups
  <2>1. /\ Filters!SqlHolds(k, lookup, c, v) = Filters!SqlLike(c, Filters!Pattern(lookup, v))
        /\ Filters!MongoHolds(k, lookup, c, v) = Filters!MongoLike(c, Filters!Pattern(lookup, v))
    BY <1>5 DEF Filters!SqlHolds, Filters!MongoHolds, Comparable, TextLookups
  <2>2. Filters!SqlLike(c, Filters!Pattern(lookup, v)) <=> Filters!MongoLike(c, Filters!Pattern(lookup, v))
    BY <1>5, LikesAgree DEF Comparable
  <2>3. Filters!SqlHolds(k, lookup, c, v) \in BOOLEAN /\ Filters!MongoHolds(k, lookup, c, v) \in BOOLEAN
    BY HoldsKnown DEF Comparable
  <2>. QED BY <2>1, <2>2, <2>3
<1>. QED BY <1>1, <1>2, <1>3, <1>4, <1>5 DEF Comparable, NullTests

LEMMA KeepAlike ==
    ASSUME NEW k \in Filters!Kinds, NEW lookup \in Filters!Modelled(k), NEW c, NEW v, Comparable(k, lookup, c, v),
           NEW exclude \in BOOLEAN
    PROVE  Filters!Keeps("sql", k, lookup, exclude, c, v) <=> Filters!Keeps("mongo", k, lookup, exclude, c, v)
<1>. DEFINE sql == Filters!SqlHolds(k, lookup, c, v)
            mongo == Filters!MongoHolds(k, lookup, c, v)
<1>1. sql = mongo
  BY HoldAlike
<1>2. mongo \in BOOLEAN
  BY HoldsKnown
<1>3. /\ Filters!Keeps("sql", k, lookup, exclude, c, v) <=> sql = ~exclude
      /\ Filters!Keeps("mongo", k, lookup, exclude, c, v) <=> mongo # exclude
  BY DEF Filters!Keeps
<1>. HIDE DEF sql, mongo
<1>4. mongo = ~exclude <=> mongo # exclude
  BY <1>2
<1>. QED BY <1>1, <1>3, <1>4

\* A lookup and its exclusion: neither on SQL's unknown cells, one of the two elsewhere.
LEMMA KeepTwins ==
    ASSUME NEW k \in Filters!Kinds, NEW lookup \in Filters!Modelled(k), NEW c, NEW v, NEW e \in Filters!Engines,
           Null \notin BOOLEAN
    PROVE  LET keeps(exclude) == Filters!Keeps(e, k, lookup, exclude, c, v)
           IN  /\ ~(keeps(TRUE) /\ keeps(FALSE))
               /\ ~(keeps(TRUE) \/ keeps(FALSE)) <=> e = "sql" /\ c = Null /\ lookup \notin NullTests
<1>. DEFINE keeps(exclude) == Filters!Keeps(e, k, lookup, exclude, c, v)
            sql == Filters!SqlHolds(k, lookup, c, v)
            mongo == Filters!MongoHolds(k, lookup, c, v)
<1>1. /\ mongo \in BOOLEAN
      /\ c = Null /\ lookup \notin NullTests => sql = Null
      /\ c # Null \/ lookup \in NullTests => sql \in BOOLEAN
  BY HoldsKnown
<1>2. CASE e = "mongo"
  <2>1. (keeps(TRUE) <=> mongo # TRUE) /\ (keeps(FALSE) <=> mongo # FALSE)
    BY <1>2 DEF Filters!Keeps
  <2>2. e # "sql"
    BY <1>2
  <2>. HIDE DEF keeps, mongo
  <2>3. /\ ~(keeps(TRUE) /\ keeps(FALSE)) /\ (keeps(TRUE) \/ keeps(FALSE))
    BY <1>1, <2>1
  <2>. QED BY <2>2, <2>3 DEF keeps
<1>3. CASE e = "sql"
  <2>1. (keeps(TRUE) <=> sql = ~TRUE) /\ (keeps(FALSE) <=> sql = ~FALSE)
    BY <1>3 DEF Filters!Keeps
  <2>. HIDE DEF keeps, sql
  <2>2. (keeps(TRUE) <=> sql = FALSE) /\ (keeps(FALSE) <=> sql = TRUE)
    BY <2>1
  <2>3. CASE c = Null /\ lookup \notin NullTests
    <3>1. sql # TRUE /\ sql # FALSE
      BY <2>3, <1>1
    <3>. QED BY <3>1, <2>2, <2>3, <1>3 DEF keeps
  <2>4. CASE ~(c = Null /\ lookup \notin NullTests)
    <3>1. sql \in BOOLEAN
      BY <2>4, <1>1
    <3>2. ~(keeps(TRUE) /\ keeps(FALSE)) /\ (keeps(TRUE) \/ keeps(FALSE))
      BY <3>1, <2>2
    <3>. QED BY <3>2, <2>4 DEF keeps
  <2>. QED BY <2>3, <2>4
<1>. QED BY <1>2, <1>3 DEF Filters!Engines

\* What a request gives for each name are strings that it may be given.
FiltersInv ==
    /\ kind \in Filters!Kinds /\ cell \in CellsOf(kind)
    /\ DOMAIN arguments = Filters!Names(kind)
    /\ \A name \in Filters!Names(kind) : arguments[name] \in Seq(ArgumentsOf(kind, name[1]))

LEMMA NamesAre ==
    ASSUME FiltersInv, NEW name \in Filters!Names(kind)
    PROVE  /\ Filters!LookupOf(name) \in Filters!Modelled(kind)
           /\ name[1] \in Filters!Modelled(kind) \cup {Filters!NoLookup}
           /\ name[2] \in BOOLEAN
           /\ Filters!LookupOf(name) = "in" <=> name[1] = "in"
           /\ Filters!LookupOf(name) \in NullTests <=> name[1] \in NullTests
<1>1. PICK lookup \in Filters!Modelled(kind) \cup {Filters!NoLookup}, exclude \in BOOLEAN : name = <<lookup, exclude>>
  BY DEF Filters!Names
<1>2. name[1] = lookup /\ name[2] = exclude
  BY <1>1
<1>3. "exact" \in Filters!Modelled(kind) /\ kind \in Filters!Kinds
  BY LookupsAre DEF FiltersInv
<1>4. Filters!NoLookup # "in" /\ Filters!NoLookup \notin {"isnull", "isempty"}
  BY Zenon DEF Filters!NoLookup
<1>. QED BY <1>2, <1>3, <1>4 DEF Filters!LookupOf, NullTests

LEMMA TwinsFollow == ASSUME FiltersAssumption, FiltersInv PROVE Filters!FilterTwins
<1>. SUFFICES ASSUME NEW name \in Filters!Names(kind), NEW e \in Filters!Engines
     PROVE  LET lookup == Filters!LookupOf(name)
                keeps(exclude) == Filters!Keeps(e, kind, lookup, exclude, cell, Filters!Value(lookup, arguments[name]))
            IN  /\ ~(keeps(TRUE) /\ keeps(FALSE))
                /\ ~(keeps(TRUE) \/ keeps(FALSE)) <=> e = "sql" /\ cell = Null /\ ~Filters!TestsNull(lookup)
  BY DEF Filters!FilterTwins
<1>1. kind \in Filters!Kinds /\ Filters!LookupOf(name) \in Filters!Modelled(kind)
  BY NamesAre DEF FiltersInv
<1>2. Null \notin BOOLEAN
  BY DEF FiltersAssumption
<1>. QED BY <1>1, <1>2, KeepTwins DEF Filters!TestsNull, NullTests

\* What a lookup is given is given for a name of it.
LEMMA ArgumentIs ==
    ASSUME FiltersInv, NEW lookup \in Filters!Modelled(kind), NEW exclude \in BOOLEAN, NEW args
    PROVE  \E name \in Filters!Names(kind) :
                /\ Filters!LookupOf(name) = lookup
                /\ Filters!ArgumentOf(arguments, lookup, exclude) = arguments[name]
                /\ \A other : DOMAIN other = DOMAIN arguments
                        /\ (\A n \in DOMAIN other : other[n] = <<>> <=> arguments[n] = <<>>) =>
                            Filters!ArgumentOf(other, lookup, exclude) = other[name]
<1>. DEFINE long == <<lookup, exclude>>
            bare == <<Filters!NoLookup, exclude>>
<1>1. kind \in Filters!Kinds /\ lookup # Filters!NoLookup /\ long[1] = lookup /\ bare[1] = Filters!NoLookup
  BY LookupsAre DEF FiltersInv
<1>2. long \in Filters!Names(kind) /\ bare \in Filters!Names(kind)
  BY DEF Filters!Names
<1>3. Filters!LookupOf(long) = lookup /\ Filters!LookupOf(bare) = "exact"
  BY <1>1 DEF Filters!LookupOf
<1>4. \A other : Filters!ArgumentOf(other, lookup, exclude) =
                    IF other[long] = <<>> /\ lookup = "exact" THEN other[bare] ELSE other[long]
  BY DEF Filters!ArgumentOf
<1>5. DOMAIN arguments = Filters!Names(kind)
  BY DEF FiltersInv
<1>. HIDE DEF long, bare
<1>6. CASE arguments[long] = <<>> /\ lookup = "exact"
  BY <1>2, <1>3, <1>4, <1>5, <1>6
<1>7. CASE ~(arguments[long] = <<>> /\ lookup = "exact")
  BY <1>2, <1>3, <1>4, <1>5, <1>7
<1>. QED BY <1>6, <1>7

\* A text that does not come by "in" is a string that is not split.
LEMMA TextIs ==
    ASSUME FiltersAssumption, FiltersInv, NEW name \in Filters!Names(kind), kind \in TextKinds,
           Filters!LookupOf(name) \in TextLookups, ~Filters!Empty(arguments[name])
    PROVE  Filters!Value(Filters!LookupOf(name), arguments[name]) \in Seq(Int)
<1>. DEFINE given == arguments[name]
            string == given[1]
            whole == [n \in 0..Len(string) |->
                        CASE n = 0 -> <<>>
                          [] n = 1 -> string[1]
                          [] OTHER -> Filters!Whole(string)]
<1>1. given \in Seq(ArgumentsOf(kind, name[1])) /\ given # <<>>
  BY DEF FiltersInv, Filters!Empty
<1>2. string \in ArgumentsOf(kind, name[1])
  <2>1. Len(given) # 0 /\ Len(given) \in Nat
    BY <1>1
  <2>2. 1 \in 1..Len(given)
    BY <2>1
  <2>. QED BY <2>2, <1>1
<1>3. Filters!LookupOf(name) # "in" /\ name[1] # "in" /\ name[1] \notin NullTests
  BY NamesAre DEF TextLookups, NullTests
<1>4. string \in Seq(Seq(Int)) /\ Len(string) <= 1
  <2>1. PICK lookup : lookup = name[1]
    OBVIOUS
  <2>2. lookup \in Filters!Modelled(kind) \cup {Filters!NoLookup} /\ kind \in Filters!Kinds
    BY <2>1, NamesAre DEF FiltersInv
  <2>3. string \in ArgumentsOf(kind, lookup)
    BY <1>2, <2>1
  <2>4. ~Filters!TestsNull(lookup) /\ lookup # "in" /\ kind \in {"text", "select"}
    BY <2>1, <1>3 DEF Filters!TestsNull, NullTests, TextKinds
  <2>. HIDE DEF string
  <2>. QED BY <2>2, <2>3, <2>4 DEF FiltersAssumption
<1>5. Filters!Value(Filters!LookupOf(name), given) = Filters!Whole(string)
  BY <1>3 DEF Filters!Value
<1>. HIDE DEF given, string
<1>6. CASE Len(string) = 0
  <2>1. Filters!Whole(string) = <<>>
    <3>. DEFINE W(f) == f = [n \in 0..0 |->
                        CASE n = 0 -> <<>>
                          [] n = 1 -> string[1]
                          [] OTHER -> f[n - 1] \o <<Filters!Comma>> \o string[n]]
    <3>1. \E f : W(f)
      <4>1. W([n \in 0..0 |-> <<>>])
        OBVIOUS
      <4>. QED BY <4>1
    <3>2. \A f : W(f) => f[0] = <<>>
      OBVIOUS
    <3>3. (CHOOSE f : W(f))[0] = <<>>
      <4>1. W(CHOOSE f : W(f))
        BY <3>1
      <4>. HIDE DEF W
      <4>. QED BY <4>1, <3>2
    <3>. QED BY <3>3, <1>6 DEF Filters!Whole
  <2>. QED BY <2>1, <1>5 DEF given
<1>7. CASE Len(string) = 1
  <2>1. Filters!Whole(string) = string[1]
    <3>. DEFINE W(f) == f = [n \in 0..1 |->
                        CASE n = 0 -> <<>>
                          [] n = 1 -> string[1]
                          [] OTHER -> f[n - 1] \o <<Filters!Comma>> \o string[n]]
    <3>1. \E f : W(f)
      <4>1. W([n \in 0..1 |-> IF n = 0 THEN <<>> ELSE string[1]])
        OBVIOUS
      <4>. QED BY <4>1
    <3>2. \A f : W(f) => f[1] = string[1]
      OBVIOUS
    <3>3. (CHOOSE f : W(f))[1] = string[1]
      <4>1. W(CHOOSE f : W(f))
        BY <3>1
      <4>. HIDE DEF W
      <4>. QED BY <4>1, <3>2
    <3>. QED BY <3>3, <1>7 DEF Filters!Whole
  <2>2. string[1] \in Seq(Int)
    BY <1>4, <1>7
  <2>. QED BY <2>1, <2>2, <1>5 DEF given
<1>8. Len(string) = 0 \/ Len(string) = 1
  <2>1. \A S : \A t \in Seq(S) : Len(t) \in Nat
    OBVIOUS
  <2>2. PICK S : string \in Seq(S)
    BY <1>4
  <2>3. Len(string) \in Nat
    BY <2>1, <2>2
  <2>4. PICK n : n = Len(string)
    OBVIOUS
  <2>5. n \in Nat /\ n <= 1
    BY <1>4, <2>3, <2>4
  <2>6. n = 0 \/ n = 1
    BY <2>5
  <2>. QED BY <2>4, <2>6
<1>. QED BY <1>6, <1>7, <1>8

LEMMA EnginesFollow == ASSUME FiltersAssumption, FiltersInv PROVE Filters!EnginesAgree
<1>. DEFINE known == /\ cell # Null
                     /\ \A name \in Filters!Names(kind) : ~Filters!Empty(arguments[name]) =>
                         /\ Filters!LookupOf(name) # "json_icontains"
                         /\ Filters!LookupOf(name) = "isempty" /\ kind \in Filters!TextKinds => cell # <<>>
                         /\ Filters!LookupOf(name) \in {"icontains", "istartswith", "iendswith"} =>
                                Filters!Wild \notin Filters!Range(Filters!Value(Filters!LookupOf(name), arguments[name]))
            keeps(engine, lookup, exclude) ==
                LET args == Filters!ArgumentOf(arguments, lookup, exclude) IN
                Filters!Empty(args) \/ Filters!Keeps(engine, kind, lookup, exclude, cell, Filters!Value(lookup, args))
<1>1. ASSUME known, NEW lookup \in Filters!Modelled(kind), NEW exclude \in BOOLEAN
      PROVE  keeps("sql", lookup, exclude) <=> keeps("mongo", lookup, exclude)
  <2>1. PICK name \in Filters!Names(kind) :
            Filters!LookupOf(name) = lookup /\ Filters!ArgumentOf(arguments, lookup, exclude) = arguments[name]
    BY ArgumentIs
  <2>2. SUFFICES ASSUME ~Filters!Empty(arguments[name])
        PROVE  Filters!Keeps("sql", kind, lookup, exclude, cell, Filters!Value(lookup, arguments[name]))
                 <=> Filters!Keeps("mongo", kind, lookup, exclude, cell, Filters!Value(lookup, arguments[name]))
    BY <2>1
  <2>3. PICK v : v = Filters!Value(lookup, arguments[name])
    OBVIOUS
  <2>4. kind \in Filters!Kinds /\ cell \in CellsOf(kind)
    BY DEF FiltersInv
  <2>5. ASSUME lookup \in TextLookups
        PROVE  cell \in Seq(Int) /\ v \in Seq(Int) /\ \A n \in 1..Len(v) : v[n] # 0
    <3>1. kind \in TextKinds
      BY <2>4, <2>5, LookupsAre
    <3>2. cell \in Seq(Int)
      BY <3>1, <2>4, <1>1 DEF FiltersAssumption, TextKinds
    <3>3. v \in Seq(Int)
      BY <2>1, <2>2, <2>3, <2>5, <3>1, TextIs
    <3>4. 0 \notin Filters!Range(v)
      BY <2>1, <2>2, <2>3, <2>5, <1>1 DEF TextLookups, Filters!Wild
    <3>5. \A n \in 1..Len(v) : v[n] # 0
      BY <3>3, <3>4 DEF Filters!Range
    <3>. QED BY <3>2, <3>3, <3>5
  <2>6. lookup # "json_icontains" /\ (lookup = "isempty" /\ kind \in TextKinds => cell # <<>>) /\ cell # Null
    BY <2>1, <2>2, <1>1 DEF TextKinds, Filters!TextKinds
  <2>7. Comparable(kind, lookup, cell, v)
    BY <2>5, <2>6 DEF Comparable
  <2>. QED BY <2>3, <2>4, <2>7, KeepAlike
<1>2. \A engine : Filters!Filtered(engine, kind, arguments, cell)
                    <=> \A lookup \in Filters!Modelled(kind), exclude \in BOOLEAN : keeps(engine, lookup, exclude)
  BY DEF Filters!Filtered
<1>. HIDE DEF keeps
<1>3. known => (Filters!Filtered("sql", kind, arguments, cell) <=> Filters!Filtered("mongo", kind, arguments, cell))
  <2>. SUFFICES ASSUME known
       PROVE  Filters!Filtered("sql", kind, arguments, cell) <=> Filters!Filtered("mongo", kind, arguments, cell)
    OBVIOUS
  <2>1. \A lookup \in Filters!Modelled(kind), exclude \in BOOLEAN : keeps("sql", lookup, exclude) <=> keeps("mongo", lookup, exclude)
    BY <1>1
  <2>. QED BY <1>2, <2>1
<1>. QED BY <1>3 DEF Filters!EnginesAgree

LEMMA SerializerFollows == ASSUME FiltersAssumption, FiltersInv PROVE Filters!SqlSerializerAgrees
<1>. DEFINE first == [name \in DOMAIN arguments |-> Filters!FirstItem(arguments[name])]
            single == \A name \in Filters!Names(kind) :
                        Len(arguments[name]) > 1 => name[1] # "in" /\ arguments[name][1] # <<>>
            keeps(given, lookup, exclude) ==
                LET args == Filters!ArgumentOf(given, lookup, exclude) IN
                Filters!Empty(args) \/ Filters!Keeps("sql", kind, lookup, exclude, cell, Filters!Value(lookup, args))
<1>1. ASSUME single, NEW lookup \in Filters!Modelled(kind), NEW exclude \in BOOLEAN
      PROVE  keeps(arguments, lookup, exclude) <=> keeps(first, lookup, exclude)
  <2>1. DOMAIN first = DOMAIN arguments /\ \A n \in DOMAIN first : first[n] = <<>> <=> arguments[n] = <<>>
    BY DEF Filters!FirstItem
  <2>. HIDE DEF first
  <2>2. PICK name \in Filters!Names(kind) :
            /\ Filters!LookupOf(name) = lookup
            /\ Filters!ArgumentOf(arguments, lookup, exclude) = arguments[name]
            /\ Filters!ArgumentOf(first, lookup, exclude) = first[name]
    BY <2>1, ArgumentIs
  <2>3. PICK args : args = arguments[name]
    OBVIOUS
  <2>4. first[name] = IF args = <<>> THEN <<>> ELSE <<args[1]>>
    BY <2>3 DEF first, FiltersInv, Filters!FirstItem
  <2>5. args \in Seq(ArgumentsOf(kind, name[1])) /\ (Len(args) > 1 => lookup # "in" /\ args[1] # <<>>)
    BY <2>2, <2>3, <1>1, NamesAre DEF FiltersInv
  <2>6. CASE Len(args) <= 1
    <3>1. args = first[name]
      <4>1. CASE args = <<>>
        BY <4>1, <2>4
      <4>2. CASE args # <<>>
        <5>0. PICK S : args \in Seq(S)
          BY <2>5
        <5>1. Len(args) = 1
          <6>1. Len(args) \in Nat /\ Len(args) # 0
            BY <5>0, <4>2
          <6>2. PICK n : n = Len(args)
            OBVIOUS
          <6>3. n \in Nat /\ n # 0 /\ n <= 1
            BY <6>1, <6>2, <2>6
          <6>4. n = 1
            BY <6>3
          <6>. QED BY <6>2, <6>4
        <5>2. args = <<args[1]>>
          BY <5>0, <5>1
        <5>. QED BY <5>2, <4>2, <2>4
      <4>. QED BY <4>1, <4>2
    <3>. QED BY <3>1, <2>2, <2>3
  <2>7. CASE Len(args) > 1
    <3>1. args # <<>> /\ first[name] = <<args[1]>>
      BY <2>4, <2>7
    <3>2. <<args[1]>>[1] = args[1] /\ Len(<<args[1]>>) = 1
      OBVIOUS
    <3>3. ~Filters!Empty(args) /\ ~Filters!Empty(first[name])
      <4>1. Len(<< <<>> >>) = 1 /\ << <<>> >>[1] = <<>>
        OBVIOUS
      <4>. QED BY <4>1, <3>1, <3>2, <2>5, <2>7 DEF Filters!Empty
    <3>4. Filters!Value(lookup, args) = Filters!Value(lookup, first[name])
      BY <3>1, <3>2, <2>5, <2>7 DEF Filters!Value
    <3>. QED BY <3>3, <3>4, <2>2, <2>3
  <2>. QED BY <2>5, <2>6, <2>7
<1>2. \A given : Filters!Filtered("sql", kind, given, cell)
                    <=> \A lookup \in Filters!Modelled(kind), exclude \in BOOLEAN : keeps(given, lookup, exclude)
  BY DEF Filters!Filtered
<1>3. Filters!SqlFiltered(kind, arguments, cell) <=> Filters!Filtered("sql", kind, first, cell)
  BY DEF Filters!SqlFiltered
<1>. HIDE DEF keeps, first
<1>4. single => (Filters!SqlFiltered(kind, arguments, cell) <=> Filters!Filtered("sql", kind, arguments, cell))
  <2>. SUFFICES ASSUME single
       PROVE  Filters!SqlFiltered(kind, arguments, cell) <=> Filters!Filtered("sql", kind, arguments, cell)
    OBVIOUS
  <2>1. \A lookup \in Filters!Modelled(kind), exclude \in BOOLEAN :
            keeps(arguments, lookup, exclude) <=> keeps(first, lookup, exclude)
    BY <1>1
  <2>. QED BY <1>2, <1>3, <2>1
<1>. QED BY <1>4 DEF Filters!SqlSerializerAgrees

\* Both databases find a text in the same cells of a column that both look into.
LEMMA TextsAlike ==
    ASSUME FiltersAssumption, NEW k \in {"number", "text"}, NEW c \in CellsOf(k), NEW v \in SearchTexts,
           0 \notin Filters!Range(v), v \in DOMAIN Numbers => v \in Plain
    PROVE  Filters!HasText("sql", k, c, v) <=> Filters!HasText("mongo", k, c, v)
<1>1. v \in Seq(Int) /\ Null \notin BOOLEAN
  BY DEF FiltersAssumption
<1>2. \A i \in 1..Len(v) : v[i] # 0
  BY <1>1 DEF Filters!Range
<1>3. k \in Filters!Kinds
  BY DEF Filters!Kinds
<1>4. ASSUME NEW lookup \in Filters!Modelled(k), NEW x, lookup \notin NullTests, c = Null \/ Comparable(k, lookup, c, x)
      PROVE  Filters!Keeps("sql", k, lookup, FALSE, c, x) <=> Filters!Keeps("mongo", k, lookup, FALSE, c, x)
  <2>1. CASE Comparable(k, lookup, c, x)
    BY <1>3, <2>1, KeepAlike
  <2>2. CASE c = Null
    <3>1. Filters!SqlHolds(k, lookup, c, x) = Null
      BY <1>3, <1>4, <2>2, HoldsKnown
    <3>2. Filters!MongoHolds(k, lookup, c, x) = FALSE
      BY <2>2, <1>4 DEF Filters!MongoHolds, NullTests
    <3>3. Filters!Keeps("sql", k, lookup, FALSE, c, x) <=> Filters!SqlHolds(k, lookup, c, x) = ~FALSE
      BY DEF Filters!Keeps
    <3>4. Filters!Keeps("mongo", k, lookup, FALSE, c, x) <=> Filters!MongoHolds(k, lookup, c, x) # FALSE
      BY DEF Filters!Keeps
    <3>5. ~Filters!Keeps("sql", k, lookup, FALSE, c, x)
      BY <3>1, <3>3, <1>1
    <3>6. ~Filters!Keeps("mongo", k, lookup, FALSE, c, x)
      BY <3>2, <3>4
    <3>. QED BY <3>5, <3>6
  <2>. QED BY <1>4, <2>1, <2>2
<1>5. CASE k = "number"
  <2>1. "exact" \in Filters!Modelled(k) /\ "exact" \notin NullTests
    BY <1>3, LookupsAre DEF NullTests
  <2>2. c = Null \/ Comparable(k, "exact", c, Numbers[v])
    BY DEF Comparable, TextLookups
  <2>3. v \in Plain <=> v \in DOMAIN Numbers
    BY DEF FiltersAssumption
  <2>4. Filters!Keeps("sql", k, "exact", FALSE, c, Numbers[v]) <=> Filters!Keeps("mongo", k, "exact", FALSE, c, Numbers[v])
    BY <1>4, <2>1, <2>2
  <2>5. /\ Filters!HasText("sql", k, c, v) <=> v \in Plain /\ Filters!Keeps("sql", k, "exact", FALSE, c, Numbers[v])
        /\ Filters!HasText("mongo", k, c, v)
                <=> v \in DOMAIN Numbers /\ Filters!Keeps("mongo", k, "exact", FALSE, c, Numbers[v])
    BY <1>5 DEF Filters!HasText
  <2>. QED BY <2>3, <2>4, <2>5
<1>6. CASE k = "text"
  <2>1. "icontains" \in Filters!Modelled(k) /\ "icontains" \notin NullTests
    BY <1>6 DEF Filters!Modelled, Filters!Lookups, NullTests
  <2>2. c = Null \/ c \in Seq(Int)
    BY <1>6 DEF FiltersAssumption
  <2>3. c = Null \/ Comparable(k, "icontains", c, v)
    BY <2>2, <1>1, <1>2 DEF Comparable
  <2>4. Filters!Keeps("sql", k, "icontains", FALSE, c, v) <=> Filters!Keeps("mongo", k, "icontains", FALSE, c, v)
    BY <1>4, <2>1, <2>3
  <2>5. \A engine : Filters!HasText(engine, k, c, v) <=> Filters!Keeps(engine, k, "icontains", FALSE, c, v)
    BY <1>6 DEF Filters!HasText
  <2>. QED BY <2>4, <2>5
<1>. QED BY <1>5, <1>6

LEMMA SearchesFollow == ASSUME FiltersAssumption, FiltersInv PROVE Filters!SearchesAgree
<1>. SUFFICES ASSUME NEW v \in SearchTexts, NEW other \in Filters!Kinds, NEW c \in CellsOf(other),
                     {kind, other} \cap {"number", "text"} # {}, {kind, other} \cap {"select", "json", "binary"} = {},
                     Filters!Wild \notin Filters!Range(v), v \in DOMAIN Numbers => v \in Plain
     PROVE  Filters!Searched("sql", FALSE, <<kind, other>>, <<cell, c>>, v)
              <=> Filters!Searched("mongo", FALSE, <<kind, other>>, <<cell, c>>, v)
  BY DEF Filters!SearchesAgree
<1>. DEFINE both == {"number", "text"}
            kinds == <<kind, other>>
            cells == <<cell, c>>
            columns == {i \in DOMAIN kinds : kinds[i] \in both}
<1>1. DOMAIN kinds = {1, 2} /\ kinds[1] = kind /\ kinds[2] = other /\ cells[1] = cell /\ cells[2] = c
  OBVIOUS
<1>2. kind \in Filters!Kinds /\ cell \in CellsOf(kind)
  BY DEF FiltersInv
<1>3. \A i \in {1, 2} : /\ kinds[i] \notin {"select", "json", "binary"} /\ cells[i] \in CellsOf(kinds[i])
  BY <1>1, <1>2
<1>4. columns # {}
  BY <1>1
<1>. HIDE DEF kinds, cells
<1>5. ASSUME NEW engine \in {"sql", "mongo"}
      PROVE  Filters!Searched(engine, FALSE, kinds, cells, v) <=> \E i \in columns : Filters!HasText(engine, kinds[i], cells[i], v)
  <2>1. {i \in DOMAIN kinds : kinds[i] \in Filters!Searchable(engine)} = columns
    BY <1>1, <1>3 DEF Filters!Searchable
  <2>. HIDE DEF columns
  <2>. QED BY <2>1, <1>4 DEF Filters!Searched
<1>6. \A i \in columns : Filters!HasText("sql", kinds[i], cells[i], v) <=> Filters!HasText("mongo", kinds[i], cells[i], v)
  <2>. SUFFICES ASSUME NEW i \in columns
       PROVE  Filters!HasText("sql", kinds[i], cells[i], v) <=> Filters!HasText("mongo", kinds[i], cells[i], v)
    OBVIOUS
  <2>1. kinds[i] \in {"number", "text"} /\ cells[i] \in CellsOf(kinds[i])
    BY <1>1, <1>3
  <2>2. 0 \notin Filters!Range(v)
    BY DEF Filters!Wild
  <2>3. PICK k : k = kinds[i]
    OBVIOUS
  <2>4. k \in {"number", "text"} /\ cells[i] \in CellsOf(k)
    BY <2>1, <2>3
  <2>5. Filters!HasText("sql", k, cells[i], v) <=> Filters!HasText("mongo", k, cells[i], v)
    BY <2>2, <2>4, TextsAlike
  <2>. QED BY <2>3, <2>5
<1>7. Filters!Searched("sql", FALSE, kinds, cells, v) <=> Filters!Searched("mongo", FALSE, kinds, cells, v)
  BY <1>5, <1>6
<1>. QED BY <1>7 DEF kinds, cells

LEMMA EmptyArguments == Filters!Init => FiltersInv
<1>. SUFFICES ASSUME Filters!Init PROVE FiltersInv
  OBVIOUS
<1>1. kind \in Filters!Kinds /\ cell \in CellsOf(kind) /\ arguments = [name \in Filters!Names(kind) |-> <<>>]
  BY DEF Filters!Init
<1>2. \A S : <<>> \in Seq(S)
  OBVIOUS
<1>. QED BY <1>1, <1>2 DEF FiltersInv

LEMMA NextFilters == FiltersInv /\ [Filters!Next]_(Filters!vars) => FiltersInv'
<1>. SUFFICES ASSUME FiltersInv, [Filters!Next]_(Filters!vars) PROVE FiltersInv'
  OBVIOUS
<1>1. ASSUME NEW name \in Filters!Names(kind), NEW string \in ArgumentsOf(kind, name[1]), Filters!AddArgument(name, string)
      PROVE  FiltersInv'
  <2>1. /\ kind' = kind /\ cell' = cell
        /\ arguments' = [arguments EXCEPT ![name] = Append(arguments[name], string)]
    BY <1>1 DEF Filters!AddArgument
  <2>2. DOMAIN arguments' = Filters!Names(kind) /\ Filters!Names(kind') = Filters!Names(kind)
    BY <2>1 DEF FiltersInv
  <2>3. ASSUME NEW n \in Filters!Names(kind) PROVE arguments'[n] \in Seq(ArgumentsOf(kind, n[1]))
    <3>1. arguments[n] \in Seq(ArgumentsOf(kind, n[1]))
      BY DEF FiltersInv
    <3>2. arguments'[n] = IF n = name THEN Append(arguments[n], string) ELSE arguments[n]
      BY <2>1 DEF FiltersInv
    <3>3. \A S : \A t \in Seq(S), x \in S : Append(t, x) \in Seq(S)
      OBVIOUS
    <3>4. n = name => Append(arguments[n], string) \in Seq(ArgumentsOf(kind, n[1]))
      BY <3>1, <3>3
    <3>. QED BY <3>1, <3>2, <3>4
  <2>4. kind \in Filters!Kinds /\ cell \in CellsOf(kind)
    BY DEF FiltersInv
  <2>5. kind' \in Filters!Kinds /\ cell' \in CellsOf(kind')
    BY <2>1, <2>4
  <2>6. \A n \in Filters!Names(kind') : arguments'[n] \in Seq(ArgumentsOf(kind', n[1]))
    BY <2>1, <2>2, <2>3
  <2>. QED BY <2>2, <2>5, <2>6 DEF FiltersInv
<1>2. CASE UNCHANGED Filters!vars
  BY <1>2 DEF Filters!vars, FiltersInv, Filters!Names
<1>. QED BY <1>1, <1>2 DEF Filters!Next

\* A filter and its exclusion keep a row once, and both databases and SqlSerializer keep the
\* same rows by filters and by searches, for any column, cell, text and number of arguments,
\* but for the differences that the four parts name (filters/, queryset_search,
\* mongo_queryset.py, serializers/sql.py): see RequestFilters.
THEOREM FiltersAgreeAlways == Spec => []FiltersAgree
<1>. DEFINE Inv == which = "filters" => FiltersInv
<1>1. Init => Inv
  BY EmptyArguments DEF Init
<1>2. Inv /\ [Next]_vars => Inv'
  <2>. SUFFICES ASSUME Inv, [Next]_vars, which' = "filters" PROVE FiltersInv'
    OBVIOUS
  <2>1. which = "filters" /\ (FiltersStep \/ UNCHANGED vars)
    BY FiltersGo
  <2>2. [Filters!Next]_(Filters!vars)
    BY <2>1 DEF FiltersStep, vars, filtersVars, Filters!vars
  <2>. QED BY <2>1, <2>2, NextFilters
<1>3. Inv => FiltersAgree
  <2>. SUFFICES ASSUME FiltersInv PROVE Filters!FiltersAgree
    BY DEF FiltersAgree
  <2>. QED BY FiltersAssumption, TwinsFollow, EnginesFollow, SerializerFollows, SearchesFollow
           DEF Filters!FiltersAgree
<1>. QED BY <1>1, <1>2, <1>3, PTL DEF Spec
=============================================================================
