------------------------- MODULE TokenRefresh_proofs -------------------------
(***************************************************************************)
(* The chain of refresh tokens, for any number of overlapping requests and *)
(* of tokens issued.                                                       *)
(***************************************************************************)
EXTENDS TokenRefresh, TLAPS

TokenRecords == [access : Nat, refresh : Nat \cup {None}, expires : BOOLEAN]
Full == [pc : {"resolve", "respond"}, sent : TokenRecords, names : Int,
         set : TokenRecords \cup {None}, access : Nat \cup {None}, refused : BOOLEAN]

\* A request names the access token so many times.
NamesAreCounted == NameCounts \subseteq Nat

\* None is neither a token nor a cookie.
NoneIsNothing == None \notin Nat /\ None \notin TokenRecords

TypeInv ==
    /\ provider \in [kind : Providers, tells : BOOLEAN, good : SUBSET ({"access", "refresh"} \X Nat)]
    /\ issued \in Nat /\ issued > 0
    /\ cookie \in TokenRecords
    /\ request \in [Requests -> {Idle} \cup Full]
    /\ smooth \in BOOLEAN

Active(r) == ~At(r, "idle")
HasNew(r) == Active(r) /\ request[r].set # None

\* A provider that keeps its refresh token: everyone has it.
Keeps ==
    provider.kind = "keeps" =>
        /\ provider.good = {<<"refresh", 1>>} /\ cookie.refresh = 1
        /\ \A r \in Requests : Active(r) =>
            /\ request[r].sent.refresh = 1 /\ ~request[r].refused
            /\ request[r].set # None => request[r].set.refresh = 1

\* One that exchanges access tokens: each of them is good.
Exchanges ==
    provider.kind = "exchanges" =>
        /\ \A n \in 1..issued : <<"access", n>> \in provider.good
        /\ cookie.refresh = None /\ cookie.access \in 1..issued
        /\ \A r \in Requests : Active(r) =>
            /\ request[r].sent.refresh = None /\ request[r].sent.access \in 1..issued /\ ~request[r].refused
            /\ request[r].set # None => request[r].set.refresh = None /\ request[r].set.access \in 1..issued

\* Otherwise the last token is the only good one.  The cookie has it, or just one request,
\* whose response has not arrived; whoever carries an older one is refused.
Rotates ==
    provider.kind \in {"rotates", "revokes"} =>
        /\ provider.good = {<<"refresh", issued>>}
        /\ cookie.refresh = cookie.access /\ cookie.access <= issued
        /\ (\A r \in Requests : ~HasNew(r)) => cookie.access = issued
        /\ \A r \in Requests : Active(r) =>
            /\ request[r].sent.refresh = request[r].sent.access /\ request[r].sent.access <= cookie.access
            /\ request[r].refused => provider.kind = "rotates" /\ request[r].sent.access < issued
            /\ request[r].set # None =>
                /\ request[r].set.refresh = issued /\ request[r].set.access = issued /\ cookie.access < issued
                /\ \A s \in Requests \ {r} : ~HasNew(s)

Chain == smooth => Keeps /\ Exchanges /\ Rotates

-----------------------------------------------------------------------------
LEMMA InitTypes == ASSUME NoneIsNothing, Init PROVE TypeInv
<1>1. PICK kind \in Providers, tells \in BOOLEAN :
        /\ provider = [kind |-> kind, tells |-> tells,
                       good |-> {IF kind = "exchanges" THEN <<"access", 1>> ELSE <<"refresh", 1>>}]
        /\ cookie = Tokens(1, IF kind = "exchanges" THEN None ELSE 1, tells)
  BY DEF Init
<1>2. cookie \in TokenRecords
  BY <1>1 DEF Tokens, TokenRecords
<1>3. {IF kind = "exchanges" THEN <<"access", 1>> ELSE <<"refresh", 1>>} \in SUBSET ({"access", "refresh"} \X Nat)
  OBVIOUS
<1>. QED BY <1>1, <1>2, <1>3 DEF Init, TypeInv

LEMMA InitChain == ASSUME NoneIsNothing, Init PROVE Chain
<1>1. PICK kind \in Providers, tells \in BOOLEAN :
        /\ provider = [kind |-> kind, tells |-> tells,
                       good |-> {IF kind = "exchanges" THEN <<"access", 1>> ELSE <<"refresh", 1>>}]
        /\ cookie = Tokens(1, IF kind = "exchanges" THEN None ELSE 1, tells)
  BY DEF Init
<1>2. \A r \in Requests : ~Active(r)
  BY DEF Init, Active, At, Idle
<1>3. cookie.access = 1 /\ cookie.refresh = IF kind = "exchanges" THEN None ELSE 1
  BY <1>1 DEF Tokens
<1>4. provider.kind = kind /\ issued = 1
      /\ provider.good = {IF kind = "exchanges" THEN <<"access", 1>> ELSE <<"refresh", 1>>}
  BY <1>1 DEF Init
<1>. QED BY <1>2, <1>3, <1>4 DEF Chain, Keeps, Exchanges, Rotates

\* A request's record is replaced, the others stay.
LEMMA GotoStep ==
    ASSUME TypeInv, NEW r \in Requests, NEW record \in {Idle} \cup Full, Goto(r, record)
    PROVE  /\ request' \in [Requests -> {Idle} \cup Full] /\ request'[r] = record
           /\ \A s \in Requests \ {r} : request'[s] = request[s]
BY DEF TypeInv, Goto

LEMMA ActiveIsFull == ASSUME TypeInv, NEW r \in Requests, Active(r) PROVE request[r] \in Full
BY DEF TypeInv, Active, At, Idle

LEMMA ResolvedStep ==
    ASSUME TypeInv, NEW r \in Requests, Active(r), NEW access \in Nat
    PROVE  /\ Resolved(r, access) \in Full
           /\ Resolved(r, access).sent = request[r].sent /\ Resolved(r, access).set = request[r].set
           /\ Resolved(r, access).refused = request[r].refused
           /\ Resolved(r, access).names = request[r].names - 1
           /\ Resolved(r, access).pc = IF request[r].names = 1 THEN "respond" ELSE "resolve"
<1>. DEFINE pc == IF request[r].names = 1 THEN "respond" ELSE "resolve"
            n == request[r].names - 1
<1>1. request[r] \in Full
  BY ActiveIsFull
<1>2. pc \in {"resolve", "respond"} /\ n \in Int
  BY <1>1 DEF Full
<1>3. Resolved(r, access) = [request[r] EXCEPT !.names = n, !.access = access, !.pc = pc]
  BY DEF Resolved
<1>. HIDE DEF pc, n
<1>4. [request[r] EXCEPT !.names = n, !.access = access, !.pc = pc] \in Full
  BY <1>1, <1>2 DEF Full
<1>5. /\ Resolved(r, access).sent = request[r].sent /\ Resolved(r, access).set = request[r].set
      /\ Resolved(r, access).refused = request[r].refused
      /\ Resolved(r, access).names = n /\ Resolved(r, access).pc = pc
  BY <1>1, <1>3 DEF Full
<1>. QED BY <1>3, <1>4, <1>5 DEF pc, n

\* What the provider does with a token that it accepts.
LEMMA AcceptStep ==
    ASSUME TypeInv, NEW used, Accept(used)
    PROVE  /\ provider' \in [kind : Providers, tells : BOOLEAN, good : SUBSET ({"access", "refresh"} \X Nat)]
           /\ issued' = issued + 1 /\ provider'.kind = provider.kind /\ used \in provider.good
           /\ provider.kind = "keeps" => provider'.good = provider.good
           /\ provider.kind = "exchanges" => provider'.good = provider.good \cup {<<"access", issued + 1>>}
           /\ provider.kind \in {"rotates", "revokes"} =>
                provider'.good = (provider.good \ {used}) \cup {<<"refresh", issued + 1>>}
<1>. DEFINE next == <<IF provider.kind = "exchanges" THEN "access" ELSE "refresh", issued + 1>>
            good == IF provider.kind = "keeps" THEN provider.good
                    ELSE IF provider.kind = "exchanges" THEN provider.good \cup {next}
                    ELSE (provider.good \ {used}) \cup {next}
<1>1. provider' = [provider EXCEPT !.good = good] /\ issued' = issued + 1 /\ used \in provider.good
  BY DEF Accept
<1>2. next \in {"access", "refresh"} \X Nat
  BY DEF TypeInv
<1>3. good \in SUBSET ({"access", "refresh"} \X Nat)
  BY <1>2 DEF TypeInv
<1>4. /\ provider.kind = "keeps" => good = provider.good
      /\ provider.kind = "exchanges" => good = provider.good \cup {<<"access", issued + 1>>}
      /\ provider.kind \in {"rotates", "revokes"} => good = (provider.good \ {used}) \cup {<<"refresh", issued + 1>>}
  OBVIOUS
<1>. HIDE DEF good, next
<1>. QED BY <1>1, <1>3, <1>4 DEF TypeInv

-----------------------------------------------------------------------------
(* What each step does to the one request it is about                      *)

LEMMA SendStep ==
    ASSUME NoneIsNothing, NamesAreCounted, TypeInv, NEW r \in Requests, NEW names \in NameCounts, Send(r, names)
    PROVE  /\ request' \in [Requests -> {Idle} \cup Full]
           /\ \A s \in Requests \ {r} : request'[s] = request[s]
           /\ request'[r].sent = cookie /\ request'[r].set = None /\ ~request'[r].refused
           /\ request'[r].names = names /\ request'[r].pc = "resolve"
<1>. DEFINE record == [pc |-> "resolve", sent |-> cookie, names |-> names, set |-> None, access |-> None,
                       refused |-> FALSE]
<1>0. names \in Int
  BY DEF NamesAreCounted
<1>1. record \in Full
  BY <1>0 DEF Full, TypeInv
<1>2. Goto(r, record)
  BY DEF Send
<1>3. /\ request' \in [Requests -> {Idle} \cup Full] /\ request'[r] = record
      /\ \A s \in Requests \ {r} : request'[s] = request[s]
  BY <1>1, <1>2, GotoStep
<1>. QED BY <1>3

\* A name resolved without a new token.
LEMMA PlainStep ==
    ASSUME TypeInv, NEW r \in Requests, Active(r), Goto(r, Resolved(r, request[r].sent.access))
    PROVE  /\ request' \in [Requests -> {Idle} \cup Full]
           /\ \A s \in Requests \ {r} : request'[s] = request[s]
           /\ request'[r].sent = request[r].sent /\ request'[r].set = request[r].set
           /\ request'[r].refused = request[r].refused
           /\ request'[r].names = request[r].names - 1
           /\ request'[r].pc = IF request[r].names = 1 THEN "respond" ELSE "resolve"
<1>1. request[r].sent.access \in Nat
  BY ActiveIsFull DEF Full, TokenRecords
<1>2. /\ request' \in [Requests -> {Idle} \cup Full] /\ request'[r] = Resolved(r, request[r].sent.access)
      /\ \A s \in Requests \ {r} : request'[s] = request[s]
  BY <1>1, ResolvedStep, GotoStep
<1>. QED BY <1>1, <1>2, ResolvedStep

\* A name that the provider refuses.
LEMMA RefusedStep ==
    ASSUME TypeInv, NEW r \in Requests, Active(r),
           Goto(r, [Resolved(r, request[r].sent.access) EXCEPT !.refused = TRUE])
    PROVE  /\ request' \in [Requests -> {Idle} \cup Full]
           /\ \A s \in Requests \ {r} : request'[s] = request[s]
           /\ request'[r].sent = request[r].sent /\ request'[r].set = request[r].set
           /\ request'[r].refused
           /\ request'[r].names = request[r].names - 1
           /\ request'[r].pc = IF request[r].names = 1 THEN "respond" ELSE "resolve"
<1>. DEFINE plain == Resolved(r, request[r].sent.access)
            record == [plain EXCEPT !.refused = TRUE]
<1>1. request[r].sent.access \in Nat
  BY ActiveIsFull DEF Full, TokenRecords
<1>2. /\ plain \in Full
      /\ plain.sent = request[r].sent /\ plain.set = request[r].set /\ plain.names = request[r].names - 1
      /\ plain.pc = IF request[r].names = 1 THEN "respond" ELSE "resolve"
  BY <1>1, ResolvedStep
<1>. HIDE DEF plain
<1>3. /\ record \in Full
      /\ record.sent = plain.sent /\ record.set = plain.set /\ record.refused
      /\ record.names = plain.names /\ record.pc = plain.pc
  BY <1>2 DEF Full
<1>4. Goto(r, record)
  BY DEF plain
<1>5. /\ request' \in [Requests -> {Idle} \cup Full] /\ request'[r] = record
      /\ \A s \in Requests \ {r} : request'[s] = request[s]
  BY <1>3, <1>4, GotoStep
<1>. QED BY <1>2, <1>3, <1>5

\* A name resolved with a new token, which the response will set.
LEMMA RefreshedStep ==
    ASSUME NoneIsNothing, TypeInv, NEW r \in Requests, Active(r), NEW refresh \in Nat \cup {None},
           Goto(r, [Resolved(r, issued + 1) EXCEPT !.set = CookieOf(request[r].sent, refresh)])
    PROVE  /\ request' \in [Requests -> {Idle} \cup Full]
           /\ \A s \in Requests \ {r} : request'[s] = request[s]
           /\ request'[r].sent = request[r].sent /\ request'[r].refused = request[r].refused
           /\ request'[r].set.access = issued + 1 /\ request'[r].set.refresh = refresh /\ request'[r].set # None
           /\ request'[r].names = request[r].names - 1
           /\ request'[r].pc = IF request[r].names = 1 THEN "respond" ELSE "resolve"
<1>. DEFINE plain == Resolved(r, issued + 1)
            tokens == CookieOf(request[r].sent, refresh)
            record == [plain EXCEPT !.set = tokens]
<1>1. issued + 1 \in Nat
  BY DEF TypeInv
<1>2. /\ plain \in Full
      /\ plain.sent = request[r].sent /\ plain.refused = request[r].refused /\ plain.names = request[r].names - 1
      /\ plain.pc = IF request[r].names = 1 THEN "respond" ELSE "resolve"
  BY <1>1, ResolvedStep
<1>3. tokens \in TokenRecords /\ tokens.access = issued + 1 /\ tokens.refresh = refresh
  BY <1>1 DEF CookieOf, Tokens, TokenRecords, TypeInv
<1>. HIDE DEF plain, tokens
<1>4. /\ record \in Full
      /\ record.sent = plain.sent /\ record.set = tokens /\ record.refused = plain.refused
      /\ record.names = plain.names /\ record.pc = plain.pc
  BY <1>2, <1>3 DEF Full
<1>5. Goto(r, record)
  BY DEF plain, tokens
<1>6. /\ request' \in [Requests -> {Idle} \cup Full] /\ request'[r] = record
      /\ \A s \in Requests \ {r} : request'[s] = request[s]
  BY <1>4, <1>5, GotoStep
<1>. QED BY <1>2, <1>3, <1>4, <1>6 DEF NoneIsNothing

\* The end of a request.
LEMMA IdleStep ==
    ASSUME TypeInv, NEW r \in Requests, Goto(r, Idle)
    PROVE  /\ request' \in [Requests -> {Idle} \cup Full]
           /\ \A s \in Requests \ {r} : request'[s] = request[s]
           /\ request'[r].pc = "idle"
BY GotoStep DEF Idle

LEMMA SentIsToken ==
    ASSUME TypeInv, NEW r \in Requests, Active(r), Accept(RefreshWith(request[r].sent))
    PROVE  SentWith(RefreshWith(request[r].sent)) \in Nat \cup {None}
<1>1. request[r].sent \in TokenRecords
  BY ActiveIsFull DEF Full
<1>2. RefreshWith(request[r].sent) \in {"access", "refresh"} \X (Nat \cup {None})
  BY <1>1 DEF RefreshWith, TokenRecords
<1>. QED BY <1>2 DEF SentWith, TypeInv

LEMMA NextTypes == ASSUME NoneIsNothing, NamesAreCounted, TypeInv, [Next]_vars PROVE TypeInv'
<1>1. CASE Expire
  BY <1>1 DEF Expire, TypeInv
<1>2. ASSUME NEW r \in Requests, NEW names \in NameCounts, Send(r, names) PROVE TypeInv'
  <2>1. request' \in [Requests -> {Idle} \cup Full]
    BY <1>2, SendStep
  <2>. QED BY <1>2, <2>1 DEF Send, TypeInv
<1>3. ASSUME NEW r \in Requests, UseAsIs(r) PROVE TypeInv'
  <2>1. request' \in [Requests -> {Idle} \cup Full]
    BY <1>3, PlainStep DEF UseAsIs, Active, At
  <2>. QED BY <1>3, <2>1 DEF UseAsIs, TypeInv
<1>4. ASSUME NEW r \in Requests, Refresh(r) PROVE TypeInv'
  <2>1. Active(r) /\ Accept(RefreshWith(request[r].sent)) /\ UNCHANGED <<expired, cookie>>
    BY <1>4 DEF Refresh, Active, At
  <2>2. PICK refresh \in {SentWith(RefreshWith(request[r].sent)), None} :
          /\ Goto(r, [Resolved(r, issued + 1) EXCEPT !.set = CookieOf(request[r].sent, refresh)])
          /\ smooth' = (smooth /\ refresh = SentWith(RefreshWith(request[r].sent)))
    BY <1>4 DEF Refresh
  <2>3. refresh \in Nat \cup {None}
    BY <2>1, SentIsToken
  <2>4. request' \in [Requests -> {Idle} \cup Full]
    BY <2>1, <2>2, <2>3, RefreshedStep
  <2>5. smooth' \in BOOLEAN
    BY <2>2 DEF TypeInv
  <2>6. provider' \in [kind : Providers, tells : BOOLEAN, good : SUBSET ({"access", "refresh"} \X Nat)]
        /\ issued' = issued + 1
    BY <2>1, AcceptStep
  <2>. QED BY <2>1, <2>4, <2>5, <2>6 DEF TypeInv
<1>5. ASSUME NEW r \in Requests, Refuse(r) PROVE TypeInv'
  <2>1. request' \in [Requests -> {Idle} \cup Full]
    BY <1>5, RefusedStep DEF Refuse, Active, At
  <2>2. provider' \in [kind : Providers, tells : BOOLEAN, good : SUBSET ({"access", "refresh"} \X Nat)]
    BY <1>5 DEF Refuse, TypeInv
  <2>3. smooth' \in BOOLEAN
    BY <1>5 DEF Refuse, TypeInv
  <2>. QED BY <1>5, <2>1, <2>2, <2>3 DEF Refuse, TypeInv
<1>6. ASSUME NEW r \in Requests, RefreshFails(r) PROVE TypeInv'
  <2>1. request' \in [Requests -> {Idle} \cup Full] /\ UNCHANGED <<expired, cookie>>
    BY <1>6, PlainStep DEF RefreshFails, Active, At
  <2>2. ASSUME UNCHANGED <<provider, issued, smooth>> PROVE TypeInv'
    BY <2>1, <2>2 DEF TypeInv
  <2>3. ASSUME Accept(RefreshWith(request[r].sent)), smooth' = (smooth /\ Lasting) PROVE TypeInv'
    <3>1. provider' \in [kind : Providers, tells : BOOLEAN, good : SUBSET ({"access", "refresh"} \X Nat)]
          /\ issued' = issued + 1
      BY <2>3, AcceptStep
    <3>2. smooth' \in BOOLEAN
      BY <2>3 DEF TypeInv
    <3>. QED BY <2>1, <3>1, <3>2 DEF TypeInv
  <2>. QED BY <1>6, <2>2, <2>3 DEF RefreshFails
<1>7. ASSUME NEW r \in Requests, Respond(r) PROVE TypeInv'
  <2>1. request' \in [Requests -> {Idle} \cup Full]
    BY <1>7, IdleStep DEF Respond
  <2>2. request[r] \in Full
    BY <1>7, ActiveIsFull DEF Respond, Active, At
  <2>3. cookie' \in TokenRecords
    BY <1>7, <2>2 DEF Respond, Full, TypeInv
  <2>. QED BY <1>7, <2>1, <2>3 DEF Respond, TypeInv
<1>8. ASSUME NEW r \in Requests, ResponseLost(r) PROVE TypeInv'
  <2>1. request' \in [Requests -> {Idle} \cup Full]
    BY <1>8, IdleStep DEF ResponseLost
  <2>2. smooth' \in BOOLEAN
    BY <1>8 DEF ResponseLost, TypeInv
  <2>. QED BY <1>8, <2>1, <2>2 DEF ResponseLost, TypeInv
<1>9. CASE UNCHANGED vars
  BY <1>9 DEF vars, TypeInv
<1>. QED BY <1>1, <1>2, <1>3, <1>4, <1>5, <1>6, <1>7, <1>8, <1>9 DEF Next

-----------------------------------------------------------------------------
(* The chain, step by step                                                 *)

Links == Keeps /\ Exchanges /\ Rotates

LEMMA SendLinks ==
    ASSUME NoneIsNothing, NamesAreCounted, TypeInv, Links,
           NEW r \in Requests, NEW names \in NameCounts, Send(r, names)
    PROVE  Links'
<1>1. /\ \A s \in Requests \ {r} : request'[s] = request[s]
      /\ request'[r].sent = cookie /\ request'[r].set = None /\ ~request'[r].refused
      /\ request'[r].names = names /\ request'[r].pc = "resolve"
  BY SendStep
<1>2. ~Active(r) /\ UNCHANGED <<provider, issued, cookie>>
  BY DEF Send, Active, At
<1>3. \A s \in Requests \ {r} : Active(s)' = Active(s) /\ HasNew(s)' = HasNew(s)
  BY <1>1 DEF Active, HasNew, At
<1>4. ~HasNew(r) /\ ~HasNew(r)'
  BY <1>1, <1>2 DEF HasNew
<1>5. Keeps'
  BY <1>1, <1>2, <1>3 DEF Links, Keeps
<1>6. Exchanges'
  BY <1>1, <1>2, <1>3 DEF Links, Exchanges
<1>7. Rotates'
  BY <1>1, <1>2, <1>3, <1>4 DEF Links, Rotates, TypeInv, TokenRecords
<1>. QED BY <1>5, <1>6, <1>7 DEF Links

LEMMA PlainLinks ==
    ASSUME NoneIsNothing, TypeInv, Links, NEW r \in Requests, At(r, "resolve"),
           Goto(r, Resolved(r, request[r].sent.access)), UNCHANGED <<provider, issued, cookie>>
    PROVE  Links'
<1>1. Active(r)
  BY DEF Active, At
<1>2. /\ \A s \in Requests \ {r} : request'[s] = request[s]
      /\ request'[r].sent = request[r].sent /\ request'[r].set = request[r].set
      /\ request'[r].refused = request[r].refused
      /\ request'[r].pc = IF request[r].names = 1 THEN "respond" ELSE "resolve"
  BY <1>1, PlainStep
<1>3. \A s \in Requests : /\ Active(s)' = Active(s) /\ HasNew(s)' = HasNew(s)
                          /\ request'[s].sent = request[s].sent /\ request'[s].set = request[s].set
                          /\ request'[s].refused = request[s].refused
  BY <1>1, <1>2 DEF Active, HasNew, At
<1>4. Keeps'
  BY <1>3 DEF Links, Keeps
<1>5. Exchanges'
  BY <1>3 DEF Links, Exchanges
<1>6. Rotates'
  BY <1>3 DEF Links, Rotates
<1>. QED BY <1>4, <1>5, <1>6 DEF Links

LEMMA RefreshLinks ==
    ASSUME NoneIsNothing, TypeInv, Links, NEW r \in Requests, Refresh(r), smooth'
    PROVE  Links'
<1>. DEFINE used == RefreshWith(request[r].sent)
            refresh == SentWith(used)
<1>1. Active(r) /\ At(r, "resolve") /\ Accept(used) /\ cookie' = cookie
  BY DEF Refresh, Active, At
<1>2. Goto(r, [Resolved(r, issued + 1) EXCEPT !.set = CookieOf(request[r].sent, refresh)])
  BY DEF Refresh
<1>3. refresh \in Nat \cup {None}
  BY <1>1, SentIsToken
<1>4. /\ \A s \in Requests \ {r} : request'[s] = request[s]
      /\ request'[r].sent = request[r].sent /\ request'[r].refused = request[r].refused
      /\ request'[r].set.access = issued + 1 /\ request'[r].set.refresh = refresh /\ request'[r].set # None
      /\ request'[r].pc = IF request[r].names = 1 THEN "respond" ELSE "resolve"
  BY <1>1, <1>2, <1>3, RefreshedStep
<1>5. \A s \in Requests : /\ Active(s)' = Active(s) /\ request'[s].sent = request[s].sent
                          /\ request'[s].refused = request[s].refused
  BY <1>1, <1>4 DEF Active, At
<1>6. /\ issued' = issued + 1 /\ provider'.kind = provider.kind /\ used \in provider.good
      /\ provider.kind = "keeps" => provider'.good = provider.good
      /\ provider.kind = "exchanges" => provider'.good = provider.good \cup {<<"access", issued + 1>>}
      /\ provider.kind \in {"rotates", "revokes"} =>
            provider'.good = (provider.good \ {used}) \cup {<<"refresh", issued + 1>>}
  BY <1>1, AcceptStep
<1>7. issued \in Nat /\ issued > 0 /\ cookie \in TokenRecords /\ request[r].sent \in TokenRecords
  BY <1>1, ActiveIsFull DEF TypeInv, Full
<1>8. Keeps'
  <2>1. ASSUME provider.kind = "keeps" PROVE refresh = 1
    BY <2>1, <1>1, <1>7 DEF Links, Keeps, RefreshWith, SentWith, NoneIsNothing
  <2>. QED BY <2>1, <1>1, <1>4, <1>5, <1>6 DEF Links, Keeps
<1>9. Exchanges'
  <2>. SUFFICES ASSUME provider'.kind = "exchanges" PROVE Exchanges'
    BY DEF Exchanges
  <2>1. provider.kind = "exchanges"
    BY <1>6
  <2>2. refresh = None
    BY <2>1 DEF SentWith
  <2>3. ASSUME NEW n \in 1..issued' PROVE <<"access", n>> \in provider'.good
    <3>1. n \in 1..issued \/ n = issued + 1
      BY <1>6, <1>7
    <3>2. \A m \in 1..issued : <<"access", m>> \in provider.good
      BY <2>1 DEF Links, Exchanges
    <3>. QED BY <2>1, <3>1, <3>2, <1>6
  <2>. QED BY <2>1, <2>2, <2>3, <1>1, <1>4, <1>5, <1>6, <1>7 DEF Links, Exchanges
<1>10. ASSUME provider.kind \in {"rotates", "revokes"}
       PROVE  /\ used = <<"refresh", issued>> /\ refresh = issued + 1
              /\ request[r].sent.access = issued /\ cookie.access = issued
              /\ \A s \in Requests : ~HasNew(s)
  <2>1. used = <<"refresh", request[r].sent.access>>
    BY <1>10, <1>1, <1>7 DEF Links, Rotates, RefreshWith, NoneIsNothing, TokenRecords
  <2>2. used = <<"refresh", issued>>
    BY <1>10, <1>6 DEF Links, Rotates
  <2>3. request[r].sent.access = issued
    BY <2>1, <2>2
  <2>4. cookie.access = issued
    BY <2>3, <1>10, <1>1, <1>7 DEF Links, Rotates, TokenRecords
  <2>5. \A s \in Requests : ~HasNew(s)
    BY <2>4, <1>10, <1>7 DEF Links, Rotates, HasNew, TokenRecords
  <2>6. refresh = issued + 1
    BY <1>10 DEF SentWith
  <2>. QED BY <2>2, <2>3, <2>4, <2>5, <2>6
<1>11. Rotates'
  <2>. SUFFICES ASSUME provider'.kind \in {"rotates", "revokes"} PROVE Rotates'
    BY DEF Rotates
  <2>1. provider.kind \in {"rotates", "revokes"}
    BY <1>6
  <2>2. provider'.good = {<<"refresh", issued'>>}
    BY <2>1, <1>6, <1>10 DEF Links, Rotates
  <2>3. HasNew(r)' /\ \A s \in Requests \ {r} : ~HasNew(s)'
    BY <2>1, <1>1, <1>4, <1>5, <1>10 DEF HasNew
  <2>4. ASSUME NEW s \in Requests \ {r}, Active(s)'
        PROVE  request'[s].set = None
    BY <2>3, <2>4 DEF HasNew
  <2>5. /\ cookie'.refresh = cookie'.access /\ cookie'.access <= issued' /\ cookie'.access < issued'
        /\ request'[r].set.refresh = issued' /\ request'[r].set.access = issued'
    BY <2>1, <1>1, <1>4, <1>6, <1>7, <1>10 DEF Links, Rotates
  <2>6. ASSUME NEW s \in Requests, Active(s)'
        PROVE  /\ request'[s].sent.refresh = request'[s].sent.access /\ request'[s].sent.access <= cookie'.access
               /\ request'[s].refused => provider'.kind = "rotates" /\ request'[s].sent.access < issued'
    <3>1. Active(s)
      BY <2>6, <1>5
    <3>2. request[s].sent.access \in Nat
      BY <3>1, ActiveIsFull DEF Full, TokenRecords
    <3>. QED BY <2>1, <3>1, <3>2, <1>1, <1>5, <1>6, <1>7 DEF Links, Rotates
  <2>. QED BY <2>2, <2>3, <2>4, <2>5, <2>6 DEF Rotates
<1>. QED BY <1>8, <1>9, <1>11 DEF Links

\* A refresh whose answer is lost, with a provider that takes no token back.
LEMMA LostLinks ==
    ASSUME NoneIsNothing, TypeInv, Links, NEW r \in Requests, At(r, "resolve"), Lasting,
           Goto(r, Resolved(r, request[r].sent.access)), Accept(RefreshWith(request[r].sent)), cookie' = cookie
    PROVE  Links'
<1>1. Active(r)
  BY DEF Active, At
<1>2. /\ \A s \in Requests \ {r} : request'[s] = request[s]
      /\ request'[r].sent = request[r].sent /\ request'[r].set = request[r].set
      /\ request'[r].refused = request[r].refused
      /\ request'[r].pc = IF request[r].names = 1 THEN "respond" ELSE "resolve"
  BY <1>1, PlainStep
<1>3. \A s \in Requests : /\ Active(s)' = Active(s) /\ HasNew(s)' = HasNew(s)
                          /\ request'[s].sent = request[s].sent /\ request'[s].set = request[s].set
                          /\ request'[s].refused = request[s].refused
  BY <1>1, <1>2 DEF Active, HasNew, At
<1>4. /\ issued' = issued + 1 /\ provider'.kind = provider.kind
      /\ provider.kind = "keeps" => provider'.good = provider.good
      /\ provider.kind = "exchanges" => provider'.good = provider.good \cup {<<"access", issued + 1>>}
  BY AcceptStep
<1>5. issued \in Nat /\ issued > 0
  BY DEF TypeInv
<1>6. Keeps'
  BY <1>3, <1>4 DEF Links, Keeps
<1>7. Exchanges'
  <2>. SUFFICES ASSUME provider'.kind = "exchanges" PROVE Exchanges'
    BY DEF Exchanges
  <2>1. provider.kind = "exchanges"
    BY <1>4
  <2>2. ASSUME NEW n \in 1..issued' PROVE <<"access", n>> \in provider'.good
    <3>1. n \in 1..issued \/ n = issued + 1
      BY <1>4, <1>5
    <3>2. \A m \in 1..issued : <<"access", m>> \in provider.good
      BY <2>1 DEF Links, Exchanges
    <3>. QED BY <2>1, <3>1, <3>2, <1>4
  <2>. QED BY <2>1, <2>2, <1>3, <1>4, <1>5 DEF Links, Exchanges
<1>8. Rotates'
  BY <1>4 DEF Lasting, Rotates
<1>. QED BY <1>6, <1>7, <1>8 DEF Links

LEMMA RefuseLinks ==
    ASSUME NoneIsNothing, TypeInv, Links, NEW r \in Requests, Refuse(r), smooth'
    PROVE  Links'
<1>. DEFINE sent == request[r].sent
<1>1. Active(r) /\ At(r, "resolve") /\ RefreshWith(sent) \notin provider.good /\ UNCHANGED <<issued, cookie>>
  BY DEF Refuse, Active, At
<1>2. /\ \A s \in Requests \ {r} : request'[s] = request[s]
      /\ request'[r].sent = sent /\ request'[r].set = request[r].set
      /\ request'[r].refused
      /\ request'[r].pc = IF request[r].names = 1 THEN "respond" ELSE "resolve"
  BY <1>1, RefusedStep DEF Refuse
<1>3. issued \in Nat /\ cookie \in TokenRecords /\ sent \in TokenRecords /\ provider.kind \in Providers
  BY <1>1, ActiveIsFull DEF TypeInv, Full
<1>4. provider.kind # "keeps"
  BY <1>1, <1>3 DEF Links, Keeps, RefreshWith, NoneIsNothing
<1>5. provider.kind # "exchanges"
  BY <1>1, <1>3 DEF Links, Exchanges, RefreshWith
<1>6. provider.kind \in {"rotates", "revokes"}
  BY <1>3, <1>4, <1>5 DEF Providers
<1>7. RefreshWith(sent) = <<"refresh", sent.access>>
  BY <1>1, <1>3, <1>6 DEF Links, Rotates, RefreshWith, NoneIsNothing, TokenRecords
<1>8. sent.access < issued
  <2>1. sent.access # issued
    BY <1>1, <1>6, <1>7 DEF Links, Rotates
  <2>2. sent.access <= issued
    BY <1>1, <1>3, <1>6 DEF Links, Rotates, TokenRecords
  <2>. QED BY <2>1, <2>2, <1>3 DEF TokenRecords
<1>9. provider.kind = "rotates"
  BY <1>6 DEF Refuse, TypeInv
<1>10. UNCHANGED <<provider, issued, cookie>>
  BY <1>1, <1>9 DEF Refuse
<1>11. \A s \in Requests : /\ Active(s)' = Active(s) /\ HasNew(s)' = HasNew(s)
                           /\ request'[s].sent = request[s].sent /\ request'[s].set = request[s].set
  BY <1>1, <1>2 DEF Active, HasNew, At
<1>12. Keeps' /\ Exchanges'
  BY <1>9, <1>10 DEF Keeps, Exchanges
<1>13. Rotates'
  BY <1>2, <1>8, <1>9, <1>10, <1>11 DEF Links, Rotates
<1>. QED BY <1>12, <1>13 DEF Links

\* The end of a request whose response sets no cookie, or is lost where that does no harm.
LEMMA EndLinks ==
    ASSUME TypeInv, Links, NEW r \in Requests, Active(r), request[r].set = None \/ Lasting, Goto(r, Idle),
           UNCHANGED <<provider, issued, cookie>>
    PROVE  Links'
<1>1. (\A s \in Requests \ {r} : request'[s] = request[s]) /\ request'[r].pc = "idle"
  BY IdleStep
<1>2. ~Active(r)' /\ ~HasNew(r)'
  BY <1>1 DEF Active, HasNew, At
<1>3. \A s \in Requests \ {r} : Active(s)' = Active(s) /\ HasNew(s)' = HasNew(s)
  BY <1>1 DEF Active, HasNew, At
<1>4. Keeps'
  BY <1>1, <1>2, <1>3 DEF Links, Keeps
<1>5. Exchanges'
  BY <1>1, <1>2, <1>3 DEF Links, Exchanges
<1>6. Rotates'
  <2>1. CASE request[r].set = None
    <3>1. ~HasNew(r)
      BY <2>1 DEF HasNew
    <3>. QED BY <1>1, <1>2, <1>3, <3>1 DEF Links, Rotates
  <2>2. CASE Lasting
    BY <2>2 DEF Lasting, Rotates
  <2>. QED BY <2>1, <2>2
<1>. QED BY <1>4, <1>5, <1>6 DEF Links

\* A response that sets the cookie.
LEMMA RespondLinks ==
    ASSUME NoneIsNothing, TypeInv, Links, NEW r \in Requests, Respond(r), request[r].set # None
    PROVE  Links'
<1>1. /\ Active(r) /\ HasNew(r) /\ cookie' = request[r].set /\ UNCHANGED <<provider, issued>>
      /\ At(r, "respond")
  BY DEF Respond, Active, HasNew, At
<1>2. (\A s \in Requests \ {r} : request'[s] = request[s]) /\ request'[r].pc = "idle"
  BY IdleStep DEF Respond
<1>3. ~Active(r)' /\ ~HasNew(r)'
  BY <1>2 DEF Active, HasNew, At
<1>4. \A s \in Requests \ {r} : Active(s)' = Active(s) /\ HasNew(s)' = HasNew(s)
  BY <1>2 DEF Active, HasNew, At
<1>5. Keeps'
  BY <1>1, <1>2, <1>3, <1>4 DEF Links, Keeps
<1>6. Exchanges'
  BY <1>1, <1>2, <1>3, <1>4 DEF Links, Exchanges
<1>7. Rotates'
  <2>. SUFFICES ASSUME provider.kind \in {"rotates", "revokes"} PROVE Rotates'
    BY <1>1 DEF Rotates
  <2>1. /\ cookie'.access = issued /\ cookie'.refresh = issued /\ cookie.access < issued
        /\ \A s \in Requests \ {r} : ~HasNew(s)
    BY <1>1 DEF Links, Rotates
  <2>2. ASSUME NEW s \in Requests, Active(s)'
        PROVE  /\ request'[s].set = None
               /\ request'[s].sent.refresh = request'[s].sent.access /\ request'[s].sent.access <= cookie'.access
               /\ request'[s].refused => provider.kind = "rotates" /\ request'[s].sent.access < issued
    <3>1. s # r /\ Active(s) /\ request'[s] = request[s]
      BY <2>2, <1>2, <1>3, <1>4
    <3>2. request[s].set = None
      BY <2>1, <3>1 DEF HasNew
    <3>3. request[s].sent.access \in Nat
      BY <3>1, ActiveIsFull DEF Full, TokenRecords
    <3>4. request[s].sent.refresh = request[s].sent.access /\ request[s].sent.access <= cookie.access
          /\ (request[s].refused => provider.kind = "rotates" /\ request[s].sent.access < issued)
      BY <3>1 DEF Links, Rotates
    <3>. QED BY <2>1, <3>1, <3>2, <3>3, <3>4 DEF TypeInv, TokenRecords
  <2>3. provider'.good = {<<"refresh", issued'>>}
    BY <1>1 DEF Links, Rotates
  <2>4. issued \in Nat
    BY DEF TypeInv
  <2>. QED BY <2>1, <2>2, <2>3, <2>4, <1>1 DEF Rotates
<1>. QED BY <1>5, <1>6, <1>7 DEF Links

LEMMA NextChain == ASSUME NoneIsNothing, NamesAreCounted, TypeInv, Chain, [Next]_vars PROVE Chain'
<1>. SUFFICES ASSUME smooth' PROVE Links'
  BY DEF Chain, Links
<1>1. smooth
  BY DEF Next, vars, Expire, Send, UseAsIs, Refresh, Refuse, RefreshFails, Respond, ResponseLost, TypeInv
<1>2. Links
  BY <1>1 DEF Chain, Links
<1>3. ASSUME UNCHANGED <<provider, issued, cookie, request>> PROVE Links'
  BY <1>2, <1>3 DEF Links, Keeps, Exchanges, Rotates, Active, HasNew, At
<1>4. CASE Expire
  BY <1>3, <1>4 DEF Expire
<1>5. ASSUME NEW r \in Requests, NEW names \in NameCounts, Send(r, names) PROVE Links'
  BY <1>2, <1>5, SendLinks
<1>6. ASSUME NEW r \in Requests, UseAsIs(r) PROVE Links'
  BY <1>2, <1>6, PlainLinks DEF UseAsIs
<1>7. ASSUME NEW r \in Requests, Refresh(r) PROVE Links'
  BY <1>2, <1>7, RefreshLinks
<1>8. ASSUME NEW r \in Requests, Refuse(r) PROVE Links'
  BY <1>2, <1>8, RefuseLinks
<1>9. ASSUME NEW r \in Requests, RefreshFails(r) PROVE Links'
  <2>1. At(r, "resolve") /\ Goto(r, Resolved(r, request[r].sent.access)) /\ cookie' = cookie
    BY <1>9 DEF RefreshFails
  <2>2. CASE UNCHANGED <<provider, issued, smooth>>
    BY <1>2, <2>1, <2>2, PlainLinks
  <2>3. CASE Accept(RefreshWith(request[r].sent)) /\ smooth' = (smooth /\ Lasting)
    BY <1>2, <2>1, <2>3, LostLinks
  <2>. QED BY <1>9, <2>2, <2>3 DEF RefreshFails
<1>10. ASSUME NEW r \in Requests, Respond(r) PROVE Links'
  <2>1. CASE request[r].set # None
    BY <1>2, <1>10, <2>1, RespondLinks
  <2>2. CASE request[r].set = None
    BY <1>2, <1>10, <2>2, EndLinks DEF Respond, Active, At
  <2>. QED BY <2>1, <2>2
<1>11. ASSUME NEW r \in Requests, ResponseLost(r) PROVE Links'
  <2>1. request[r].set = None \/ Lasting
    BY <1>11 DEF ResponseLost, TypeInv
  <2>. QED BY <1>2, <1>11, <2>1, EndLinks DEF ResponseLost, Active, At
<1>12. CASE UNCHANGED vars
  BY <1>3, <1>12 DEF vars
<1>. QED BY <1>4, <1>5, <1>6, <1>7, <1>8, <1>9, <1>10, <1>11, <1>12 DEF Next

LEMMA ChainSuffices == ASSUME NoneIsNothing, TypeInv, Chain PROVE RefreshChainUnbroken
<1>. SUFFICES ASSUME smooth
     PROVE  /\ \/ RefreshWith(cookie) \in provider.good
               \/ \E r \in Requests : HasNew(r) /\ RefreshWith(request[r].set) \in provider.good
            /\ (\A r \in Requests : ~Active(r)) => RefreshWith(cookie) \in provider.good
            /\ \A r \in Requests : Active(r) /\ request[r].refused =>
                 provider.kind = "rotates" /\ issued > request[r].sent.access
  BY DEF RefreshChainUnbroken, HasNew, Active
<1>1. Keeps /\ Exchanges /\ Rotates
  BY DEF Chain
<1>2. issued \in Nat /\ cookie \in TokenRecords /\ provider.kind \in Providers
  BY DEF TypeInv
<1>3. CASE provider.kind = "keeps"
  <2>1. RefreshWith(cookie) = <<"refresh", 1>>
    BY <1>1, <1>3 DEF Keeps, RefreshWith, NoneIsNothing
  <2>. QED BY <2>1, <1>1, <1>3 DEF Keeps
<1>4. CASE provider.kind = "exchanges"
  <2>1. RefreshWith(cookie) = <<"access", cookie.access>>
    BY <1>1, <1>4 DEF Exchanges, RefreshWith
  <2>. QED BY <2>1, <1>1, <1>4 DEF Exchanges
<1>5. CASE provider.kind \in {"rotates", "revokes"}
  <2>1. ASSUME \A r \in Requests : ~HasNew(r) PROVE RefreshWith(cookie) \in provider.good
    <3>1. cookie.refresh = issued /\ provider.good = {<<"refresh", issued>>}
      BY <2>1, <1>1, <1>5 DEF Rotates
    <3>. QED BY <3>1, <1>2 DEF RefreshWith, NoneIsNothing
  <2>2. ASSUME NEW r \in Requests, HasNew(r) PROVE RefreshWith(request[r].set) \in provider.good
    <3>1. request[r].set.refresh = issued /\ provider.good = {<<"refresh", issued>>}
      BY <2>2, <1>1, <1>5 DEF Rotates, HasNew
    <3>. QED BY <3>1, <1>2 DEF RefreshWith, NoneIsNothing
  <2>3. (\A r \in Requests : ~Active(r)) => RefreshWith(cookie) \in provider.good
    BY <2>1 DEF HasNew
  <2>4. ASSUME NEW r \in Requests, Active(r), request[r].refused
        PROVE  provider.kind = "rotates" /\ issued > request[r].sent.access
    <3>1. request[r].sent.access \in Nat
      BY <2>4, ActiveIsFull DEF Full, TokenRecords
    <3>. QED BY <2>4, <3>1, <1>1, <1>2, <1>5 DEF Rotates
  <2>. QED BY <2>1, <2>2, <2>3, <2>4
<1>. QED BY <1>2, <1>3, <1>4, <1>5 DEF Providers

\* Overlapping requests that name the access token any number of times make the user log in
\* again only by what RefreshChainUnbroken names (get_access_token and resolve_secret_tokens,
\* proxy_request.py:33-153; the cookie that the response sets).
THEOREM RefreshChainUnbrokenAlways ==
    ASSUME NoneIsNothing, NamesAreCounted PROVE Spec => []RefreshChainUnbroken
<1>1. Init => TypeInv /\ Chain
  BY InitTypes, InitChain
<1>2. TypeInv /\ Chain /\ [Next]_vars => TypeInv' /\ Chain'
  BY NextTypes, NextChain
<1>3. TypeInv /\ Chain => RefreshChainUnbroken
  BY ChainSuffices
<1>. QED BY <1>1, <1>2, <1>3, PTL DEF Spec
=============================================================================
