----------------------------- MODULE TokenRefresh -----------------------------
(***************************************************************************)
(* Access tokens of single sign-on applications for proxied requests       *)
(* (serializers/proxy_request.py, external_auth/pipeline.py).  The tokens  *)
(* are kept in a cookie: a request carries a copy of it, refreshes an      *)
(* expired token with the provider, and its response sets the new one.     *)
(*                                                                         *)
(* The browser, the network and the provider are external: requests        *)
(* overlap, answers are lost, and providers differ in what becomes of a    *)
(* refresh token that was used.                                            *)
(***************************************************************************)
EXTENDS Integers, FiniteSets, Sequences

CONSTANTS Requests, None,
          NameCounts,   \* how many of a request's secret tokens may name the access token
          MaxTokens     \* bounds the tokens a provider issues

\* What becomes of a refresh token that was used: it stays good, or a new one takes its
\* place, or its second use is taken for a theft and ends the chain; some providers know
\* no refresh tokens and exchange access tokens.
Providers == {"keeps", "rotates", "revokes", "exchanges"}

VARIABLES
    provider,   \* its kind; whether it tells the expiry; the refresh tokens that are good
    issued,     \* tokens issued so far: the number of the last one
    expired,    \* access tokens up to this one have expired
    cookie,     \* of the browser: [access, refresh, expires]
    request,    \* request[r]: where it is, its cookies, the names to resolve
    smooth      \* history: nothing has broken the chain of refresh tokens, see RefreshChainUnbroken

vars == <<provider, issued, expired, cookie, request, smooth>>

Idle == [pc |-> "idle"]
At(r, pc) == request[r].pc = pc
Goto(r, record) == request' = [request EXCEPT ![r] = record]

\* save_extra_data: what a login leaves in the cookie.
Tokens(n, refresh, expires) == [access |-> n, refresh |-> refresh, expires |-> expires]

Init ==
    /\ \E kind \in Providers, tells \in BOOLEAN :
        /\ provider = [kind |-> kind, tells |-> tells,
                       good |-> {IF kind = "exchanges" THEN <<"access", 1>> ELSE <<"refresh", 1>>}]
        /\ cookie = Tokens(1, IF kind = "exchanges" THEN None ELSE 1, tells)
    /\ issued = 1 /\ expired = 0
    /\ request = [r \in Requests |-> Idle]
    /\ smooth = TRUE

-----------------------------------------------------------------------------
(* One request for a proxied resource                                      *)

\* A provider that takes no token back: nothing is lost with an answer of it.
Lasting == provider.kind \in {"keeps", "exchanges"}

\* The secret tokens may name the access token more than once.
Send(r, names) ==
    /\ At(r, "idle")
    /\ Goto(r, [pc |-> "resolve", sent |-> cookie, names |-> names, set |-> None, access |-> None,
                refused |-> FALSE])
    /\ UNCHANGED <<provider, issued, expired, cookie, smooth>>

\* get_access_token: without a refresh token the access token is tried as one.  Without
\* an expiry the token is refreshed every time.
RefreshWith(sent) == IF sent.refresh # None THEN <<"refresh", sent.refresh>> ELSE <<"access", sent.access>>
MustRefresh(sent) == ~sent.expires \/ sent.access <= expired

Resolved(r, access) == [request[r] EXCEPT !.names = @ - 1, !.access = access,
                                          !.pc = IF request[r].names = 1 THEN "respond" ELSE "resolve"]

UseAsIs(r) ==
    /\ At(r, "resolve") /\ ~MustRefresh(request[r].sent)
    /\ Goto(r, Resolved(r, request[r].sent.access))
    /\ UNCHANGED <<provider, issued, expired, cookie, smooth>>

\* A mistake to compare with: the new refresh token is not taken over.
CookieOfOld(sent, refresh) == Tokens(issued + 1, sent.refresh, provider.tells)

\* What the response will set: the provider's tokens, also where it names none.
CookieOf(sent, refresh) == Tokens(issued + 1, refresh, provider.tells)

\* The provider accepts a token: what it then accepts, and the refresh token it sends.
Accept(used) ==
    LET next == <<IF provider.kind = "exchanges" THEN "access" ELSE "refresh", issued + 1>> IN
    /\ used \in provider.good
    /\ provider' = [provider EXCEPT !.good = IF provider.kind = "keeps" THEN @
                                             ELSE IF provider.kind = "exchanges" THEN @ \cup {next}
                                             ELSE (@ \ {used}) \cup {next}]
    /\ issued < MaxTokens /\ issued' = issued + 1

SentWith(used) ==
    CASE provider.kind = "keeps" -> used[2] [] provider.kind = "exchanges" -> None [] OTHER -> issued + 1

\* It may send no refresh token with the access token.
Refresh(r) ==
    /\ At(r, "resolve") /\ MustRefresh(request[r].sent)
    /\ LET sent == request[r].sent
           used == RefreshWith(sent)
       IN /\ Accept(used)
          /\ \E refresh \in {SentWith(used), None} :
              /\ Goto(r, [Resolved(r, issued + 1) EXCEPT !.set = CookieOf(sent, refresh)])
              /\ smooth' = (smooth /\ refresh = SentWith(used))
    /\ UNCHANGED <<expired, cookie>>

\* The provider refuses; get_access_token falls back on the token it has.
Refuse(r) ==
    /\ At(r, "resolve") /\ MustRefresh(request[r].sent)
    /\ RefreshWith(request[r].sent) \notin provider.good
    /\ provider' = IF provider.kind = "revokes" THEN [provider EXCEPT !.good = {}] ELSE provider
    /\ Goto(r, [Resolved(r, request[r].sent.access) EXCEPT !.refused = TRUE])
    /\ smooth' = (smooth /\ provider.kind # "revokes")
    /\ UNCHANGED <<issued, expired, cookie>>

\* The provider is not reached, or its answer is lost.
RefreshFails(r) ==
    /\ At(r, "resolve") /\ MustRefresh(request[r].sent)
    /\ Goto(r, Resolved(r, request[r].sent.access))
    /\ \/ UNCHANGED <<provider, issued, smooth>>
       \/ Accept(RefreshWith(request[r].sent)) /\ smooth' = (smooth /\ Lasting)
    /\ UNCHANGED <<expired, cookie>>

\* submit, with the token in its place; the response is delivered, or lost.
Respond(r) ==
    /\ At(r, "respond")
    /\ cookie' = IF request[r].set = None THEN cookie ELSE request[r].set
    /\ Goto(r, Idle)
    /\ UNCHANGED <<provider, issued, expired, smooth>>

ResponseLost(r) ==
    /\ At(r, "respond")
    /\ Goto(r, Idle)
    /\ smooth' = (smooth /\ (request[r].set = None \/ Lasting))
    /\ UNCHANGED <<provider, issued, expired, cookie>>

Expire ==
    /\ expired < issued /\ expired' = issued
    /\ UNCHANGED <<provider, issued, cookie, request, smooth>>

Next ==
    \/ Expire
    \/ \E r \in Requests :
        \/ \E names \in NameCounts : Send(r, names)
        \/ UseAsIs(r) \/ Refresh(r) \/ Refuse(r) \/ RefreshFails(r)
        \/ Respond(r) \/ ResponseLost(r)

Spec == Init /\ [][Next]_vars

-----------------------------------------------------------------------------
(* Properties                                                              *)

\* Overlapping requests, and the names of one request, refresh the same token, and the last
\* response sets the cookie.  Only this makes the user log in again: the answer to a
\* refresh is lost on its way, from a provider that takes the old token back; a provider
\* sends no refresh token with the new access token; or one sees a refresh token again and
\* revokes the chain.  Short of these the browser has a good refresh token or one is on its
\* way to it, and a request is refused only if another one, or an earlier name of its own,
\* has refreshed the token it carries.
RefreshChainUnbroken ==
    smooth =>
        /\ \/ RefreshWith(cookie) \in provider.good
           \/ \E r \in Requests : ~At(r, "idle") /\ request[r].set # None
                                  /\ RefreshWith(request[r].set) \in provider.good
        /\ (\A r \in Requests : At(r, "idle")) => RefreshWith(cookie) \in provider.good
        /\ \A r \in Requests : ~At(r, "idle") /\ request[r].refused =>
            provider.kind = "rotates" /\ issued > request[r].sent.access
=============================================================================
