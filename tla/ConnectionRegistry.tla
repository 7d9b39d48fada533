------------------------- MODULE ConnectionRegistry -------------------------
(***************************************************************************)
(* The registry of database connections of a Jet Bridge process: db.py     *)
(* (connect_database, wait_pending_connection, dispose_connection,         *)
(* create_session, get_connection_tunnel), the SSH tunnel and its check    *)
(* thread (ssh_tunnel.py) and the reload view (views/reload.py).           *)
(*                                                                         *)
(* Both dictionaries, `connections` and `pending_connections`, are indexed *)
(* by the connection id and no operation touches two ids, so the module    *)
(* describes ONE id; the SSH settings are part of the id (conf.py), hence  *)
(* Tunneled is a constant.  Neither dictionary is protected by a lock: the *)
(* atomic steps are single dictionary operations.                          *)
(*                                                                         *)
(* A call makes at most one connection attempt, so the pending entry, the  *)
(* condition variable, the engine, the tunnel and the connection object    *)
(* that a call creates are all named by the call itself.                   *)
(***************************************************************************)
EXTENDS Naturals, FiniteSets

CONSTANTS Calls,          \* calls of get_request_connection / create_session / ReloadView.post
          NoCall,         \* Python's None where a call's object is expected
          Params,         \* values of get_connection_params_id
          CallKinds,      \* the kinds of calls that occur, a subset of Kinds
          Workers,        \* size of the thread pool that runs the calls
          Tunneled,       \* the configuration asks for an SSH tunnel
          DisposeMayFail  \* engine.dispose() may raise

\* The check thread of the tunnel that a call started (ssh_tunnel.py).
Checker(c) == <<"check", c>>
Checkers == {Checker(c) : c \in Calls}
Threads == Calls \cup Checkers

\* get_request_connection, create_session, ReloadView.post.
Kinds == {"plain", "session", "reload"}

ASSUME RegistryAssumption ==
    /\ CallKinds \subseteq Kinds
    /\ NoCall \notin Calls
    /\ Calls \cap Checkers = {}
    /\ Workers \in Nat \ {0}
    /\ Tunneled \in BOOLEAN
    /\ DisposeMayFail \in BOOLEAN

VARIABLES
    registered,   \* connections.get(id): the call whose connection is registered
    pending,      \* pending_connections.get(id)
    engine,       \* engine[c]: the engine of the connection made by c
    tunnel,       \* tunnel[c]: the ssh process started by c
    params,       \* params[c]: the params id the call c asked for
    kind,         \* kind[c]: what called connect_database
    pc,           \* where each thread is
    victim,       \* the connection a thread captured to dispose of it
    resume,       \* where a thread goes on after dispose_connection
    waitsOn,      \* waitsOn[c]: the pending attempt whose condition c waits on
    result,       \* result[c]: the connection that connect_database(c) returns
    blacklisted,  \* is_hostname_blacklisted(host), read again on every call
    seen,         \* history: seen[t]: the connections that had come into the
                  \* registry when t last looked there, before it went on to
                  \* make or dispose of one
    undisposed    \* history: the connections whose engine.dispose() has raised

vars == <<registered, pending, engine, tunnel, params, kind, pc, victim, resume,
          waitsOn, result, blacklisted, seen, undisposed>>

CallerPCs == {"idle", "check", "lookup", "pending_get", "wait_enter", "waiting",
              "wait_found", "claim", "tunnel", "init", "register", "reread",
              "except", "finally", "compare", "delete", "notify", "got", "returned",
              "raised"}
DisposePCs == {"dispose", "dispose_object", "dispose_del"}
CheckerPCs == {"off", "watching", "on_close", "ended"}

\* The program counters of a call between its claim of the pending entry and
\* the `finally` block that gives the entry up.
Connecting == {"tunnel", "init", "register", "reread", "except", "finally", "compare",
               "delete"}
Ended == {"returned", "raised"}

TypeOK ==
    /\ registered \in Calls \cup {NoCall}
    /\ pending \in Calls \cup {NoCall}
    /\ engine \in [Calls -> {"none", "open", "abandoned", "disposed"}]
    /\ tunnel \in [Calls -> {"none", "up", "down"}]
    /\ params \in [Calls -> Params]
    /\ kind \in [Calls -> CallKinds]
    /\ pc \in [Threads -> CallerPCs \cup DisposePCs \cup CheckerPCs]
    /\ victim \in [Threads -> Calls \cup {NoCall}]
    /\ \A t \in Threads : pc[t] \in {"dispose_object", "dispose_del"} => victim[t] \in Calls
    /\ resume \in [Threads -> {"check", "pending_get", "raised", "ended"}]
    /\ waitsOn \in [Calls -> Calls \cup {NoCall}]
    /\ result \in [Calls -> Calls \cup {NoCall}]
    /\ blacklisted \in BOOLEAN
    /\ seen \in [Threads -> SUBSET Calls]
    /\ undisposed \subseteq Calls

Init ==
    /\ registered = NoCall
    /\ pending = NoCall
    /\ engine = [c \in Calls |-> "none"]
    /\ tunnel = [c \in Calls |-> "none"]
    /\ params \in [Calls -> Params]
    /\ kind \in [Calls -> CallKinds]
    /\ pc = [t \in Threads |-> IF t \in Calls THEN "idle" ELSE "off"]
    /\ victim = [t \in Threads |-> NoCall]
    /\ resume = [t \in Threads |-> "ended"]
    /\ waitsOn = [c \in Calls |-> NoCall]
    /\ result = [c \in Calls |-> NoCall]
    /\ blacklisted = FALSE
    /\ seen = [t \in Threads |-> {}]
    /\ undisposed = {}

-----------------------------------------------------------------------------
(* Helpers: a thread moves on; a thread calls dispose_connection.          *)

Goto(t, l) == pc' = [pc EXCEPT ![t] = l]

CallDispose(t, next) ==
    /\ Goto(t, "dispose")
    /\ resume' = [resume EXCEPT ![t] = next]

Running(c) == pc[c] \notin {"idle"} \cup Ended

\* A connection that a call has finished setting up or failed to.
Resources == <<engine, tunnel>>
Choices == <<params, kind, blacklisted>>
Disposal == <<victim, resume>>
History == <<seen, undisposed>>

\* The connections that have been registered, since then dropped or not.
Made == {c \in Calls : engine[c] \in {"open", "disposed"} /\ pc[c] # "register"}

\* Thread t reads connections.get(id) and goes on with what it has read.
Look(t) == seen' = [seen EXCEPT ![t] = Made]

-----------------------------------------------------------------------------
(* connect_database                                                        *)

\* Mutant of Start: a reload skips the blacklist.
StartPastBlacklist(c) ==
    /\ pc[c] = "idle"
    /\ Cardinality({d \in Calls : Running(d)}) < Workers
    /\ IF kind[c] = "reload"
       THEN CallDispose(c, "lookup")
       ELSE Goto(c, "check") /\ UNCHANGED resume
    /\ UNCHANGED <<registered, pending, Resources, Choices, victim, waitsOn, result, History>>

\* A free worker of the pool starts the call; ReloadView.post disposes of the
\* registered connection first.
Start(c) ==
    /\ pc[c] = "idle"
    /\ Cardinality({d \in Calls : Running(d)}) < Workers
    /\ IF kind[c] = "reload"
       THEN CallDispose(c, "check")
       ELSE Goto(c, "check") /\ UNCHANGED resume
    /\ UNCHANGED <<registered, pending, Resources, Choices, victim, waitsOn, result, History>>

CheckBlacklist(c) ==
    /\ pc[c] = "check"
    /\ Goto(c, IF blacklisted THEN "raised" ELSE "lookup")
    /\ UNCHANGED <<registered, pending, Resources, Choices, Disposal, waitsOn, result, History>>

\* Mutant of Lookup: the params are not compared.
LookupAnyParams(c) ==
    /\ pc[c] = "lookup"
    /\ Look(c)
    /\ result' = [result EXCEPT ![c] = registered]
    /\ Goto(c, IF registered = NoCall THEN "pending_get" ELSE "got")
    /\ UNCHANGED <<registered, pending, Resources, Choices, Disposal, waitsOn, undisposed>>

\* Mutant of Lookup: a connection with other params is replaced undisposed.
LookupWithoutDispose(c) ==
    /\ pc[c] = "lookup"
    /\ Look(c)
    /\ IF registered # NoCall /\ params[registered] = params[c]
       THEN result' = [result EXCEPT ![c] = registered] /\ Goto(c, "got")
       ELSE Goto(c, "pending_get") /\ UNCHANGED result
    /\ UNCHANGED <<registered, pending, Resources, Choices, Disposal, waitsOn, undisposed>>

\* The registered connection is returned if its params are the wanted ones and
\* disposed of if they are not; the outcome of that disposal is ignored.
Lookup(c) ==
    /\ pc[c] = "lookup"
    /\ Look(c)
    /\ \/ /\ registered = NoCall
          /\ Goto(c, "pending_get")
          /\ UNCHANGED <<resume, result>>
       \/ /\ registered # NoCall
          /\ params[registered] = params[c]
          /\ result' = [result EXCEPT ![c] = registered]
          /\ Goto(c, "got")
          /\ UNCHANGED resume
       \/ /\ registered # NoCall
          /\ params[registered] # params[c]
          /\ CallDispose(c, "pending_get")
          /\ UNCHANGED result
    /\ UNCHANGED <<registered, pending, Resources, Choices, victim, waitsOn, undisposed>>

\* wait_pending_connection reads the pending entry ...
GetPending(c) ==
    /\ pc[c] = "pending_get"
    /\ waitsOn' = [waitsOn EXCEPT ![c] = pending]
    /\ Goto(c, IF pending = NoCall THEN "claim" ELSE "wait_enter")
    /\ UNCHANGED <<registered, pending, Resources, Choices, Disposal, result, History>>

\* ... and waits on its condition, whatever has happened to the entry since.
EnterWait(c) ==
    /\ pc[c] = "wait_enter"
    /\ Goto(c, "waiting")
    /\ UNCHANGED <<registered, pending, Resources, Choices, Disposal, waitsOn, result, History>>

\* Mutant of WaitTimeout: the wait has no timeout.
WaitForever(c) == FALSE /\ UNCHANGED vars

\* condition.wait(timeout=600 s) gives up.
WaitTimeout(c) ==
    /\ pc[c] = "waiting"
    /\ Goto(c, "wait_found")
    /\ UNCHANGED <<registered, pending, Resources, Choices, Disposal, waitsOn, result, History>>

\* After the wait any registered connection will do: its params are not compared.
FindAfterWait(c) ==
    /\ pc[c] = "wait_found"
    /\ waitsOn' = [waitsOn EXCEPT ![c] = NoCall]
    /\ \/ /\ registered # NoCall
          /\ result' = [result EXCEPT ![c] = registered]
          /\ Goto(c, "got")
          /\ UNCHANGED seen
       \/ /\ registered = NoCall
          /\ Look(c)
          /\ Goto(c, "claim")
          /\ UNCHANGED result
    /\ UNCHANGED <<registered, pending, Resources, Choices, Disposal, undisposed>>

\* pending_connections[id] = own entry, over whatever is there.
Claim(c) ==
    /\ pc[c] = "claim"
    /\ pending' = c
    /\ Goto(c, "tunnel")
    /\ UNCHANGED <<registered, Resources, Choices, Disposal, waitsOn, result, History>>

\* SSHTunnel.start: ssh runs and its check thread is started, or it raises.
StartTunnel(c) ==
    /\ pc[c] = "tunnel"
    /\ \/ /\ ~Tunneled
          /\ Goto(c, "init")
          /\ UNCHANGED tunnel
       \/ /\ Tunneled
          /\ tunnel' = [tunnel EXCEPT ![c] = "up"]
          /\ pc' = [pc EXCEPT ![c] = "init", ![Checker(c)] = "watching"]
       \/ /\ Tunneled
          /\ Goto(c, "except")
          /\ UNCHANGED tunnel
    /\ UNCHANGED <<registered, pending, engine, Choices, Disposal, waitsOn, result, History>>

\* init_database_connection: succeeds or raises, with an engine that was created by
\* then left as it is.  It may succeed although the
\* tunnel is down by now: what follows the last query needs no tunnel.
InitConnection(c) ==
    /\ pc[c] = "init"
    /\ \/ /\ engine' = [engine EXCEPT ![c] = "open"]
          /\ Goto(c, "register")
       \/ /\ engine' \in {engine, [engine EXCEPT ![c] = "abandoned"]}
          /\ Goto(c, "except")
    /\ UNCHANGED <<registered, pending, tunnel, Choices, Disposal, waitsOn, result, History>>

\* connections[id] = {...}, over whatever is there.
Register(c) ==
    /\ pc[c] = "register"
    /\ registered' = c
    /\ Goto(c, "reread")
    /\ UNCHANGED <<pending, Resources, Choices, Disposal, waitsOn, result, History>>

\* Mutant of Reread: the attempt insists on its own connection.
RereadRestores(c) ==
    /\ pc[c] = "reread"
    /\ registered' = c
    /\ result' = [result EXCEPT ![c] = c]
    /\ Goto(c, "finally")
    /\ UNCHANGED <<pending, Resources, Choices, Disposal, waitsOn, History>>

\* return connections[id] reads the registry again: KeyError if disposed since.
Reread(c) ==
    /\ pc[c] = "reread"
    /\ result' = [result EXCEPT ![c] = registered]
    /\ Goto(c, IF registered = NoCall THEN "except" ELSE "finally")
    /\ UNCHANGED <<registered, pending, Resources, Choices, Disposal, waitsOn, History>>

\* process.kill() on the tunnel of call c, if it has one.
Killed(c) == IF tunnel[c] = "up" THEN [tunnel EXCEPT ![c] = "down"] ELSE tunnel

\* Mutant of CloseOnError: the tunnel is forgotten.
CloseForgotten(c) ==
    /\ pc[c] = "except"
    /\ Goto(c, "finally")
    /\ UNCHANGED <<registered, pending, Resources, Choices, Disposal, waitsOn, result, History>>

\* except Exception: the tunnel of the attempt is closed, then re-raise.
CloseOnError(c) ==
    /\ pc[c] = "except"
    /\ tunnel' = Killed(c)
    /\ Goto(c, "finally")
    /\ UNCHANGED <<registered, pending, engine, Choices, Disposal, waitsOn, result, History>>

\* Mutant of CheckPending: the entry is given up on success only.
CheckPendingOnSuccess(c) ==
    /\ pc[c] = "finally"
    /\ Goto(c, IF pending # NoCall /\ result[c] # NoCall THEN "compare" ELSE "notify")
    /\ UNCHANGED <<registered, pending, Resources, Choices, Disposal, waitsOn, result, History>>

\* finally: is there a pending entry ...
CheckPending(c) ==
    /\ pc[c] = "finally"
    /\ Goto(c, IF pending = NoCall THEN "notify" ELSE "compare")
    /\ UNCHANGED <<registered, pending, Resources, Choices, Disposal, waitsOn, result, History>>

\* A KeyError leaves the finally block before notify_all and replaces the result.
KeyErrorInFinally(c) ==
    /\ Goto(c, "raised")
    /\ result' = [result EXCEPT ![c] = NoCall]

\* ... and is it the own one?  It is read again: KeyError if it is gone.
ComparePending(c) ==
    /\ pc[c] = "compare"
    /\ \/ /\ pending # NoCall
          /\ Goto(c, IF pending = c THEN "delete" ELSE "notify")
          /\ UNCHANGED result
       \/ /\ pending = NoCall
          /\ KeyErrorInFinally(c)
    /\ UNCHANGED <<registered, pending, Resources, Choices, Disposal, waitsOn, History>>

\* del pending_connections[id] removes whatever entry is there by now.
DeletePending(c) ==
    /\ pc[c] = "delete"
    /\ \/ /\ pending # NoCall
          /\ pending' = NoCall
          /\ Goto(c, "notify")
          /\ UNCHANGED result
       \/ /\ pending = NoCall
          /\ KeyErrorInFinally(c)
          /\ UNCHANGED pending
    /\ UNCHANGED <<registered, Resources, Choices, Disposal, waitsOn, History>>

\* connected_condition.notify_all wakes the calls that wait by now.
Notify(c) ==
    /\ pc[c] = "notify"
    /\ pc' = [t \in Threads |->
                 IF t = c THEN IF result[c] = NoCall THEN "raised" ELSE "got"
                 ELSE IF t \in Calls /\ pc[t] = "waiting" /\ waitsOn[t] = c
                      THEN "wait_found" ELSE pc[t]]
    /\ UNCHANGED <<registered, pending, Resources, Choices, Disposal, waitsOn, result, History>>

\* create_session checks the blacklist once more: if the host is on it by now, the
\* registered connection is disposed of and the call raises.
Finish(c) ==
    /\ pc[c] = "got"
    /\ IF kind[c] = "session" /\ blacklisted
       THEN CallDispose(c, "raised")
       ELSE Goto(c, "returned") /\ UNCHANGED resume
    /\ UNCHANGED <<registered, pending, Resources, Choices, victim, waitsOn, result, History>>

-----------------------------------------------------------------------------
(* dispose_connection, run by a call or by a check thread                  *)

Dispose(t) ==
    /\ pc[t] = "dispose"
    /\ Look(t)
    /\ victim' = [victim EXCEPT ![t] = registered]
    /\ Goto(t, IF registered = NoCall THEN resume[t] ELSE "dispose_object")
    /\ UNCHANGED <<registered, pending, Resources, Choices, resume, waitsOn, result, undisposed>>

\* Mutant of DisposeObject: the outcome of a success is not reported.
DisposeObjectOnly(t) ==
    /\ pc[t] = "dispose_object"
    /\ engine' = [engine EXCEPT ![victim[t]] = "disposed"]
    /\ tunnel' = Killed(victim[t])
    /\ victim' = [victim EXCEPT ![t] = NoCall]
    /\ Goto(t, resume[t])
    /\ UNCHANGED <<registered, pending, Choices, resume, waitsOn, result, History>>

\* dispose_connection_object: engine.dispose(), then tunnel.close(); if the first
\* raises, the connection stays registered as it is.
DisposeObject(t) ==
    /\ pc[t] = "dispose_object"
    /\ \/ /\ engine' = [engine EXCEPT ![victim[t]] = "disposed"]
          /\ tunnel' = Killed(victim[t])
          /\ Goto(t, "dispose_del")
          /\ UNCHANGED <<victim, undisposed>>
       \/ /\ DisposeMayFail
          /\ undisposed' = undisposed \cup {victim[t]}
          /\ victim' = [victim EXCEPT ![t] = NoCall]
          /\ Goto(t, resume[t])
          /\ UNCHANGED Resources
    /\ UNCHANGED <<registered, pending, Choices, resume, waitsOn, result, seen>>

\* del connections[id] removes whatever is registered by now; KeyError if nothing
\* is: a call raises, a check thread dies.
DeleteRegistered(t) ==
    /\ pc[t] = "dispose_del"
    /\ registered' = NoCall
    /\ victim' = [victim EXCEPT ![t] = NoCall]
    /\ Goto(t, IF registered # NoCall THEN resume[t]
               ELSE IF t \in Calls THEN "raised" ELSE "ended")
    /\ UNCHANGED <<pending, Resources, Choices, resume, waitsOn, result, History>>

-----------------------------------------------------------------------------
(* The check thread of a tunnel, and the environment                       *)

\* Every 5 s execute_check_thread polls the process and probes the port.
CheckTunnel(c) ==
    /\ pc[Checker(c)] = "watching"
    /\ tunnel[c] = "down"
    /\ Goto(Checker(c), "on_close")
    /\ UNCHANGED <<registered, pending, Resources, Choices, Disposal, waitsOn, result, History>>

\* Mutant of OnClose: the callback only logs.
OnCloseLogs(c) ==
    /\ pc[Checker(c)] = "on_close"
    /\ Goto(Checker(c), "ended")
    /\ UNCHANGED <<registered, pending, Resources, Choices, Disposal, waitsOn, result, History>>

\* on_close disposes of the connection registered by now, if there is one.
OnClose(c) ==
    /\ pc[Checker(c)] = "on_close"
    /\ IF registered # NoCall
       THEN CallDispose(Checker(c), "ended")
       ELSE Goto(Checker(c), "ended") /\ UNCHANGED resume
    /\ UNCHANGED <<registered, pending, Resources, Choices, victim, waitsOn, result, History>>

\* External: the ssh process exits or its forwarding stops answering.
TunnelDrops(c) ==
    /\ tunnel[c] = "up"
    /\ tunnel' = [tunnel EXCEPT ![c] = "down"]
    /\ UNCHANGED <<registered, pending, engine, Choices, pc, Disposal, waitsOn, result, History>>

\* External: the operator adds the host to BLACKLIST_HOSTS.
Blacklist ==
    /\ ~blacklisted
    /\ blacklisted' = TRUE
    /\ UNCHANGED <<registered, pending, Resources, params, kind, pc, Disposal, waitsOn, result, History>>

-----------------------------------------------------------------------------

CallStep(c) ==
    \/ CheckBlacklist(c) \/ Lookup(c) \/ GetPending(c) \/ EnterWait(c)
    \/ WaitTimeout(c) \/ FindAfterWait(c) \/ Claim(c) \/ StartTunnel(c)
    \/ InitConnection(c) \/ Register(c) \/ Reread(c) \/ CloseOnError(c)
    \/ CheckPending(c) \/ ComparePending(c) \/ DeletePending(c) \/ Notify(c)
    \/ Finish(c)

DisposeStep(t) == Dispose(t) \/ DisposeObject(t) \/ DeleteRegistered(t)

CheckerStep(c) == CheckTunnel(c) \/ OnClose(c)

Next ==
    \/ \E c \in Calls : Start(c) \/ CallStep(c) \/ CheckerStep(c) \/ TunnelDrops(c)
    \/ \E t \in Threads : DisposeStep(t)
    \/ Blacklist

Spec == Init /\ [][Next]_vars

\* Threads are scheduled, waits time out and calls to ssh and to the database
\* come back; requests, dropped tunnels and the blacklist need not happen.
Fairness ==
    /\ \A c \in Calls : WF_vars(CallStep(c)) /\ WF_vars(CheckerStep(c))
    /\ \A t \in Threads : WF_vars(DisposeStep(t))

FairSpec == Spec /\ Fairness

-----------------------------------------------------------------------------
(* Properties                                                              *)

\* A pending entry always belongs to a connection attempt in flight, so no later
\* call can wait 10 minutes for an attempt that is over (connect_database's
\* finally block, which deletes the entry by a check and a separate del).
PendingHasConnector ==
    pending # NoCall => pc[pending] \in Connecting

\* A connection whose engine has been disposed of stays registered only while a
\* thread that captured it is about to delete it, however disposals, connection
\* attempts and tunnel checks interleave.
NoZombieRegistration ==
    registered # NoCall /\ engine[registered] = "disposed" =>
        \E t \in Threads : pc[t] = "dispose_del" /\ victim[t] = registered

\* When a call is over, the tunnel it started is up only if its engine is open too:
\* a failed attempt and a disposal both close the tunnel.
NoTunnelWithoutEngine ==
    \A c \in Calls : pc[c] \in Ended /\ tunnel[c] = "up" => engine[c] = "open"

\* A connection leaves the registry with its engine open (and is in use by nobody who
\* could dispose of it later) only in a race: the thread that registers its own
\* connection, or deletes the one it has disposed of, looked at the registry before the
\* lost one came there, and nothing made it look again.  Or engine.dispose() raised on
\* the lost one, which connect_database ignores.
DropsOnlyUnseen ==
    [][\A c \in Calls : registered = c /\ registered' # c /\ engine[c] = "open" =>
          \/ c \in undisposed
          \/ \E t \in Threads :
                /\ c \notin seen[t]
                /\ \/ pc[t] = "register" /\ registered' = t
                   \/ pc[t] = "dispose_del" /\ pc'[t] # "dispose_del"]_vars

\* A call returns a connection with the params it asked for, unless that connection came
\* into the registry after the call had looked there and found none, or one to dispose
\* of (connect_database compares no params after its wait, nor when it reads its own
\* registration again), or could not be disposed of.
GetsRequestedParams ==
    \A c \in Calls : pc[c] = "returned" =>
        \/ params[result[c]] = params[c]
        \/ result[c] \notin seen[c]
        \/ result[c] \in undisposed

\* A connection that the registry drops is never registered again: only a
\* connection whose engine is open and which nobody captured is put there.
RegistersOnlyFresh ==
    [][registered' \notin {registered, NoCall} =>
          /\ engine[registered'] = "open"
          /\ \A t \in Threads : victim[t] # registered']_vars

\* Every call that starts ends, with a connection or an exception, although the
\* notification it waits for may be lost.
CallsEnd == \A c \in Calls : Running(c) ~> pc[c] \in Ended

\* When the tunnel of a registered connection goes down while its check thread
\* still watches, the connection leaves the registry.
TunnelLossHeals ==
    \A c \in Calls :
        (registered = c /\ tunnel[c] = "down" /\ pc[Checker(c)] = "watching")
            ~> registered # c

\* What the log line of on_close says: when an SSH tunnel is closed the connection
\* that uses it is disposed of.
ClosedTunnelDisposes ==
    \A c \in Calls : (registered = c /\ tunnel[c] = "down") ~> registered # c

\* What the same log line says of every connection that a check thread disposes of:
\* its own tunnel is closed.
DisposesOnlyClosedTunnels ==
    [][\A c \in Calls :
          (pc[Checker(c)] = "dispose_object" /\ pc'[Checker(c)] = "dispose_del")
              => tunnel[victim[Checker(c)]] = "down"]_vars

=============================================================================
