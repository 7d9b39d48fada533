---------------------- MODULE ConnectionRegistry_proofs ----------------------
(***************************************************************************)
(* Proofs of the safety properties of ConnectionRegistry, for every number *)
(* of calls, params, workers, with and without tunnels.                    *)
(***************************************************************************)
EXTENDS ConnectionRegistry, TLAPS

\* A check thread is not a call, and each has one tunnel.
LEMMA ThreadFacts ==
    /\ Calls \subseteq Threads
    /\ NoCall \notin Calls
    /\ \A c \in Calls : Checker(c) \in Threads /\ Checker(c) \notin Calls
    /\ \A c, d \in Calls : Checker(c) = Checker(d) => c = d
BY RegistryAssumption DEF Threads, Checkers, Checker

-----------------------------------------------------------------------------
(* Types                                                                   *)

LEMMA TypeInit == Init => TypeOK
<1> SUFFICES ASSUME Init PROVE TypeOK
  OBVIOUS
<1>1. seen \in [Threads -> SUBSET Calls] /\ undisposed \subseteq Calls
  BY DEF Init
<1> QED
  BY <1>1, RegistryAssumption DEF Init, TypeOK, CallerPCs, CheckerPCs

LEMMA TypeStep == TypeOK /\ [Next]_vars => TypeOK'
<1> SUFFICES ASSUME TypeOK, [Next]_vars
             PROVE  TypeOK'
  OBVIOUS
<1> USE ThreadFacts DEF TypeOK, CallerPCs, DisposePCs, CheckerPCs, Resources, Choices, Disposal, History
<1>1. ASSUME NEW c \in Calls, Start(c) PROVE TypeOK'
  BY <1>1 DEF Start, Goto, CallDispose
<1>2. ASSUME NEW c \in Calls, CheckBlacklist(c) PROVE TypeOK'
  BY <1>2 DEF CheckBlacklist, Goto
<1>3. ASSUME NEW c \in Calls, Lookup(c) PROVE TypeOK'
  BY <1>3 DEF Lookup, Goto, CallDispose, Look, Made
<1>4. ASSUME NEW c \in Calls, GetPending(c) PROVE TypeOK'
  BY <1>4 DEF GetPending, Goto
<1>5. ASSUME NEW c \in Calls, EnterWait(c) PROVE TypeOK'
  BY <1>5 DEF EnterWait, Goto
<1>6. ASSUME NEW c \in Calls, WaitTimeout(c) PROVE TypeOK'
  BY <1>6 DEF WaitTimeout, Goto
<1>7. ASSUME NEW c \in Calls, FindAfterWait(c) PROVE TypeOK'
  <2>1. seen' \in [Threads -> SUBSET Calls]
    BY <1>7 DEF FindAfterWait, Look, Made
  <2>2. CASE pc' = [pc EXCEPT ![c] = "got"]
    BY <1>7, <2>1, <2>2 DEF FindAfterWait
  <2>3. CASE pc' = [pc EXCEPT ![c] = "claim"]
    BY <1>7, <2>1, <2>3 DEF FindAfterWait
  <2> QED
    BY <1>7, <2>2, <2>3 DEF FindAfterWait, Goto
<1>8. ASSUME NEW c \in Calls, Claim(c) PROVE TypeOK'
  BY <1>8 DEF Claim, Goto
<1>9. ASSUME NEW c \in Calls, StartTunnel(c) PROVE TypeOK'
  BY <1>9 DEF StartTunnel, Goto
<1>10. ASSUME NEW c \in Calls, InitConnection(c) PROVE TypeOK'
  BY <1>10 DEF InitConnection, Goto
<1>11. ASSUME NEW c \in Calls, Register(c) PROVE TypeOK'
  BY <1>11 DEF Register, Goto
<1>12. ASSUME NEW c \in Calls, Reread(c) PROVE TypeOK'
  BY <1>12 DEF Reread, Goto
<1>13. ASSUME NEW c \in Calls, CloseOnError(c) PROVE TypeOK'
  BY <1>13 DEF CloseOnError, Goto, Killed
<1>14. ASSUME NEW c \in Calls, CheckPending(c) PROVE TypeOK'
  BY <1>14 DEF CheckPending, Goto
<1>15. ASSUME NEW c \in Calls, ComparePending(c) PROVE TypeOK'
  BY <1>15 DEF ComparePending, KeyErrorInFinally, Goto
<1>16. ASSUME NEW c \in Calls, DeletePending(c) PROVE TypeOK'
  BY <1>16 DEF DeletePending, KeyErrorInFinally, Goto
<1>17. ASSUME NEW c \in Calls, Notify(c) PROVE TypeOK'
  BY <1>17 DEF Notify
<1>18. ASSUME NEW c \in Calls, Finish(c) PROVE TypeOK'
  BY <1>18 DEF Finish, Goto, CallDispose
<1>19. ASSUME NEW c \in Calls, CheckTunnel(c) PROVE TypeOK'
  BY <1>19 DEF CheckTunnel, Goto
<1>20. ASSUME NEW c \in Calls, OnClose(c) PROVE TypeOK'
  BY <1>20 DEF OnClose, Goto, CallDispose
<1>21. ASSUME NEW c \in Calls, TunnelDrops(c) PROVE TypeOK'
  BY <1>21 DEF TunnelDrops
<1>22. ASSUME NEW t \in Threads, Dispose(t) PROVE TypeOK'
  BY <1>22 DEF Dispose, Goto, Look, Made
<1>23. ASSUME NEW t \in Threads, DisposeObject(t) PROVE TypeOK'
  BY <1>23 DEF DisposeObject, Goto, Killed
<1>24. ASSUME NEW t \in Threads, DeleteRegistered(t) PROVE TypeOK'
  BY <1>24 DEF DeleteRegistered, Goto
<1>25. CASE Blacklist
  BY <1>25 DEF Blacklist
<1>26. CASE UNCHANGED vars
  BY <1>26 DEF vars
<1> QED
  BY <1>1, <1>2, <1>3, <1>4, <1>5, <1>6, <1>7, <1>8, <1>9,
     <1>10, <1>11, <1>12, <1>13, <1>14, <1>15, <1>16, <1>17, <1>18,
     <1>19, <1>20, <1>21, <1>22, <1>23, <1>24, <1>25, <1>26
  DEF Next, CallStep, DisposeStep, CheckerStep

\* Type correctness: every variable of the registry keeps its type.
THEOREM TypeCorrect == Spec => []TypeOK
<1> QED
  BY TypeInit, TypeStep, PTL DEF Spec

-----------------------------------------------------------------------------
(* A pending entry belongs to an attempt in flight: inductive with TypeOK.  *)

LEMMA PendingStep == TypeOK /\ PendingHasConnector /\ [Next]_vars => PendingHasConnector'
<1> SUFFICES ASSUME TypeOK, PendingHasConnector, [Next]_vars
             PROVE  PendingHasConnector'
  OBVIOUS
<1> USE ThreadFacts DEF TypeOK, PendingHasConnector, Connecting, CallerPCs, DisposePCs, CheckerPCs, Resources, Choices, Disposal, History
<1>1. ASSUME NEW c \in Calls, Start(c) PROVE PendingHasConnector'
  BY <1>1 DEF Start, Goto, CallDispose
<1>2. ASSUME NEW c \in Calls, CheckBlacklist(c) PROVE PendingHasConnector'
  BY <1>2 DEF CheckBlacklist, Goto
<1>3. ASSUME NEW c \in Calls, Lookup(c) PROVE PendingHasConnector'
  BY <1>3 DEF Lookup, Goto, CallDispose, Look, Made
<1>4. ASSUME NEW c \in Calls, GetPending(c) PROVE PendingHasConnector'
  BY <1>4 DEF GetPending, Goto
<1>5. ASSUME NEW c \in Calls, EnterWait(c) PROVE PendingHasConnector'
  BY <1>5 DEF EnterWait, Goto
<1>6. ASSUME NEW c \in Calls, WaitTimeout(c) PROVE PendingHasConnector'
  BY <1>6 DEF WaitTimeout, Goto
<1>7. ASSUME NEW c \in Calls, FindAfterWait(c) PROVE PendingHasConnector'
  BY <1>7 DEF FindAfterWait, Goto, Look, Made
<1>8. ASSUME NEW c \in Calls, Claim(c) PROVE PendingHasConnector'
  BY <1>8 DEF Claim, Goto
<1>9. ASSUME NEW c \in Calls, StartTunnel(c) PROVE PendingHasConnector'
  BY <1>9 DEF StartTunnel, Goto
<1>10. ASSUME NEW c \in Calls, InitConnection(c) PROVE PendingHasConnector'
  BY <1>10 DEF InitConnection, Goto
<1>11. ASSUME NEW c \in Calls, Register(c) PROVE PendingHasConnector'
  BY <1>11 DEF Register, Goto
<1>12. ASSUME NEW c \in Calls, Reread(c) PROVE PendingHasConnector'
  BY <1>12 DEF Reread, Goto
<1>13. ASSUME NEW c \in Calls, CloseOnError(c) PROVE PendingHasConnector'
  BY <1>13 DEF CloseOnError, Goto, Killed
<1>14. ASSUME NEW c \in Calls, CheckPending(c) PROVE PendingHasConnector'
  BY <1>14 DEF CheckPending, Goto
<1>15. ASSUME NEW c \in Calls, ComparePending(c) PROVE PendingHasConnector'
  BY <1>15 DEF ComparePending, KeyErrorInFinally, Goto
<1>16. ASSUME NEW c \in Calls, DeletePending(c) PROVE PendingHasConnector'
  BY <1>16 DEF DeletePending, KeyErrorInFinally, Goto
<1>17. ASSUME NEW c \in Calls, Notify(c) PROVE PendingHasConnector'
  BY <1>17 DEF Notify
<1>18. ASSUME NEW c \in Calls, Finish(c) PROVE PendingHasConnector'
  BY <1>18 DEF Finish, Goto, CallDispose
<1>19. ASSUME NEW c \in Calls, CheckTunnel(c) PROVE PendingHasConnector'
  BY <1>19 DEF CheckTunnel, Goto
<1>20. ASSUME NEW c \in Calls, OnClose(c) PROVE PendingHasConnector'
  BY <1>20 DEF OnClose, Goto, CallDispose
<1>21. ASSUME NEW c \in Calls, TunnelDrops(c) PROVE PendingHasConnector'
  BY <1>21 DEF TunnelDrops
<1>22. ASSUME NEW t \in Threads, Dispose(t) PROVE PendingHasConnector'
  BY <1>22 DEF Dispose, Goto, Look, Made
<1>23. ASSUME NEW t \in Threads, DisposeObject(t) PROVE PendingHasConnector'
  BY <1>23 DEF DisposeObject, Goto, Killed
<1>24. ASSUME NEW t \in Threads, DeleteRegistered(t) PROVE PendingHasConnector'
  BY <1>24 DEF DeleteRegistered, Goto
<1>25. CASE Blacklist
  BY <1>25 DEF Blacklist
<1>26. CASE UNCHANGED vars
  BY <1>26 DEF vars
<1> QED
  BY <1>1, <1>2, <1>3, <1>4, <1>5, <1>6, <1>7, <1>8, <1>9,
     <1>10, <1>11, <1>12, <1>13, <1>14, <1>15, <1>16, <1>17, <1>18,
     <1>19, <1>20, <1>21, <1>22, <1>23, <1>24, <1>25, <1>26
  DEF Next, CallStep, DisposeStep, CheckerStep

\* No later call can wait for an attempt that is over: connect_database's finally
\* block never leaves an entry of its own behind, whichever way it interleaves.
THEOREM PendingHasConnectorAlways == Spec => []PendingHasConnector
<1>1. Init => PendingHasConnector
  BY DEF Init, PendingHasConnector
<1> QED
  BY <1>1, TypeCorrect, PendingStep, PTL DEF Spec

-----------------------------------------------------------------------------
(* Connections that are not registered yet.                                *)

\* The program counters of a call before it registers its connection; a call that
\* disposes of another connection meanwhile is told by where it goes on.
BeforeRegister == {"idle", "check", "lookup", "pending_get", "wait_enter", "waiting",
                   "wait_found", "claim", "tunnel", "init", "register"}
Unregistered(c) ==
    \/ pc[c] \in BeforeRegister
    \/ pc[c] \in DisposePCs /\ resume[c] \in {"check", "pending_get"}

\* Nobody has got hold of a connection that is not registered yet, and it is
\* registered with an open engine; its check thread begins with its tunnel.
Fresh ==
    \A c \in Calls : Unregistered(c) =>
        /\ registered # c
        /\ \A t \in Threads : victim[t] # c
        /\ pc[c] = "register" => engine[c] = "open"
        /\ pc[c] \notin {"init", "register"} => pc[Checker(c)] = "off"

LEMMA FreshStep == TypeOK /\ Fresh /\ [Next]_vars => Fresh'
<1> SUFFICES ASSUME TypeOK, Fresh, [Next]_vars
             PROVE  Fresh'
  OBVIOUS
<1> USE ThreadFacts DEF TypeOK, Fresh, Unregistered, BeforeRegister, CallerPCs, DisposePCs, CheckerPCs, Resources, Choices, Disposal, History
<1>1. ASSUME NEW c \in Calls, Start(c) PROVE Fresh'
  BY <1>1 DEF Start, Goto, CallDispose
<1>2. ASSUME NEW c \in Calls, CheckBlacklist(c) PROVE Fresh'
  BY <1>2 DEF CheckBlacklist, Goto
<1>3. ASSUME NEW c \in Calls, Lookup(c) PROVE Fresh'
  BY <1>3 DEF Lookup, Goto, CallDispose, Look, Made
<1>4. ASSUME NEW c \in Calls, GetPending(c) PROVE Fresh'
  BY <1>4 DEF GetPending, Goto
<1>5. ASSUME NEW c \in Calls, EnterWait(c) PROVE Fresh'
  BY <1>5 DEF EnterWait, Goto
<1>6. ASSUME NEW c \in Calls, WaitTimeout(c) PROVE Fresh'
  BY <1>6 DEF WaitTimeout, Goto
<1>7. ASSUME NEW c \in Calls, FindAfterWait(c) PROVE Fresh'
  BY <1>7 DEF FindAfterWait, Goto, Look, Made
<1>8. ASSUME NEW c \in Calls, Claim(c) PROVE Fresh'
  BY <1>8 DEF Claim, Goto
<1>9. ASSUME NEW c \in Calls, StartTunnel(c) PROVE Fresh'
  BY <1>9 DEF StartTunnel, Goto
<1>10. ASSUME NEW c \in Calls, InitConnection(c) PROVE Fresh'
  BY <1>10 DEF InitConnection, Goto
<1>11. ASSUME NEW c \in Calls, Register(c) PROVE Fresh'
  BY <1>11 DEF Register, Goto
<1>12. ASSUME NEW c \in Calls, Reread(c) PROVE Fresh'
  BY <1>12 DEF Reread, Goto
<1>13. ASSUME NEW c \in Calls, CloseOnError(c) PROVE Fresh'
  BY <1>13 DEF CloseOnError, Goto, Killed
<1>14. ASSUME NEW c \in Calls, CheckPending(c) PROVE Fresh'
  BY <1>14 DEF CheckPending, Goto
<1>15. ASSUME NEW c \in Calls, ComparePending(c) PROVE Fresh'
  BY <1>15 DEF ComparePending, KeyErrorInFinally, Goto
<1>16. ASSUME NEW c \in Calls, DeletePending(c) PROVE Fresh'
  BY <1>16 DEF DeletePending, KeyErrorInFinally, Goto
<1>17. ASSUME NEW c \in Calls, Notify(c) PROVE Fresh'
  BY <1>17 DEF Notify
<1>18. ASSUME NEW c \in Calls, Finish(c) PROVE Fresh'
  BY <1>18 DEF Finish, Goto, CallDispose
<1>19. ASSUME NEW c \in Calls, CheckTunnel(c) PROVE Fresh'
  BY <1>19 DEF CheckTunnel, Goto
<1>20. ASSUME NEW c \in Calls, OnClose(c) PROVE Fresh'
  BY <1>20 DEF OnClose, Goto, CallDispose
<1>21. ASSUME NEW c \in Calls, TunnelDrops(c) PROVE Fresh'
  BY <1>21 DEF TunnelDrops
<1>22. ASSUME NEW t \in Threads, Dispose(t) PROVE Fresh'
  BY <1>22 DEF Dispose, Goto, Look, Made
<1>23. ASSUME NEW t \in Threads, DisposeObject(t) PROVE Fresh'
  BY <1>23 DEF DisposeObject, Goto, Killed
<1>24. ASSUME NEW t \in Threads, DeleteRegistered(t) PROVE Fresh'
  BY <1>24 DEF DeleteRegistered, Goto
<1>25. CASE Blacklist
  BY <1>25 DEF Blacklist
<1>26. CASE UNCHANGED vars
  BY <1>26 DEF vars
<1> QED
  BY <1>1, <1>2, <1>3, <1>4, <1>5, <1>6, <1>7, <1>8, <1>9,
     <1>10, <1>11, <1>12, <1>13, <1>14, <1>15, <1>16, <1>17, <1>18,
     <1>19, <1>20, <1>21, <1>22, <1>23, <1>24, <1>25, <1>26
  DEF Next, CallStep, DisposeStep, CheckerStep

LEMMA FreshAlways == Spec => []Fresh
<1>1. Init => Fresh
  BY ThreadFacts DEF Init, Fresh
<1> QED
  BY <1>1, TypeCorrect, FreshStep, PTL DEF Spec

LEMMA ZombieStep == TypeOK /\ Fresh /\ NoZombieRegistration /\ [Next]_vars => NoZombieRegistration'
<1> SUFFICES ASSUME TypeOK, Fresh, NoZombieRegistration, [Next]_vars
             PROVE  NoZombieRegistration'
  OBVIOUS
<1> USE ThreadFacts DEF TypeOK, Fresh, Unregistered, BeforeRegister, NoZombieRegistration, CallerPCs, DisposePCs, CheckerPCs, Resources, Choices, Disposal, History
<1>1. ASSUME NEW c \in Calls, Start(c) PROVE NoZombieRegistration'
  BY <1>1 DEF Start, Goto, CallDispose
<1>2. ASSUME NEW c \in Calls, CheckBlacklist(c) PROVE NoZombieRegistration'
  BY <1>2 DEF CheckBlacklist, Goto
<1>3. ASSUME NEW c \in Calls, Lookup(c) PROVE NoZombieRegistration'
  BY <1>3 DEF Lookup, Goto, CallDispose, Look, Made
<1>4. ASSUME NEW c \in Calls, GetPending(c) PROVE NoZombieRegistration'
  BY <1>4 DEF GetPending, Goto
<1>5. ASSUME NEW c \in Calls, EnterWait(c) PROVE NoZombieRegistration'
  BY <1>5 DEF EnterWait, Goto
<1>6. ASSUME NEW c \in Calls, WaitTimeout(c) PROVE NoZombieRegistration'
  BY <1>6 DEF WaitTimeout, Goto
<1>7. ASSUME NEW c \in Calls, FindAfterWait(c) PROVE NoZombieRegistration'
  BY <1>7 DEF FindAfterWait, Goto, Look, Made
<1>8. ASSUME NEW c \in Calls, Claim(c) PROVE NoZombieRegistration'
  BY <1>8 DEF Claim, Goto
<1>9. ASSUME NEW c \in Calls, StartTunnel(c) PROVE NoZombieRegistration'
  BY <1>9 DEF StartTunnel, Goto
<1>10. ASSUME NEW c \in Calls, InitConnection(c) PROVE NoZombieRegistration'
  BY <1>10 DEF InitConnection, Goto
<1>11. ASSUME NEW c \in Calls, Register(c) PROVE NoZombieRegistration'
  BY <1>11 DEF Register, Goto
<1>12. ASSUME NEW c \in Calls, Reread(c) PROVE NoZombieRegistration'
  BY <1>12 DEF Reread, Goto
<1>13. ASSUME NEW c \in Calls, CloseOnError(c) PROVE NoZombieRegistration'
  BY <1>13 DEF CloseOnError, Goto, Killed
<1>14. ASSUME NEW c \in Calls, CheckPending(c) PROVE NoZombieRegistration'
  BY <1>14 DEF CheckPending, Goto
<1>15. ASSUME NEW c \in Calls, ComparePending(c) PROVE NoZombieRegistration'
  BY <1>15 DEF ComparePending, KeyErrorInFinally, Goto
<1>16. ASSUME NEW c \in Calls, DeletePending(c) PROVE NoZombieRegistration'
  BY <1>16 DEF DeletePending, KeyErrorInFinally, Goto
<1>17. ASSUME NEW c \in Calls, Notify(c) PROVE NoZombieRegistration'
  BY <1>17 DEF Notify
<1>18. ASSUME NEW c \in Calls, Finish(c) PROVE NoZombieRegistration'
  BY <1>18 DEF Finish, Goto, CallDispose
<1>19. ASSUME NEW c \in Calls, CheckTunnel(c) PROVE NoZombieRegistration'
  BY <1>19 DEF CheckTunnel, Goto
<1>20. ASSUME NEW c \in Calls, OnClose(c) PROVE NoZombieRegistration'
  BY <1>20 DEF OnClose, Goto, CallDispose
<1>21. ASSUME NEW c \in Calls, TunnelDrops(c) PROVE NoZombieRegistration'
  BY <1>21 DEF TunnelDrops
<1>22. ASSUME NEW t \in Threads, Dispose(t) PROVE NoZombieRegistration'
  BY <1>22 DEF Dispose, Goto, Look, Made
<1>23. ASSUME NEW t \in Threads, DisposeObject(t) PROVE NoZombieRegistration'
  BY <1>23 DEF DisposeObject, Goto, Killed
<1>24. ASSUME NEW t \in Threads, DeleteRegistered(t) PROVE NoZombieRegistration'
  BY <1>24 DEF DeleteRegistered, Goto
<1>25. CASE Blacklist
  BY <1>25 DEF Blacklist
<1>26. CASE UNCHANGED vars
  BY <1>26 DEF vars
<1> QED
  BY <1>1, <1>2, <1>3, <1>4, <1>5, <1>6, <1>7, <1>8, <1>9,
     <1>10, <1>11, <1>12, <1>13, <1>14, <1>15, <1>16, <1>17, <1>18,
     <1>19, <1>20, <1>21, <1>22, <1>23, <1>24, <1>25, <1>26
  DEF Next, CallStep, DisposeStep, CheckerStep

\* A disposed connection is registered only while the thread that disposed of it is
\* about to delete it.
THEOREM NoZombieRegistrationAlways == Spec => []NoZombieRegistration
<1>1. Init => NoZombieRegistration
  BY DEF Init, NoZombieRegistration
<1> QED
  BY <1>1, TypeCorrect, FreshAlways, ZombieStep, PTL DEF Spec

\* Whatever enters the registry is new there: nobody has captured it, and its engine
\* is open.
THEOREM RegistersOnlyFreshAlways == Spec => RegistersOnlyFresh
<1> DEFINE Registers == registered' \notin {registered, NoCall} =>
               /\ engine[registered'] = "open"
               /\ \A t \in Threads : victim[t] # registered'
<1>1. ASSUME TypeOK, Fresh, Next PROVE Registers
  <2> USE ThreadFacts DEF TypeOK, Fresh, Unregistered, BeforeRegister
  <2>1. ASSUME NEW c \in Calls, Register(c) PROVE Registers
    BY <1>1, <2>1 DEF Register
  <2>2. ASSUME NEW t \in Threads, DisposeStep(t) PROVE Registers
    BY <1>1, <2>2 DEF DisposeStep, Dispose, DisposeObject, DeleteRegistered
  <2>3. CASE UNCHANGED registered
    BY <2>3
  <2>4. ASSUME NEW c \in Calls, ~Register(c),
               Start(c) \/ CallStep(c) \/ CheckerStep(c) \/ TunnelDrops(c)
        PROVE  UNCHANGED registered
    BY <2>4 DEF Start, CallStep, CheckerStep, TunnelDrops, CheckBlacklist, Lookup,
                GetPending, EnterWait, WaitTimeout, FindAfterWait, Claim, StartTunnel,
                InitConnection, Reread, CloseOnError, CheckPending, ComparePending, DeletePending,
                Notify, Finish, CheckTunnel, OnClose
  <2>5. CASE Blacklist
    BY <2>5 DEF Blacklist
  <2> QED
    BY <1>1, <2>1, <2>2, <2>3, <2>4, <2>5 DEF Next
<1>2. TypeOK /\ Fresh /\ [Next]_vars => [Registers]_vars
  BY <1>1
<1> QED
  BY <1>2, TypeCorrect, FreshAlways, PTL DEF Spec, RegistersOnlyFresh

-----------------------------------------------------------------------------
(* Tunnels                                                                 *)

\* A tunnel is up without an open engine only inside of the attempt that started it.
TunnelInAttempt ==
    \A c \in Calls : tunnel[c] = "up" /\ engine[c] # "open" => pc[c] \in {"init", "except"}

LEMMA TunnelStep == TypeOK /\ TunnelInAttempt /\ [Next]_vars => TunnelInAttempt'
<1> SUFFICES ASSUME TypeOK, TunnelInAttempt, [Next]_vars
             PROVE  TunnelInAttempt'
  OBVIOUS
<1> USE ThreadFacts DEF TypeOK, TunnelInAttempt, CallerPCs, DisposePCs, CheckerPCs, Resources, Choices, Disposal, History
<1>1. ASSUME NEW c \in Calls, Start(c) PROVE TunnelInAttempt'
  BY <1>1 DEF Start, Goto, CallDispose
<1>2. ASSUME NEW c \in Calls, CheckBlacklist(c) PROVE TunnelInAttempt'
  BY <1>2 DEF CheckBlacklist, Goto
<1>3. ASSUME NEW c \in Calls, Lookup(c) PROVE TunnelInAttempt'
  BY <1>3 DEF Lookup, Goto, CallDispose, Look, Made
<1>4. ASSUME NEW c \in Calls, GetPending(c) PROVE TunnelInAttempt'
  BY <1>4 DEF GetPending, Goto
<1>5. ASSUME NEW c \in Calls, EnterWait(c) PROVE TunnelInAttempt'
  BY <1>5 DEF EnterWait, Goto
<1>6. ASSUME NEW c \in Calls, WaitTimeout(c) PROVE TunnelInAttempt'
  BY <1>6 DEF WaitTimeout, Goto
<1>7. ASSUME NEW c \in Calls, FindAfterWait(c) PROVE TunnelInAttempt'
  BY <1>7 DEF FindAfterWait, Goto, Look, Made
<1>8. ASSUME NEW c \in Calls, Claim(c) PROVE TunnelInAttempt'
  BY <1>8 DEF Claim, Goto
<1>9. ASSUME NEW c \in Calls, StartTunnel(c) PROVE TunnelInAttempt'
  BY <1>9 DEF StartTunnel, Goto
<1>10. ASSUME NEW c \in Calls, InitConnection(c) PROVE TunnelInAttempt'
  BY <1>10 DEF InitConnection, Goto
<1>11. ASSUME NEW c \in Calls, Register(c) PROVE TunnelInAttempt'
  BY <1>11 DEF Register, Goto
<1>12. ASSUME NEW c \in Calls, Reread(c) PROVE TunnelInAttempt'
  BY <1>12 DEF Reread, Goto
<1>13. ASSUME NEW c \in Calls, CloseOnError(c) PROVE TunnelInAttempt'
  BY <1>13 DEF CloseOnError, Goto, Killed
<1>14. ASSUME NEW c \in Calls, CheckPending(c) PROVE TunnelInAttempt'
  BY <1>14 DEF CheckPending, Goto
<1>15. ASSUME NEW c \in Calls, ComparePending(c) PROVE TunnelInAttempt'
  BY <1>15 DEF ComparePending, KeyErrorInFinally, Goto
<1>16. ASSUME NEW c \in Calls, DeletePending(c) PROVE TunnelInAttempt'
  BY <1>16 DEF DeletePending, KeyErrorInFinally, Goto
<1>17. ASSUME NEW c \in Calls, Notify(c) PROVE TunnelInAttempt'
  BY <1>17 DEF Notify
<1>18. ASSUME NEW c \in Calls, Finish(c) PROVE TunnelInAttempt'
  BY <1>18 DEF Finish, Goto, CallDispose
<1>19. ASSUME NEW c \in Calls, CheckTunnel(c) PROVE TunnelInAttempt'
  BY <1>19 DEF CheckTunnel, Goto
<1>20. ASSUME NEW c \in Calls, OnClose(c) PROVE TunnelInAttempt'
  BY <1>20 DEF OnClose, Goto, CallDispose
<1>21. ASSUME NEW c \in Calls, TunnelDrops(c) PROVE TunnelInAttempt'
  BY <1>21 DEF TunnelDrops
<1>22. ASSUME NEW t \in Threads, Dispose(t) PROVE TunnelInAttempt'
  BY <1>22 DEF Dispose, Goto, Look, Made
<1>23. ASSUME NEW t \in Threads, DisposeObject(t) PROVE TunnelInAttempt'
  BY <1>23 DEF DisposeObject, Goto, Killed
<1>24. ASSUME NEW t \in Threads, DeleteRegistered(t) PROVE TunnelInAttempt'
  BY <1>24 DEF DeleteRegistered, Goto
<1>25. CASE Blacklist
  BY <1>25 DEF Blacklist
<1>26. CASE UNCHANGED vars
  BY <1>26 DEF vars
<1> QED
  BY <1>1, <1>2, <1>3, <1>4, <1>5, <1>6, <1>7, <1>8, <1>9,
     <1>10, <1>11, <1>12, <1>13, <1>14, <1>15, <1>16, <1>17, <1>18,
     <1>19, <1>20, <1>21, <1>22, <1>23, <1>24, <1>25, <1>26
  DEF Next, CallStep, DisposeStep, CheckerStep

\* No ssh process outlives the call that started it, unless the engine that uses it is
\* open.
THEOREM NoTunnelWithoutEngineAlways == Spec => []NoTunnelWithoutEngine
<1>1. Init => TunnelInAttempt
  BY DEF Init, TunnelInAttempt
<1>2. TunnelInAttempt => NoTunnelWithoutEngine
  BY DEF TunnelInAttempt, NoTunnelWithoutEngine, Ended
<1> QED
  BY <1>1, <1>2, TypeCorrect, TunnelStep, PTL DEF Spec

-----------------------------------------------------------------------------
(* Who looked at the registry when.                                        *)

\* A connection object begins with the engine of its call.
Unmade == \A c \in Calls : Unregistered(c) /\ pc[c] # "register" => engine[c] = "none"

LEMMA UnmadeStep == TypeOK /\ Fresh /\ Unmade /\ [Next]_vars => Unmade'
<1> SUFFICES ASSUME TypeOK, Fresh, Unmade, [Next]_vars
             PROVE  Unmade'
  OBVIOUS
<1> USE ThreadFacts DEF TypeOK, Fresh, Unregistered, BeforeRegister, Unmade, CallerPCs, DisposePCs, CheckerPCs, Resources, Choices, Disposal, History
<1>1. ASSUME NEW c \in Calls, Start(c) PROVE Unmade'
  BY <1>1 DEF Start, Goto, CallDispose
<1>2. ASSUME NEW c \in Calls, CheckBlacklist(c) PROVE Unmade'
  BY <1>2 DEF CheckBlacklist, Goto
<1>3. ASSUME NEW c \in Calls, Lookup(c) PROVE Unmade'
  BY <1>3 DEF Lookup, Goto, CallDispose, Look, Made
<1>4. ASSUME NEW c \in Calls, GetPending(c) PROVE Unmade'
  BY <1>4 DEF GetPending, Goto
<1>5. ASSUME NEW c \in Calls, EnterWait(c) PROVE Unmade'
  BY <1>5 DEF EnterWait, Goto
<1>6. ASSUME NEW c \in Calls, WaitTimeout(c) PROVE Unmade'
  BY <1>6 DEF WaitTimeout, Goto
<1>7. ASSUME NEW c \in Calls, FindAfterWait(c) PROVE Unmade'
  BY <1>7 DEF FindAfterWait, Goto, Look, Made
<1>8. ASSUME NEW c \in Calls, Claim(c) PROVE Unmade'
  BY <1>8 DEF Claim, Goto
<1>9. ASSUME NEW c \in Calls, StartTunnel(c) PROVE Unmade'
  BY <1>9 DEF StartTunnel, Goto
<1>10. ASSUME NEW c \in Calls, InitConnection(c) PROVE Unmade'
  BY <1>10 DEF InitConnection, Goto
<1>11. ASSUME NEW c \in Calls, Register(c) PROVE Unmade'
  BY <1>11 DEF Register, Goto
<1>12. ASSUME NEW c \in Calls, Reread(c) PROVE Unmade'
  BY <1>12 DEF Reread, Goto
<1>13. ASSUME NEW c \in Calls, CloseOnError(c) PROVE Unmade'
  BY <1>13 DEF CloseOnError, Goto, Killed
<1>14. ASSUME NEW c \in Calls, CheckPending(c) PROVE Unmade'
  BY <1>14 DEF CheckPending, Goto
<1>15. ASSUME NEW c \in Calls, ComparePending(c) PROVE Unmade'
  BY <1>15 DEF ComparePending, KeyErrorInFinally, Goto
<1>16. ASSUME NEW c \in Calls, DeletePending(c) PROVE Unmade'
  BY <1>16 DEF DeletePending, KeyErrorInFinally, Goto
<1>17. ASSUME NEW c \in Calls, Notify(c) PROVE Unmade'
  BY <1>17 DEF Notify
<1>18. ASSUME NEW c \in Calls, Finish(c) PROVE Unmade'
  BY <1>18 DEF Finish, Goto, CallDispose
<1>19. ASSUME NEW c \in Calls, CheckTunnel(c) PROVE Unmade'
  BY <1>19 DEF CheckTunnel, Goto
<1>20. ASSUME NEW c \in Calls, OnClose(c) PROVE Unmade'
  BY <1>20 DEF OnClose, Goto, CallDispose
<1>21. ASSUME NEW c \in Calls, TunnelDrops(c) PROVE Unmade'
  BY <1>21 DEF TunnelDrops
<1>22. ASSUME NEW t \in Threads, Dispose(t) PROVE Unmade'
  BY <1>22 DEF Dispose, Goto, Look, Made
<1>23. ASSUME NEW t \in Threads, DisposeObject(t) PROVE Unmade'
  BY <1>23 DEF DisposeObject, Goto, Killed
<1>24. ASSUME NEW t \in Threads, DeleteRegistered(t) PROVE Unmade'
  BY <1>24 DEF DeleteRegistered, Goto
<1>25. CASE Blacklist
  BY <1>25 DEF Blacklist
<1>26. CASE UNCHANGED vars
  BY <1>26 DEF vars
<1> QED
  BY <1>1, <1>2, <1>3, <1>4, <1>5, <1>6, <1>7, <1>8, <1>9,
     <1>10, <1>11, <1>12, <1>13, <1>14, <1>15, <1>16, <1>17, <1>18,
     <1>19, <1>20, <1>21, <1>22, <1>23, <1>24, <1>25, <1>26
  DEF Next, CallStep, DisposeStep, CheckerStep

\* A look at the registry sees connections that have come there.
SeenMade == \A t \in Threads : seen[t] \subseteq Made

LEMMA SeenMadeStep == TypeOK /\ Fresh /\ Unmade /\ SeenMade /\ [Next]_vars => SeenMade'
<1> SUFFICES ASSUME TypeOK, Fresh, Unmade, SeenMade, [Next]_vars
             PROVE  SeenMade'
  OBVIOUS
<1> USE ThreadFacts DEF TypeOK, Fresh, Unregistered, BeforeRegister, Unmade, SeenMade, Made, CallerPCs, DisposePCs, CheckerPCs, Resources, Choices, Disposal, History
<1>1. ASSUME NEW c \in Calls, Start(c) PROVE SeenMade'
  BY <1>1 DEF Start, Goto, CallDispose
<1>2. ASSUME NEW c \in Calls, CheckBlacklist(c) PROVE SeenMade'
  BY <1>2 DEF CheckBlacklist, Goto
<1>3. ASSUME NEW c \in Calls, Lookup(c) PROVE SeenMade'
  BY <1>3 DEF Lookup, Goto, CallDispose, Look, Made
<1>4. ASSUME NEW c \in Calls, GetPending(c) PROVE SeenMade'
  BY <1>4 DEF GetPending, Goto
<1>5. ASSUME NEW c \in Calls, EnterWait(c) PROVE SeenMade'
  BY <1>5 DEF EnterWait, Goto
<1>6. ASSUME NEW c \in Calls, WaitTimeout(c) PROVE SeenMade'
  BY <1>6 DEF WaitTimeout, Goto
<1>7. ASSUME NEW c \in Calls, FindAfterWait(c) PROVE SeenMade'
  BY <1>7 DEF FindAfterWait, Goto, Look, Made
<1>8. ASSUME NEW c \in Calls, Claim(c) PROVE SeenMade'
  BY <1>8 DEF Claim, Goto
<1>9. ASSUME NEW c \in Calls, StartTunnel(c) PROVE SeenMade'
  BY <1>9 DEF StartTunnel, Goto
<1>10. ASSUME NEW c \in Calls, InitConnection(c) PROVE SeenMade'
  BY <1>10 DEF InitConnection, Goto
<1>11. ASSUME NEW c \in Calls, Register(c) PROVE SeenMade'
  BY <1>11 DEF Register, Goto
<1>12. ASSUME NEW c \in Calls, Reread(c) PROVE SeenMade'
  BY <1>12 DEF Reread, Goto
<1>13. ASSUME NEW c \in Calls, CloseOnError(c) PROVE SeenMade'
  BY <1>13 DEF CloseOnError, Goto, Killed
<1>14. ASSUME NEW c \in Calls, CheckPending(c) PROVE SeenMade'
  BY <1>14 DEF CheckPending, Goto
<1>15. ASSUME NEW c \in Calls, ComparePending(c) PROVE SeenMade'
  BY <1>15 DEF ComparePending, KeyErrorInFinally, Goto
<1>16. ASSUME NEW c \in Calls, DeletePending(c) PROVE SeenMade'
  BY <1>16 DEF DeletePending, KeyErrorInFinally, Goto
<1>17. ASSUME NEW c \in Calls, Notify(c) PROVE SeenMade'
  BY <1>17 DEF Notify
<1>18. ASSUME NEW c \in Calls, Finish(c) PROVE SeenMade'
  BY <1>18 DEF Finish, Goto, CallDispose
<1>19. ASSUME NEW c \in Calls, CheckTunnel(c) PROVE SeenMade'
  BY <1>19 DEF CheckTunnel, Goto
<1>20. ASSUME NEW c \in Calls, OnClose(c) PROVE SeenMade'
  BY <1>20 DEF OnClose, Goto, CallDispose
<1>21. ASSUME NEW c \in Calls, TunnelDrops(c) PROVE SeenMade'
  BY <1>21 DEF TunnelDrops
<1>22. ASSUME NEW t \in Threads, Dispose(t) PROVE SeenMade'
  BY <1>22 DEF Dispose, Goto, Look, Made
<1>23. ASSUME NEW t \in Threads, DisposeObject(t) PROVE SeenMade'
  BY <1>23 DEF DisposeObject, Goto, Killed
<1>24. ASSUME NEW t \in Threads, DeleteRegistered(t) PROVE SeenMade'
  BY <1>24 DEF DeleteRegistered, Goto
<1>25. CASE Blacklist
  BY <1>25 DEF Blacklist
<1>26. CASE UNCHANGED vars
  BY <1>26 DEF vars
<1> QED
  BY <1>1, <1>2, <1>3, <1>4, <1>5, <1>6, <1>7, <1>8, <1>9,
     <1>10, <1>11, <1>12, <1>13, <1>14, <1>15, <1>16, <1>17, <1>18,
     <1>19, <1>20, <1>21, <1>22, <1>23, <1>24, <1>25, <1>26
  DEF Next, CallStep, DisposeStep, CheckerStep

\* While a thread disposes of the connection it has captured, that one is still
\* registered, or nothing is, or one that came later.
Captured ==
    \A t \in Threads :
        /\ pc[t] \in {"dispose_object", "dispose_del"} =>
              registered \in {NoCall, victim[t]} \/ registered \notin seen[t]
        /\ pc[t] = "dispose_del" => engine[victim[t]] = "disposed"

LEMMA CapturedStep == TypeOK /\ Fresh /\ SeenMade /\ Captured /\ [Next]_vars => Captured'
<1> SUFFICES ASSUME TypeOK, Fresh, SeenMade, Captured, [Next]_vars
             PROVE  Captured'
  OBVIOUS
<1> USE ThreadFacts DEF TypeOK, Fresh, Unregistered, BeforeRegister, SeenMade, Made, Captured, CallerPCs, DisposePCs, CheckerPCs, Resources, Choices, Disposal, History
<1>1. ASSUME NEW c \in Calls, Start(c) PROVE Captured'
  BY <1>1 DEF Start, Goto, CallDispose
<1>2. ASSUME NEW c \in Calls, CheckBlacklist(c) PROVE Captured'
  BY <1>2 DEF CheckBlacklist, Goto
<1>3. ASSUME NEW c \in Calls, Lookup(c) PROVE Captured'
  BY <1>3 DEF Lookup, Goto, CallDispose, Look, Made
<1>4. ASSUME NEW c \in Calls, GetPending(c) PROVE Captured'
  BY <1>4 DEF GetPending, Goto
<1>5. ASSUME NEW c \in Calls, EnterWait(c) PROVE Captured'
  BY <1>5 DEF EnterWait, Goto
<1>6. ASSUME NEW c \in Calls, WaitTimeout(c) PROVE Captured'
  BY <1>6 DEF WaitTimeout, Goto
<1>7. ASSUME NEW c \in Calls, FindAfterWait(c) PROVE Captured'
  BY <1>7 DEF FindAfterWait, Goto, Look, Made
<1>8. ASSUME NEW c \in Calls, Claim(c) PROVE Captured'
  BY <1>8 DEF Claim, Goto
<1>9. ASSUME NEW c \in Calls, StartTunnel(c) PROVE Captured'
  BY <1>9 DEF StartTunnel, Goto
<1>10. ASSUME NEW c \in Calls, InitConnection(c) PROVE Captured'
  BY <1>10 DEF InitConnection, Goto
<1>11. ASSUME NEW c \in Calls, Register(c) PROVE Captured'
  BY <1>11 DEF Register, Goto
<1>12. ASSUME NEW c \in Calls, Reread(c) PROVE Captured'
  BY <1>12 DEF Reread, Goto
<1>13. ASSUME NEW c \in Calls, CloseOnError(c) PROVE Captured'
  BY <1>13 DEF CloseOnError, Goto, Killed
<1>14. ASSUME NEW c \in Calls, CheckPending(c) PROVE Captured'
  BY <1>14 DEF CheckPending, Goto
<1>15. ASSUME NEW c \in Calls, ComparePending(c) PROVE Captured'
  BY <1>15 DEF ComparePending, KeyErrorInFinally, Goto
<1>16. ASSUME NEW c \in Calls, DeletePending(c) PROVE Captured'
  BY <1>16 DEF DeletePending, KeyErrorInFinally, Goto
<1>17. ASSUME NEW c \in Calls, Notify(c) PROVE Captured'
  BY <1>17 DEF Notify
<1>18. ASSUME NEW c \in Calls, Finish(c) PROVE Captured'
  BY <1>18 DEF Finish, Goto, CallDispose
<1>19. ASSUME NEW c \in Calls, CheckTunnel(c) PROVE Captured'
  BY <1>19 DEF CheckTunnel, Goto
<1>20. ASSUME NEW c \in Calls, OnClose(c) PROVE Captured'
  BY <1>20 DEF OnClose, Goto, CallDispose
<1>21. ASSUME NEW c \in Calls, TunnelDrops(c) PROVE Captured'
  BY <1>21 DEF TunnelDrops
<1>22. ASSUME NEW t \in Threads, Dispose(t) PROVE Captured'
  BY <1>22 DEF Dispose, Goto, Look, Made
<1>23. ASSUME NEW t \in Threads, DisposeObject(t) PROVE Captured'
  BY <1>23 DEF DisposeObject, Goto, Killed
<1>24. ASSUME NEW t \in Threads, DeleteRegistered(t) PROVE Captured'
  BY <1>24 DEF DeleteRegistered, Goto
<1>25. CASE Blacklist
  BY <1>25 DEF Blacklist
<1>26. CASE UNCHANGED vars
  BY <1>26 DEF vars
<1> QED
  BY <1>1, <1>2, <1>3, <1>4, <1>5, <1>6, <1>7, <1>8, <1>9,
     <1>10, <1>11, <1>12, <1>13, <1>14, <1>15, <1>16, <1>17, <1>18,
     <1>19, <1>20, <1>21, <1>22, <1>23, <1>24, <1>25, <1>26
  DEF Next, CallStep, DisposeStep, CheckerStep

\* The program counters of a call that has found no connection to return.
AfterLook == {"pending_get", "wait_enter", "waiting", "wait_found", "claim", "tunnel",
              "init", "register", "reread"}

\* Whatever is registered then came after the call had looked, or could not be
\* disposed of.
NothingSeen ==
    \A c \in Calls : pc[c] \in AfterLook =>
        registered = NoCall \/ registered \in undisposed \/ registered \notin seen[c]

LEMMA NothingSeenStep ==
    TypeOK /\ Fresh /\ SeenMade /\ Captured /\ NothingSeen /\ [Next]_vars => NothingSeen'
<1> SUFFICES ASSUME TypeOK, Fresh, SeenMade, Captured, NothingSeen, [Next]_vars
             PROVE  NothingSeen'
  OBVIOUS
<1> USE ThreadFacts DEF TypeOK, Fresh, Unregistered, BeforeRegister, SeenMade, Made, Captured, NothingSeen, AfterLook, CallerPCs, DisposePCs, CheckerPCs, Resources, Choices, Disposal, History
<1>1. ASSUME NEW c \in Calls, Start(c) PROVE NothingSeen'
  BY <1>1 DEF Start, Goto, CallDispose
<1>2. ASSUME NEW c \in Calls, CheckBlacklist(c) PROVE NothingSeen'
  BY <1>2 DEF CheckBlacklist, Goto
<1>3. ASSUME NEW c \in Calls, Lookup(c) PROVE NothingSeen'
  BY <1>3 DEF Lookup, Goto, CallDispose, Look, Made
<1>4. ASSUME NEW c \in Calls, GetPending(c) PROVE NothingSeen'
  BY <1>4 DEF GetPending, Goto
<1>5. ASSUME NEW c \in Calls, EnterWait(c) PROVE NothingSeen'
  BY <1>5 DEF EnterWait, Goto
<1>6. ASSUME NEW c \in Calls, WaitTimeout(c) PROVE NothingSeen'
  BY <1>6 DEF WaitTimeout, Goto
<1>7. ASSUME NEW c \in Calls, FindAfterWait(c) PROVE NothingSeen'
  BY <1>7 DEF FindAfterWait, Goto, Look, Made
<1>8. ASSUME NEW c \in Calls, Claim(c) PROVE NothingSeen'
  BY <1>8 DEF Claim, Goto
<1>9. ASSUME NEW c \in Calls, StartTunnel(c) PROVE NothingSeen'
  BY <1>9 DEF StartTunnel, Goto
<1>10. ASSUME NEW c \in Calls, InitConnection(c) PROVE NothingSeen'
  BY <1>10 DEF InitConnection, Goto
<1>11. ASSUME NEW c \in Calls, Register(c) PROVE NothingSeen'
  BY <1>11 DEF Register, Goto
<1>12. ASSUME NEW c \in Calls, Reread(c) PROVE NothingSeen'
  BY <1>12 DEF Reread, Goto
<1>13. ASSUME NEW c \in Calls, CloseOnError(c) PROVE NothingSeen'
  BY <1>13 DEF CloseOnError, Goto, Killed
<1>14. ASSUME NEW c \in Calls, CheckPending(c) PROVE NothingSeen'
  BY <1>14 DEF CheckPending, Goto
<1>15. ASSUME NEW c \in Calls, ComparePending(c) PROVE NothingSeen'
  BY <1>15 DEF ComparePending, KeyErrorInFinally, Goto
<1>16. ASSUME NEW c \in Calls, DeletePending(c) PROVE NothingSeen'
  BY <1>16 DEF DeletePending, KeyErrorInFinally, Goto
<1>17. ASSUME NEW c \in Calls, Notify(c) PROVE NothingSeen'
  BY <1>17 DEF Notify
<1>18. ASSUME NEW c \in Calls, Finish(c) PROVE NothingSeen'
  BY <1>18 DEF Finish, Goto, CallDispose
<1>19. ASSUME NEW c \in Calls, CheckTunnel(c) PROVE NothingSeen'
  BY <1>19 DEF CheckTunnel, Goto
<1>20. ASSUME NEW c \in Calls, OnClose(c) PROVE NothingSeen'
  BY <1>20 DEF OnClose, Goto, CallDispose
<1>21. ASSUME NEW c \in Calls, TunnelDrops(c) PROVE NothingSeen'
  BY <1>21 DEF TunnelDrops
<1>22. ASSUME NEW t \in Threads, Dispose(t) PROVE NothingSeen'
  BY <1>22 DEF Dispose, Goto, Look, Made
<1>23. ASSUME NEW t \in Threads, DisposeObject(t) PROVE NothingSeen'
  BY <1>23 DEF DisposeObject, Goto, Killed
<1>24. ASSUME NEW t \in Threads, DeleteRegistered(t) PROVE NothingSeen'
  BY <1>24 DEF DeleteRegistered, Goto
<1>25. CASE Blacklist
  BY <1>25 DEF Blacklist
<1>26. CASE UNCHANGED vars
  BY <1>26 DEF vars
<1> QED
  BY <1>1, <1>2, <1>3, <1>4, <1>5, <1>6, <1>7, <1>8, <1>9,
     <1>10, <1>11, <1>12, <1>13, <1>14, <1>15, <1>16, <1>17, <1>18,
     <1>19, <1>20, <1>21, <1>22, <1>23, <1>24, <1>25, <1>26
  DEF Next, CallStep, DisposeStep, CheckerStep

\* A call has a result only when it is about to return it, and then the result is one
\* that GetsRequestedParams allows.
Results ==
    \A c \in Calls :
        /\ Unregistered(c) \/ pc[c] \in {"reread", "except"} => result[c] = NoCall
        /\ pc[c] \in {"got", "returned"} => result[c] # NoCall
        /\ result[c] # NoCall
             /\ pc[c] \in {"finally", "compare", "delete", "notify", "got", "returned"} =>
                 \/ params[result[c]] = params[c]
                 \/ result[c] \notin seen[c]
                 \/ result[c] \in undisposed

LEMMA ResultsStep == TypeOK /\ NothingSeen /\ Results /\ [Next]_vars => Results'
<1> SUFFICES ASSUME TypeOK, NothingSeen, Results, [Next]_vars
             PROVE  Results'
  OBVIOUS
<1> USE ThreadFacts DEF TypeOK, Unregistered, BeforeRegister, NothingSeen, AfterLook, Results, CallerPCs, DisposePCs, CheckerPCs, Resources, Choices, Disposal, History
<1>1. ASSUME NEW c \in Calls, Start(c) PROVE Results'
  BY <1>1 DEF Start, Goto, CallDispose
<1>2. ASSUME NEW c \in Calls, CheckBlacklist(c) PROVE Results'
  BY <1>2 DEF CheckBlacklist, Goto
<1>3. ASSUME NEW c \in Calls, Lookup(c) PROVE Results'
  BY <1>3 DEF Lookup, Goto, CallDispose, Look, Made
<1>4. ASSUME NEW c \in Calls, GetPending(c) PROVE Results'
  BY <1>4 DEF GetPending, Goto
<1>5. ASSUME NEW c \in Calls, EnterWait(c) PROVE Results'
  BY <1>5 DEF EnterWait, Goto
<1>6. ASSUME NEW c \in Calls, WaitTimeout(c) PROVE Results'
  BY <1>6 DEF WaitTimeout, Goto
<1>7. ASSUME NEW c \in Calls, FindAfterWait(c) PROVE Results'
  BY <1>7 DEF FindAfterWait, Goto, Look, Made
<1>8. ASSUME NEW c \in Calls, Claim(c) PROVE Results'
  BY <1>8 DEF Claim, Goto
<1>9. ASSUME NEW c \in Calls, StartTunnel(c) PROVE Results'
  BY <1>9 DEF StartTunnel, Goto
<1>10. ASSUME NEW c \in Calls, InitConnection(c) PROVE Results'
  BY <1>10 DEF InitConnection, Goto
<1>11. ASSUME NEW c \in Calls, Register(c) PROVE Results'
  BY <1>11 DEF Register, Goto
<1>12. ASSUME NEW c \in Calls, Reread(c) PROVE Results'
  BY <1>12 DEF Reread, Goto
<1>13. ASSUME NEW c \in Calls, CloseOnError(c) PROVE Results'
  BY <1>13 DEF CloseOnError, Goto, Killed
<1>14. ASSUME NEW c \in Calls, CheckPending(c) PROVE Results'
  BY <1>14 DEF CheckPending, Goto
<1>15. ASSUME NEW c \in Calls, ComparePending(c) PROVE Results'
  BY <1>15 DEF ComparePending, KeyErrorInFinally, Goto
<1>16. ASSUME NEW c \in Calls, DeletePending(c) PROVE Results'
  BY <1>16 DEF DeletePending, KeyErrorInFinally, Goto
<1>17. ASSUME NEW c \in Calls, Notify(c) PROVE Results'
  BY <1>17 DEF Notify
<1>18. ASSUME NEW c \in Calls, Finish(c) PROVE Results'
  BY <1>18 DEF Finish, Goto, CallDispose
<1>19. ASSUME NEW c \in Calls, CheckTunnel(c) PROVE Results'
  BY <1>19 DEF CheckTunnel, Goto
<1>20. ASSUME NEW c \in Calls, OnClose(c) PROVE Results'
  BY <1>20 DEF OnClose, Goto, CallDispose
<1>21. ASSUME NEW c \in Calls, TunnelDrops(c) PROVE Results'
  BY <1>21 DEF TunnelDrops
<1>22. ASSUME NEW t \in Threads, Dispose(t) PROVE Results'
  BY <1>22 DEF Dispose, Goto, Look, Made
<1>23. ASSUME NEW t \in Threads, DisposeObject(t) PROVE Results'
  BY <1>23 DEF DisposeObject, Goto, Killed
<1>24. ASSUME NEW t \in Threads, DeleteRegistered(t) PROVE Results'
  BY <1>24 DEF DeleteRegistered, Goto
<1>25. CASE Blacklist
  BY <1>25 DEF Blacklist
<1>26. CASE UNCHANGED vars
  BY <1>26 DEF vars
<1> QED
  BY <1>1, <1>2, <1>3, <1>4, <1>5, <1>6, <1>7, <1>8, <1>9,
     <1>10, <1>11, <1>12, <1>13, <1>14, <1>15, <1>16, <1>17, <1>18,
     <1>19, <1>20, <1>21, <1>22, <1>23, <1>24, <1>25, <1>26
  DEF Next, CallStep, DisposeStep, CheckerStep

RaceInv == Fresh /\ Unmade /\ SeenMade /\ Captured /\ NothingSeen /\ Results

LEMMA RaceInvAlways == Spec => []RaceInv
<1>1. Init => RaceInv
  BY ThreadFacts
  DEF Init, RaceInv, Fresh, Unregistered, BeforeRegister, Unmade, SeenMade, Captured, NothingSeen,
      AfterLook, Results, DisposePCs
<1>2. TypeOK /\ RaceInv /\ [Next]_vars => RaceInv'
  BY FreshStep, UnmadeStep, SeenMadeStep, CapturedStep, NothingSeenStep, ResultsStep DEF RaceInv
<1> QED
  BY <1>1, <1>2, TypeCorrect, PTL DEF Spec

\* However calls overlap, tunnels are lost and disposals fail: a call returns a connection
\* with the params it asked for, or one that came after the call had looked at the registry.
THEOREM GetsRequestedParamsAlways == Spec => []GetsRequestedParams
<1>1. RaceInv => GetsRequestedParams
  BY DEF RaceInv, Results, GetsRequestedParams
<1> QED
  BY <1>1, RaceInvAlways, PTL

\* Who drops a connection with an open engine from the registry had looked there before
\* that connection came; with whatever number of workers, tunnels and failing disposals.
THEOREM DropsOnlyUnseenAlways == Spec => DropsOnlyUnseen
<1> DEFINE Drops(c) == registered = c /\ registered' # c /\ engine[c] = "open"
           Unseen(c) ==
              \/ c \in undisposed
              \/ \E t \in Threads :
                    /\ c \notin seen[t]
                    /\ \/ pc[t] = "register" /\ registered' = t
                       \/ pc[t] = "dispose_del" /\ pc'[t] # "dispose_del"
<1>1. TypeOK /\ RaceInv /\ [Next]_vars => [\A c \in Calls : Drops(c) => Unseen(c)]_vars
  <2> SUFFICES ASSUME TypeOK, RaceInv, [Next]_vars, NEW c \in Calls, Drops(c)
               PROVE  Unseen(c)
    OBVIOUS
  <2>1. ASSUME NEW d \in Calls, Register(d) PROVE Unseen(c)
    <3>1. pc[d] = "register" /\ registered' = d
      BY <2>1 DEF Register
    <3>2. c \in undisposed \/ c \notin seen[d]
      BY <3>1, ThreadFacts DEF RaceInv, NothingSeen, AfterLook
    <3> QED
      BY <3>1, <3>2, ThreadFacts
  <2>2. ASSUME NEW t \in Threads, DeleteRegistered(t) PROVE Unseen(c)
    <3>1. pc[t] = "dispose_del" /\ pc'[t] # "dispose_del"
      BY <2>2 DEF DeleteRegistered, Goto, TypeOK
    <3>2. c \notin seen[t]
      BY <3>1, ThreadFacts DEF RaceInv, Captured
    <3> QED
      BY <3>1, <3>2
  <2>3. (\E d \in Calls : Register(d)) \/ (\E t \in Threads : DeleteRegistered(t))
    BY DEF Next, CallStep, DisposeStep, CheckerStep, vars, Start, CheckBlacklist, Lookup, GetPending,
           EnterWait, WaitTimeout, FindAfterWait, Claim, StartTunnel, InitConnection, Reread,
           CloseOnError, CheckPending, ComparePending, DeletePending, Notify, Finish, CheckTunnel,
           OnClose, TunnelDrops, Dispose, DisposeObject, Blacklist
  <2> QED
    BY <2>1, <2>2, <2>3
<1> QED
  BY <1>1, TypeCorrect, RaceInvAlways, PTL DEF Spec, DropsOnlyUnseen

=============================================================================
