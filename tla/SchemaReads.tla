----------------------------- MODULE SchemaReads -----------------------------
(***************************************************************************)
(* What a client of the schema caches of a connection may rely on, said    *)
(* without caches, locks, generators or waiters.  The source of a schema   *)
(* (mapped tables and relation overrides) has a version that grows.  Every *)
(* cache key has a floor: the version at which the key was last            *)
(* invalidated.  A request is answered from a version that is not older    *)
(* than the floor of its key on arrival and not newer than the source, or  *)
(* it fails; and it does not hang.                                         *)
(***************************************************************************)
EXTENDS Integers

CONSTANTS Requests, Keys,
          None         \* no version yet

VARIABLES content,     \* the version of the source
          floor,       \* floor[k]: the version at the last invalidation of k
          status,      \* status[r]: what has become of the request
          asked,       \* asked[r]: the floor of its key when it arrived
          answer       \* answer[r]: the version it was answered from

vars == <<content, floor, status, asked, answer>>

Init ==
    /\ content = 0
    /\ floor = [k \in Keys |-> 0]
    /\ status = [r \in Requests |-> "idle"]
    /\ asked = [r \in Requests |-> 0]
    /\ answer = [r \in Requests |-> None]

Arrive(r) ==
    /\ status[r] = "idle"
    /\ \E k \in Keys : asked' = [asked EXCEPT ![r] = floor[k]]
    /\ status' = [status EXCEPT ![r] = "busy"]
    /\ UNCHANGED <<content, floor, answer>>

Answer(r) ==
    /\ status[r] = "busy"
    /\ \E v \in asked[r] .. content : answer' = [answer EXCEPT ![r] = v]
    /\ status' = [status EXCEPT ![r] = "answered"]
    /\ UNCHANGED <<content, floor, asked>>

Fail(r) ==
    /\ status[r] = "busy"
    /\ status' = [status EXCEPT ![r] = "failed"]
    /\ UNCHANGED <<content, floor, asked, answer>>

\* The source changes; so far no key is invalidated.
Change ==
    /\ content' = content + 1
    /\ UNCHANGED <<floor, status, asked, answer>>

\* Some keys are invalidated.
Invalidate ==
    /\ \E K \in SUBSET Keys :
          floor' = [k \in Keys |-> IF k \in K THEN content ELSE floor[k]]
    /\ UNCHANGED <<content, status, asked, answer>>

\* The connection is replaced: new source, no key survives.
Renew ==
    /\ content' = content + 1
    /\ floor' = [k \in Keys |-> content']
    /\ UNCHANGED <<status, asked, answer>>

Next ==
    \/ \E r \in Requests : Arrive(r) \/ Answer(r) \/ Fail(r)
    \/ Change
    \/ Invalidate
    \/ Renew

Spec == Init /\ [][Next]_vars

\* A request that has arrived is answered or fails.
FairSpec == Spec /\ \A r \in Requests : WF_vars(Answer(r) \/ Fail(r))

=============================================================================
