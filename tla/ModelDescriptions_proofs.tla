---------------------- MODULE ModelDescriptions_proofs ----------------------
(***************************************************************************)
(* Theorems about ModelDescriptions, for every set of clients and changers *)
(* and every setting.                                                      *)
(***************************************************************************)
EXTENDS ModelDescriptions, TLAPS

USE DescriptionsAssumption, NoneIsNoRendering

\* A step of reload_request_mapped_base.
ReloadStep(w) == BeginLoad(w) \/ EndLoad(w) \/ LoadFails(w) \/ Clear(w) \/ ClearFails(w)

\* The types and what a request has read by the time it answers.
THEOREM TypeCorrect == Spec => []TypeOK
<1>1. Init => TypeOK
  <2>1. Init => overtaken \in [Clients -> BOOLEAN] /\ cid \in [Clients -> BOOLEAN]
    BY DEF Init
  <2>2. Init => broken \in BOOLEAN /\ unclean \in BOOLEAN /\ late \in BOOLEAN
    BY DEF Init
  <2> QED BY <2>1, <2>2 DEF Init, TypeOK
<1>2. TypeOK /\ [Next]_vars => TypeOK'
  <2> SUFFICES ASSUME TypeOK, [Next]_vars PROVE TypeOK'
    OBVIOUS
  <2> USE DEF TypeOK
  <2>1. ASSUME NEW c \in Clients, Ask(c) \/ AskFails(c) PROVE TypeOK'
    BY <2>1 DEF Ask, AskFails, cache, failures
  <2>2. ASSUME NEW c \in Clients, ReadTables(c) PROVE TypeOK'
    <3>1. Visible \in Rendering
      BY DEF Visible, Rendering
    <3> QED BY <2>2, <3>1 DEF ReadTables, cache, failures
  <2>3. ASSUME NEW c \in Clients, AnswerCached(c) PROVE TypeOK'
    <3>1. response \in Rendering
      BY <2>3 DEF AnswerCached, Hit
    <3> QED BY <2>3, <3>1 DEF AnswerCached, Respond, cache, failures
  <2>4. ASSUME NEW c \in Clients, AnswerRendered(c) PROVE TypeOK'
    <3>1. rendered[c] \in Rendering
      BY <2>4 DEF AnswerRendered
    <3> QED BY <2>4, <3>1 DEF AnswerRendered, Respond, failures
  <2>5. ASSUME NEW w \in Changers, ReloadStep(w)
        PROVE  TypeOK'
    <3>1. CASE BeginLoad(w) \/ EndLoad(w) \/ LoadFails(w) \/ ClearFails(w)
      <4>1. /\ broken' \in BOOLEAN /\ unclean' \in BOOLEAN
            /\ UNCHANGED <<late, overtaken, cid, rendered, etag, kept, offered, shown, pc>>
        BY <3>1 DEF BeginLoad, EndLoad, LoadFails, ClearFails, failures, client
      <4> QED BY <3>1, <4>1 DEF BeginLoad, EndLoad, LoadFails, ClearFails, cache
    <3>2. CASE Clear(w)
      <4>1. overtaken' \in [Clients -> BOOLEAN] /\ late' \in BOOLEAN
        BY <3>2 DEF Clear, Cleared
      <4> QED BY <3>2, <4>1 DEF Clear, client
    <3> QED BY <2>5, <3>1, <3>2 DEF ReloadStep
  <2>6. CASE SaveOverrides
    BY <2>6 DEF SaveOverrides, cache, failures, client
  <2>7. CASE Reconnect
    <3>1. /\ overtaken' \in [Clients -> BOOLEAN] /\ late' \in BOOLEAN
          /\ broken' \in BOOLEAN /\ unclean' \in BOOLEAN
      BY <2>7 DEF Reconnect, Cleared
    <3> QED BY <2>7, <3>1 DEF Reconnect, client
  <2>8. CASE UNCHANGED vars
    BY <2>8 DEF vars, cache, failures, client
  <2> QED BY <2>1, <2>2, <2>3, <2>4, <2>5, <2>6, <2>7, <2>8 DEF Next, ReloadStep
<1> QED BY <1>1, <1>2, PTL DEF Spec

-----------------------------------------------------------------------------
(* Conditional requests                                                    *)

\* While responses are cached, a hash in the cache is the one of the response.
HashOfResponse == CacheResponses /\ hash \in Rendering => hash = response

\* A client that has a hash has it with the body it belongs to.
TagOfBody == \A c \in Clients : etag[c] \in Rendering => kept[c] = etag[c]

TagInv == HashOfResponse /\ TagOfBody /\ NotModifiedMeansSame

LEMMA TagInvInit == Init => TagInv
  BY DEF Init, TagInv, HashOfResponse, TagOfBody, NotModifiedMeansSame

\* What an answer does to the client, when a tag that is a hash is the hash
\* of the body.
LEMMA RespondKeepsTags ==
    ASSUME TypeOK, TagInv, NEW c \in Clients, NEW body \in Rendering,
           NEW tag \in Rendering \cup {None}, tag \in Rendering => tag = body,
           Respond(c, body, tag)
    PROVE  TagOfBody' /\ NotModifiedMeansSame'
<1> USE DEF TypeOK, TagInv, TagOfBody, NotModifiedMeansSame
<1>1. ASSUME NEW d \in Clients, d # c
      PROVE  /\ shown'[d] = shown[d] /\ offered'[d] = offered[d]
             /\ etag'[d] = etag[d] /\ kept'[d] = kept[d]
  BY <1>1 DEF Respond
<1>2. CASE ~cid[c]
  <2>1. /\ shown'[c] = body /\ offered'[c] = body
        /\ etag'[c] = etag[c] /\ kept'[c] = kept[c]
    BY <1>2 DEF Respond
  <2> QED BY <1>1, <2>1
<1>3. CASE cid[c] /\ etag[c] = tag
  <2>1. /\ shown'[c] = kept[c] /\ offered'[c] = body
        /\ etag'[c] = tag /\ kept'[c] = kept[c]
    BY <1>3 DEF Respond
  <2> QED BY <1>1, <1>3, <2>1
<1>4. CASE cid[c] /\ etag[c] # tag
  <2>1. /\ shown'[c] = body /\ offered'[c] = body
        /\ etag'[c] = tag /\ kept'[c] = body
    BY <1>4 DEF Respond
  <2> QED BY <1>1, <2>1
<1> QED BY <1>2, <1>3, <1>4

LEMMA TagInvStep == TypeOK /\ TagInv /\ [Next]_vars => TagInv'
<1> SUFFICES ASSUME TypeOK, TagInv, [Next]_vars PROVE TagInv'
  OBVIOUS
<1>1. ASSUME UNCHANGED <<etag, kept, offered, shown>>,
             (UNCHANGED hash /\ UNCHANGED response) \/ hash' \in {None, Absent}
      PROVE  TagInv'
  BY <1>1 DEF TagInv, HashOfResponse, TagOfBody, NotModifiedMeansSame
<1>2. ASSUME NEW c \in Clients, Ask(c) \/ ReadTables(c) \/ AskFails(c) PROVE TagInv'
  BY <1>1, <1>2 DEF Ask, ReadTables, AskFails, cache
<1>3. ASSUME NEW c \in Clients, AnswerCached(c) PROVE TagInv'
  <2>1. response \in Rendering /\ CacheResponses
    BY <1>3 DEF AnswerCached, Hit, TypeOK
  <2> DEFINE tag == IF hash = Absent THEN response ELSE hash
  <2>2. tag \in Rendering \cup {None} /\ (tag \in Rendering => tag = response)
    BY <2>1 DEF TypeOK, TagInv, HashOfResponse
  <2>3. Respond(c, response, tag) /\ UNCHANGED cache
    BY <1>3 DEF AnswerCached
  <2> HIDE DEF tag
  <2>4. TagOfBody' /\ NotModifiedMeansSame'
    BY <2>1, <2>2, <2>3, RespondKeepsTags
  <2> QED BY <2>3, <2>4 DEF TagInv, HashOfResponse, cache
<1>4. ASSUME NEW c \in Clients, AnswerRendered(c) PROVE TagInv'
  <2>1. rendered[c] \in Rendering /\ Respond(c, rendered[c], rendered[c])
    BY <1>4 DEF AnswerRendered, TypeOK
  <2>2. TagOfBody' /\ NotModifiedMeansSame'
    BY <2>1, RespondKeepsTags
  <2>3. HashOfResponse'
    \* A miss with caching on means that there is no response, hence no hash.
    <3>1. /\ response' = rendered[c]
          /\ hash' = IF cid[c] THEN rendered[c] ELSE hash
          /\ CacheResponses => response = None
      BY <1>4 DEF AnswerRendered, Hit
    <3> QED BY <3>1 DEF TagInv, HashOfResponse
  <2> QED BY <2>2, <2>3 DEF TagInv
<1>5. ASSUME NEW w \in Changers, ReloadStep(w) PROVE TagInv'
  BY <1>1, <1>5 DEF ReloadStep, BeginLoad, EndLoad, LoadFails, Clear, ClearFails, Cleared, cache, failures, client
<1>6. CASE SaveOverrides \/ Reconnect \/ UNCHANGED vars
  BY <1>1, <1>6 DEF SaveOverrides, Reconnect, Cleared, vars, cache, failures, client
<1> QED BY <1>2, <1>3, <1>4, <1>5, <1>6 DEF Next, ReloadStep

THEOREM TagInvAlways == Spec => []TagInv
  BY TypeCorrect, TagInvInit, TagInvStep, PTL DEF Spec

\* A 304 is right, or the client's ETag is "None" (model_description.py:410-463).
THEOREM NotModifiedMeansSameAlways == Spec => []NotModifiedMeansSame
<1>1. TagInv => NotModifiedMeansSame
  BY DEF TagInv
<1> QED BY TagInvAlways, <1>1, PTL

-----------------------------------------------------------------------------
(* Where the tag None cannot come from                                     *)

\* A cached response that may be answered has its hash beside it, and no
\* client has been given the tag None.
HashBeside ==
    /\ \A c \in Clients : pc[c] # "idle" => cid[c] \in CidModes
    /\ CacheResponses /\ response # None => hash = response
    /\ \A c \in Clients : etag[c] # None

LEMMA HashBesideInit == Init => HashBeside
  BY DEF Init, HashBeside

LEMMA HashBesideStep ==
    ASSUME CidModes \subseteq {TRUE} \/ ~CacheResponses
    PROVE  TypeOK /\ HashBeside /\ [Next]_vars => HashBeside'
<1> SUFFICES ASSUME TypeOK, HashBeside, [Next]_vars PROVE HashBeside'
  OBVIOUS
<1> USE DEF TypeOK, HashBeside
<1>1. ASSUME NEW c \in Clients, Ask(c) PROVE HashBeside'
  BY <1>1 DEF Ask, cache
<1>2. ASSUME NEW c \in Clients, ReadTables(c) \/ AskFails(c) PROVE HashBeside'
  BY <1>2 DEF ReadTables, AskFails, cache
<1>3. ASSUME NEW c \in Clients, AnswerCached(c) PROVE HashBeside'
  BY <1>3 DEF AnswerCached, Respond, Hit, cache
<1>4. ASSUME NEW c \in Clients, AnswerRendered(c) PROVE HashBeside'
  <2>1. CacheResponses => cid[c]
    BY <1>4 DEF AnswerRendered
  <2> QED BY <1>4, <2>1 DEF AnswerRendered, Respond
<1>5. ASSUME NEW w \in Changers, ReloadStep(w)
      PROVE  HashBeside'
  BY <1>5 DEF ReloadStep, BeginLoad, EndLoad, LoadFails, Clear, ClearFails, Cleared, cache, failures, client
<1>6. CASE SaveOverrides \/ Reconnect \/ UNCHANGED vars
  BY <1>6 DEF SaveOverrides, Reconnect, Cleared, vars, cache, failures, client
<1> QED BY <1>1, <1>2, <1>3, <1>4, <1>5, <1>6 DEF Next, ReloadStep

\* If all requests carry "cid", or responses are not cached, every 304 is
\* right (model_description.py:410-463).
THEOREM ShownIsOfferedAlways ==
    ASSUME CidModes \subseteq {TRUE} \/ ~CacheResponses
    PROVE  Spec => []ShownIsOffered
<1>1. TypeOK /\ HashBeside /\ [Next]_vars => HashBeside'
  BY HashBesideStep
<1>2. TagInv /\ HashBeside => ShownIsOffered
  BY DEF TagInv, NotModifiedMeansSame, HashBeside, ShownIsOffered
<1> QED BY TypeCorrect, TagInvAlways, HashBesideInit, <1>1, <1>2, PTL DEF Spec

-----------------------------------------------------------------------------
(* What the cached response shows                                          *)

\* Something explains classes that are not all there.
Excused == Changing # {} \/ broken \/ unclean

\* What a request has read is as FreshDescriptions wants it, until the cache is cleared.
FreshInv ==
    /\ clearedAt <= version
    /\ \A c \in Clients : pc[c] = "read" /\ ~overtaken[c] =>
          /\ rendered[c].version >= clearedAt
          /\ rendered[c].whole \/ Excused
    /\ FreshDescriptions

LEMMA FreshInvInit == Init => FreshInv
  BY DEF Init, FreshInv, FreshDescriptions

\* Only clearing the cache takes the excuse away.
LEMMA ExcuseStays ==
    ASSUME TypeOK, NEW w \in Changers, ReloadStep(w), ~Clear(w), Excused
    PROVE  Excused'
<1>1. CASE BeginLoad(w) \/ EndLoad(w)
  <2>1. wpc'[w] \in {"loading", "loaded"}
    BY <1>1 DEF BeginLoad, EndLoad, TypeOK
  <2> QED BY <2>1 DEF Excused, Changing, Loading
<1>2. CASE LoadFails(w) \/ ClearFails(w)
  BY <1>2 DEF LoadFails, ClearFails, Excused
<1> QED BY <1>1, <1>2 DEF ReloadStep

LEMMA FreshInvStep == TypeOK /\ FreshInv /\ [Next]_vars => FreshInv'
<1> SUFFICES ASSUME TypeOK, FreshInv, [Next]_vars PROVE FreshInv'
  OBVIOUS
<1> USE DEF TypeOK, FreshInv, FreshDescriptions, Rendering
<1>1. ASSUME NEW c \in Clients, Ask(c) \/ ReadTables(c) \/ AskFails(c) PROVE FreshInv'
  <2>1. /\ Excused' = Excused /\ UNCHANGED <<version, clearedAt, response, late>>
        /\ Changing' = Changing /\ broken' = broken /\ unclean' = unclean
    BY <1>1 DEF Ask, ReadTables, AskFails, Excused, Changing, Loading, failures, cache
  <2>2. Visible.version = version /\ (Visible.whole \/ Excused)
    BY DEF Visible, Excused, Changing
  <2>3. ASSUME NEW d \in Clients, pc'[d] = "read", ~overtaken'[d]
        PROVE  rendered'[d].version >= clearedAt /\ (rendered'[d].whole \/ Excused)
    <3>1. CASE d = c
      <4>1. rendered'[c] = Visible
        BY <1>1, <2>3, <3>1 DEF Ask, ReadTables, AskFails
      <4> QED BY <2>2, <3>1, <4>1
    <3>2. CASE d # c
      BY <1>1, <2>3, <3>2 DEF Ask, ReadTables, AskFails
    <3> QED BY <3>1, <3>2
  <2> QED BY <2>1, <2>3
<1>2. ASSUME NEW c \in Clients, AnswerCached(c) \/ AnswerRendered(c) PROVE FreshInv'
  <2>1. /\ pc[c] = "read" /\ pc' = [pc EXCEPT ![c] = "idle"]
        /\ rendered' = [rendered EXCEPT ![c] = None]
        /\ overtaken' = [overtaken EXCEPT ![c] = FALSE]
        /\ UNCHANGED <<version, clearedAt, wpc, broken, unclean>>
        /\ \/ response' = response /\ late' = late
           \/ response' = rendered[c] /\ late' = overtaken[c]
    BY <1>2 DEF AnswerCached, AnswerRendered, Respond, cache, failures
  <2>2. Excused' = Excused /\ Changing' = Changing
    BY <2>1 DEF Excused, Changing, Loading
  <2>3. response' # None /\ ~late' => response'.version >= clearedAt /\ (response'.whole \/ Excused)
    BY <2>1 DEF Excused
  <2> QED BY <2>1, <2>2, <2>3 DEF Excused
<1>3. ASSUME NEW w \in Changers, ReloadStep(w), ~Clear(w) PROVE FreshInv'
  <2>1. /\ UNCHANGED <<clearedAt, response, late, pc, overtaken, rendered>>
        /\ version' \in Nat /\ version' >= version
    BY <1>3 DEF ReloadStep, BeginLoad, EndLoad, LoadFails, ClearFails, cache, failures, client
  <2>2. Excused => Excused'
    BY <1>3, ExcuseStays
  <2>3. response # None /\ ~late => response.version >= clearedAt /\ (response.whole \/ Excused)
    BY DEF Excused
  <2> QED BY <2>1, <2>2, <2>3 DEF Excused
<1>4. ASSUME Cleared, response' = None, clearedAt' \in Nat, clearedAt' <= version', pc' = pc
      PROVE  FreshInv'
  BY <1>4 DEF Cleared
<1>5. ASSUME NEW w \in Changers, Clear(w) PROVE FreshInv'
  BY <1>4, <1>5 DEF Clear
<1>6. CASE Reconnect
  BY <1>4, <1>6 DEF Reconnect
<1>7. CASE SaveOverrides \/ UNCHANGED vars
  BY <1>7 DEF SaveOverrides, vars, cache, failures, client, Excused, Changing, Loading
<1> QED BY <1>1, <1>2, <1>3, <1>5, <1>6, <1>7 DEF Next, ReloadStep

\* However requests, reloads that may raise, and reconnects overlap: what is cached is from
\* after the last clearing unless it was read before it, and it does not show the classes
\* of a reload under way once that reload is over (model_description.py:410-463).
THEOREM FreshDescriptionsAlways == Spec => []FreshDescriptions
<1>1. FreshInv => FreshDescriptions
  BY DEF FreshInv
<1> QED BY TypeCorrect, FreshInvInit, FreshInvStep, <1>1, PTL DEF Spec
=============================================================================
