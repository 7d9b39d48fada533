---------------------- MODULE GraphQLSchemaCache_proofs ----------------------
(***************************************************************************)
(* Proofs of the safety properties of GraphQLSchemaCache, and that it      *)
(* implements SchemaReads, for every number of requests, writers, keys and *)
(* versions of the source.                                                 *)
(***************************************************************************)
EXTENDS GraphQLSchemaCache, TLAPS

-----------------------------------------------------------------------------
(* Types                                                                   *)

LEMMA TypeInit == Init => TypeOK
<1> SUFFICES ASSUME Init PROVE TypeOK
  OBVIOUS
<1>1. NoEntry \in Entry
  BY DEF NoEntry, Entry, Versions
<1>2. cache \in [Keys -> Entry]
  BY <1>1 DEF Init
<1> QED
  BY <1>2, CacheAssumption DEF Init, TypeOK, RequestPCs, Versions

LEMMA TypeStep == TypeOK /\ [Next]_vars => TypeOK'
<1> SUFFICES ASSUME TypeOK, [Next]_vars
             PROVE  TypeOK'
  OBVIOUS
<1> USE CacheAssumption DEF TypeOK, RequestPCs, Versions, Entry, NoEntry, Scopes, Source, Fixed, Others
<1>1. ASSUME NEW r \in Requests, Arrive(r) PROVE TypeOK'
  BY <1>1 DEF Arrive, Goto
<1>2. ASSUME NEW r \in Requests, ConnectionError(r) PROVE TypeOK'
  BY <1>2 DEF ConnectionError, Goto
<1>3. ASSUME NEW r \in Requests, GetSchema(r) PROVE TypeOK'
  <2>1. CASE Ready(key[r]) /\ AnswerFrom(r, cache[key[r]].schema) /\ Goto(r, "answered")
             /\ UNCHANGED <<cache, waitsOn>>
    BY <1>3, <2>1 DEF GetSchema, AnswerFrom, Goto
  <2>2. CASE InProgress(key[r]) /\ waitsOn' = [waitsOn EXCEPT ![r] = cache[key[r]].owner]
             /\ Goto(r, "wait_enter") /\ UNCHANGED <<cache, answer>>
    <3>1. cache[key[r]].owner \in Requests
      BY <2>2 DEF InProgress
    <3> QED
      BY <1>3, <2>2, <3>1 DEF GetSchema, Goto
  <2>3. CASE Absent(key[r]) /\ PutNew(r) /\ Goto(r, "begin") /\ UNCHANGED <<waitsOn, answer>>
    BY <1>3, <2>3 DEF GetSchema, PutNew, Goto
  <2> QED
    BY <1>3, <2>1, <2>2, <2>3 DEF GetSchema
<1>4. ASSUME NEW r \in Requests, EnterWait(r) PROVE TypeOK'
  BY <1>4 DEF EnterWait, Goto
<1>5. ASSUME NEW r \in Requests, WaitTimeout(r) PROVE TypeOK'
  BY <1>5 DEF WaitTimeout, Goto
<1>6. ASSUME NEW r \in Requests, FindAfterWait(r) PROVE TypeOK'
  BY <1>6 DEF FindAfterWait, Goto, AnswerFrom, Ready
<1>7. ASSUME NEW r \in Requests, Retry(r) PROVE TypeOK'
  BY <1>7 DEF Retry, Goto, PutNew
<1>8. ASSUME NEW r \in Requests, BeginGeneration(r) PROVE TypeOK'
  BY <1>8 DEF BeginGeneration, Goto
<1>9. ASSUME NEW r \in Requests, Generate(r) PROVE TypeOK'
  BY <1>9 DEF Generate, Goto
<1>10. ASSUME NEW r \in Requests, GenerationFails(r) PROVE TypeOK'
  BY <1>10 DEF GenerationFails, Goto
<1>11. ASSUME NEW r \in Requests, Store(r) PROVE TypeOK'
  BY <1>11 DEF Store, Goto, AnswerFrom, OwnsEntry
<1>12. ASSUME NEW r \in Requests, Cleanup(r) PROVE TypeOK'
  BY <1>12 DEF Cleanup, Goto, OwnsEntry
<1>13. ASSUME NEW r \in Requests, Notify(r) PROVE TypeOK'
  BY <1>13 DEF Notify
<1>14. ASSUME NEW w \in Writers, Apply(w) PROVE TypeOK'
  BY <1>14 DEF Apply
<1>15. ASSUME NEW w \in Writers, Invalidate(w) PROVE TypeOK'
  BY <1>15 DEF Invalidate, Clear
<1>16. CASE ReleaseCheck
  BY <1>16 DEF ReleaseCheck
<1>17. CASE ReleaseClear
  BY <1>17 DEF ReleaseClear, Clear
<1>18. CASE Disconnect
  BY <1>18 DEF Disconnect
<1>19. CASE Connect
  BY <1>19 DEF Connect
<1>20. CASE UNCHANGED vars
  BY <1>20 DEF vars
<1> QED
  BY <1>1, <1>2, <1>3, <1>4, <1>5, <1>6, <1>7, <1>8, <1>9, <1>10,
     <1>11, <1>12, <1>13, <1>14, <1>15, <1>16, <1>17, <1>18, <1>19, <1>20
  DEF Next, RequestStep

\* Type correctness; a request that waits knows whose generation it waits for.
THEOREM TypeCorrect == Spec => []TypeOK
<1> QED
  BY TypeInit, TypeStep, PTL DEF Spec

-----------------------------------------------------------------------------
(* The inductive invariant                                                 *)

\* A connection that is gone has taken its cache along.
GoneIsEmpty == ~up => \A k \in Keys : cache[k] = NoEntry

\* Versions are ordered: invalidation, cached schema, source.
Ordered ==
    \A k \in Keys :
        /\ clearedAt[k] <= content
        /\ Ready(k) => clearedAt[k] <= cache[k].schema /\ cache[k].schema <= content

\* What a request found on arrival is not undone.
AskedBefore == \A r \in Requests : pc[r] # "idle" => asked[r] <= clearedAt[key[r]]

\* A generated schema is from after the arrival, and from after the last
\* invalidation too unless the entry was taken away.
GeneratedInTime ==
    \A r \in Requests : pc[r] = "store" =>
        /\ ver[r] \in Nat
        /\ asked[r] <= ver[r] /\ ver[r] <= content
        /\ OwnsEntry(r) => clearedAt[key[r]] <= ver[r]

\* So is the version a request answers from; it has one only in the end.
AnsweredInTime ==
    \A r \in Requests :
        /\ answer[r] # None =>
               /\ pc[r] \in {"notify", "answered"}
               /\ asked[r] <= answer[r] /\ answer[r] <= content
        /\ pc[r] = "answered" => answer[r] # None

CacheInv ==
    /\ GoneIsEmpty
    /\ Ordered
    /\ AskedBefore
    /\ GeneratedInTime
    /\ AnsweredInTime
    /\ ProgressHasGenerator

LEMMA CacheInvInit == Init => CacheInv
BY CacheAssumption
   DEF Init, CacheInv, GoneIsEmpty, Ordered, AskedBefore, GeneratedInTime, AnsweredInTime,
       ProgressHasGenerator, Ready, InProgress, NoEntry

LEMMA GoneIsEmptyStep == TypeOK /\ GoneIsEmpty /\ [Next]_vars => GoneIsEmpty'
<1> SUFFICES ASSUME TypeOK, GoneIsEmpty, [Next]_vars
             PROVE  GoneIsEmpty'
  OBVIOUS
<1> USE CacheAssumption DEF GoneIsEmpty, TypeOK, RequestPCs, Versions, Entry, NoEntry, Scopes, Source, Fixed, Others, Ready, InProgress, OwnsEntry
<1>1. ASSUME NEW r \in Requests, Arrive(r) PROVE GoneIsEmpty'
  BY <1>1 DEF Arrive, Goto
<1>2. ASSUME NEW r \in Requests, ConnectionError(r) PROVE GoneIsEmpty'
  BY <1>2 DEF ConnectionError, Goto
<1>3. ASSUME NEW r \in Requests, GetSchema(r) PROVE GoneIsEmpty'
  BY <1>3 DEF GetSchema, Goto, PutNew, AnswerFrom, Ready, InProgress, Absent
<1>4. ASSUME NEW r \in Requests, EnterWait(r) PROVE GoneIsEmpty'
  BY <1>4 DEF EnterWait, Goto
<1>5. ASSUME NEW r \in Requests, WaitTimeout(r) PROVE GoneIsEmpty'
  BY <1>5 DEF WaitTimeout, Goto
<1>6. ASSUME NEW r \in Requests, FindAfterWait(r) PROVE GoneIsEmpty'
  BY <1>6 DEF FindAfterWait, Goto, AnswerFrom, Ready
<1>7. ASSUME NEW r \in Requests, Retry(r) PROVE GoneIsEmpty'
  BY <1>7 DEF Retry, Goto, PutNew
<1>8. ASSUME NEW r \in Requests, BeginGeneration(r) PROVE GoneIsEmpty'
  BY <1>8 DEF BeginGeneration, Goto
<1>9. ASSUME NEW r \in Requests, Generate(r) PROVE GoneIsEmpty'
  BY <1>9 DEF Generate, Goto
<1>10. ASSUME NEW r \in Requests, GenerationFails(r) PROVE GoneIsEmpty'
  BY <1>10 DEF GenerationFails, Goto
<1>11. ASSUME NEW r \in Requests, Store(r) PROVE GoneIsEmpty'
  BY <1>11 DEF Store, Goto, AnswerFrom, OwnsEntry
<1>12. ASSUME NEW r \in Requests, Cleanup(r) PROVE GoneIsEmpty'
  BY <1>12 DEF Cleanup, Goto, OwnsEntry
<1>13. ASSUME NEW r \in Requests, Notify(r) PROVE GoneIsEmpty'
  BY <1>13 DEF Notify
<1>14. ASSUME NEW w \in Writers, Apply(w) PROVE GoneIsEmpty'
  BY <1>14 DEF Apply
<1>15. ASSUME NEW w \in Writers, Invalidate(w) PROVE GoneIsEmpty'
  BY <1>15 DEF Invalidate, Clear
<1>16. CASE ReleaseCheck
  BY <1>16 DEF ReleaseCheck
<1>17. CASE ReleaseClear
  BY <1>17 DEF ReleaseClear, Clear
<1>18. CASE Disconnect
  BY <1>18 DEF Disconnect
<1>19. CASE Connect
  BY <1>19 DEF Connect
<1>20. CASE UNCHANGED vars
  BY <1>20 DEF vars
<1> QED
  BY <1>1, <1>2, <1>3, <1>4, <1>5, <1>6, <1>7, <1>8, <1>9, <1>10,
     <1>11, <1>12, <1>13, <1>14, <1>15, <1>16, <1>17, <1>18, <1>19, <1>20
  DEF Next, RequestStep

LEMMA OrderedStep == TypeOK /\ GoneIsEmpty /\ Ordered /\ GeneratedInTime /\ [Next]_vars => Ordered'
<1> SUFFICES ASSUME TypeOK, GoneIsEmpty, Ordered, GeneratedInTime, [Next]_vars
             PROVE  Ordered'
  OBVIOUS
<1> USE CacheAssumption DEF GoneIsEmpty, Ordered, GeneratedInTime, TypeOK, RequestPCs, Versions, Entry, NoEntry, Scopes, Source, Fixed, Others, Ready, InProgress, OwnsEntry
<1>1. ASSUME NEW r \in Requests, Arrive(r) PROVE Ordered'
  BY <1>1 DEF Arrive, Goto
<1>2. ASSUME NEW r \in Requests, ConnectionError(r) PROVE Ordered'
  BY <1>2 DEF ConnectionError, Goto
<1>3. ASSUME NEW r \in Requests, GetSchema(r) PROVE Ordered'
  BY <1>3 DEF GetSchema, Goto, PutNew, AnswerFrom, Ready, InProgress, Absent
<1>4. ASSUME NEW r \in Requests, EnterWait(r) PROVE Ordered'
  BY <1>4 DEF EnterWait, Goto
<1>5. ASSUME NEW r \in Requests, WaitTimeout(r) PROVE Ordered'
  BY <1>5 DEF WaitTimeout, Goto
<1>6. ASSUME NEW r \in Requests, FindAfterWait(r) PROVE Ordered'
  BY <1>6 DEF FindAfterWait, Goto, AnswerFrom, Ready
<1>7. ASSUME NEW r \in Requests, Retry(r) PROVE Ordered'
  BY <1>7 DEF Retry, Goto, PutNew
<1>8. ASSUME NEW r \in Requests, BeginGeneration(r) PROVE Ordered'
  BY <1>8 DEF BeginGeneration, Goto
<1>9. ASSUME NEW r \in Requests, Generate(r) PROVE Ordered'
  BY <1>9 DEF Generate, Goto
<1>10. ASSUME NEW r \in Requests, GenerationFails(r) PROVE Ordered'
  BY <1>10 DEF GenerationFails, Goto
<1>11. ASSUME NEW r \in Requests, Store(r) PROVE Ordered'
  BY <1>11 DEF Store, Goto, AnswerFrom, OwnsEntry
<1>12. ASSUME NEW r \in Requests, Cleanup(r) PROVE Ordered'
  BY <1>12 DEF Cleanup, Goto, OwnsEntry
<1>13. ASSUME NEW r \in Requests, Notify(r) PROVE Ordered'
  BY <1>13 DEF Notify
<1>14. ASSUME NEW w \in Writers, Apply(w) PROVE Ordered'
  BY <1>14 DEF Apply
<1>15. ASSUME NEW w \in Writers, Invalidate(w) PROVE Ordered'
  BY <1>15 DEF Invalidate, Clear
<1>16. CASE ReleaseCheck
  BY <1>16 DEF ReleaseCheck
<1>17. CASE ReleaseClear
  BY <1>17 DEF ReleaseClear, Clear
<1>18. CASE Disconnect
  BY <1>18 DEF Disconnect
<1>19. CASE Connect
  <2>1. \A k \in Keys : cache'[k] = NoEntry /\ clearedAt'[k] = content'
    BY <1>19 DEF Connect
  <2>2. content' \in Nat
    BY <1>19 DEF Connect
  <2> QED
    BY <2>1, <2>2
<1>20. CASE UNCHANGED vars
  BY <1>20 DEF vars
<1> QED
  BY <1>1, <1>2, <1>3, <1>4, <1>5, <1>6, <1>7, <1>8, <1>9, <1>10,
     <1>11, <1>12, <1>13, <1>14, <1>15, <1>16, <1>17, <1>18, <1>19, <1>20
  DEF Next, RequestStep

LEMMA AskedBeforeStep == TypeOK /\ Ordered /\ AskedBefore /\ [Next]_vars => AskedBefore'
<1> SUFFICES ASSUME TypeOK, Ordered, AskedBefore, [Next]_vars
             PROVE  AskedBefore'
  OBVIOUS
<1> USE CacheAssumption DEF Ordered, AskedBefore, TypeOK, RequestPCs, Versions, Entry, NoEntry, Scopes, Source, Fixed, Others, Ready, InProgress, OwnsEntry
<1>1. ASSUME NEW r \in Requests, Arrive(r) PROVE AskedBefore'
  BY <1>1 DEF Arrive, Goto
<1>2. ASSUME NEW r \in Requests, ConnectionError(r) PROVE AskedBefore'
  BY <1>2 DEF ConnectionError, Goto
<1>3. ASSUME NEW r \in Requests, GetSchema(r) PROVE AskedBefore'
  BY <1>3 DEF GetSchema, Goto, PutNew, AnswerFrom, Ready, InProgress, Absent
<1>4. ASSUME NEW r \in Requests, EnterWait(r) PROVE AskedBefore'
  BY <1>4 DEF EnterWait, Goto
<1>5. ASSUME NEW r \in Requests, WaitTimeout(r) PROVE AskedBefore'
  BY <1>5 DEF WaitTimeout, Goto
<1>6. ASSUME NEW r \in Requests, FindAfterWait(r) PROVE AskedBefore'
  BY <1>6 DEF FindAfterWait, Goto, AnswerFrom, Ready
<1>7. ASSUME NEW r \in Requests, Retry(r) PROVE AskedBefore'
  BY <1>7 DEF Retry, Goto, PutNew
<1>8. ASSUME NEW r \in Requests, BeginGeneration(r) PROVE AskedBefore'
  BY <1>8 DEF BeginGeneration, Goto
<1>9. ASSUME NEW r \in Requests, Generate(r) PROVE AskedBefore'
  BY <1>9 DEF Generate, Goto
<1>10. ASSUME NEW r \in Requests, GenerationFails(r) PROVE AskedBefore'
  BY <1>10 DEF GenerationFails, Goto
<1>11. ASSUME NEW r \in Requests, Store(r) PROVE AskedBefore'
  BY <1>11 DEF Store, Goto, AnswerFrom, OwnsEntry
<1>12. ASSUME NEW r \in Requests, Cleanup(r) PROVE AskedBefore'
  BY <1>12 DEF Cleanup, Goto, OwnsEntry
<1>13. ASSUME NEW r \in Requests, Notify(r) PROVE AskedBefore'
  BY <1>13 DEF Notify
<1>14. ASSUME NEW w \in Writers, Apply(w) PROVE AskedBefore'
  BY <1>14 DEF Apply
<1>15. ASSUME NEW w \in Writers, Invalidate(w) PROVE AskedBefore'
  BY <1>15 DEF Invalidate, Clear
<1>16. CASE ReleaseCheck
  BY <1>16 DEF ReleaseCheck
<1>17. CASE ReleaseClear
  BY <1>17 DEF ReleaseClear, Clear
<1>18. CASE Disconnect
  BY <1>18 DEF Disconnect
<1>19. CASE Connect
  BY <1>19 DEF Connect
<1>20. CASE UNCHANGED vars
  BY <1>20 DEF vars
<1> QED
  BY <1>1, <1>2, <1>3, <1>4, <1>5, <1>6, <1>7, <1>8, <1>9, <1>10,
     <1>11, <1>12, <1>13, <1>14, <1>15, <1>16, <1>17, <1>18, <1>19, <1>20
  DEF Next, RequestStep

LEMMA GeneratedInTimeStep == TypeOK /\ GoneIsEmpty /\ Ordered /\ AskedBefore /\ GeneratedInTime /\ [Next]_vars => GeneratedInTime'
<1> SUFFICES ASSUME TypeOK, GoneIsEmpty, Ordered, AskedBefore, GeneratedInTime, [Next]_vars
             PROVE  GeneratedInTime'
  OBVIOUS
<1> USE CacheAssumption DEF GoneIsEmpty, Ordered, AskedBefore, GeneratedInTime, TypeOK, RequestPCs, Versions, Entry, NoEntry, Scopes, Source, Fixed, Others, Ready, InProgress, OwnsEntry
<1>1. ASSUME NEW r \in Requests, Arrive(r) PROVE GeneratedInTime'
  BY <1>1 DEF Arrive, Goto
<1>2. ASSUME NEW r \in Requests, ConnectionError(r) PROVE GeneratedInTime'
  BY <1>2 DEF ConnectionError, Goto
<1>3. ASSUME NEW r \in Requests, GetSchema(r) PROVE GeneratedInTime'
  BY <1>3 DEF GetSchema, Goto, PutNew, AnswerFrom, Ready, InProgress, Absent
<1>4. ASSUME NEW r \in Requests, EnterWait(r) PROVE GeneratedInTime'
  BY <1>4 DEF EnterWait, Goto
<1>5. ASSUME NEW r \in Requests, WaitTimeout(r) PROVE GeneratedInTime'
  BY <1>5 DEF WaitTimeout, Goto
<1>6. ASSUME NEW r \in Requests, FindAfterWait(r) PROVE GeneratedInTime'
  BY <1>6 DEF FindAfterWait, Goto, AnswerFrom, Ready
<1>7. ASSUME NEW r \in Requests, Retry(r) PROVE GeneratedInTime'
  BY <1>7 DEF Retry, Goto, PutNew
<1>8. ASSUME NEW r \in Requests, BeginGeneration(r) PROVE GeneratedInTime'
  BY <1>8 DEF BeginGeneration, Goto
<1>9. ASSUME NEW r \in Requests, Generate(r) PROVE GeneratedInTime'
  BY <1>9 DEF Generate, Goto
<1>10. ASSUME NEW r \in Requests, GenerationFails(r) PROVE GeneratedInTime'
  BY <1>10 DEF GenerationFails, Goto
<1>11. ASSUME NEW r \in Requests, Store(r) PROVE GeneratedInTime'
  BY <1>11 DEF Store, Goto, AnswerFrom, OwnsEntry
<1>12. ASSUME NEW r \in Requests, Cleanup(r) PROVE GeneratedInTime'
  BY <1>12 DEF Cleanup, Goto, OwnsEntry
<1>13. ASSUME NEW r \in Requests, Notify(r) PROVE GeneratedInTime'
  BY <1>13 DEF Notify
<1>14. ASSUME NEW w \in Writers, Apply(w) PROVE GeneratedInTime'
  BY <1>14 DEF Apply
<1>15. ASSUME NEW w \in Writers, Invalidate(w) PROVE GeneratedInTime'
  BY <1>15 DEF Invalidate, Clear
<1>16. CASE ReleaseCheck
  BY <1>16 DEF ReleaseCheck
<1>17. CASE ReleaseClear
  BY <1>17 DEF ReleaseClear, Clear
<1>18. CASE Disconnect
  BY <1>18 DEF Disconnect
<1>19. CASE Connect
  BY <1>19 DEF Connect
<1>20. CASE UNCHANGED vars
  BY <1>20 DEF vars
<1> QED
  BY <1>1, <1>2, <1>3, <1>4, <1>5, <1>6, <1>7, <1>8, <1>9, <1>10,
     <1>11, <1>12, <1>13, <1>14, <1>15, <1>16, <1>17, <1>18, <1>19, <1>20
  DEF Next, RequestStep

LEMMA AnsweredInTimeStep == TypeOK /\ Ordered /\ AskedBefore /\ GeneratedInTime /\ AnsweredInTime /\ [Next]_vars => AnsweredInTime'
<1> SUFFICES ASSUME TypeOK, Ordered, AskedBefore, GeneratedInTime, AnsweredInTime, [Next]_vars
             PROVE  AnsweredInTime'
  OBVIOUS
<1> USE CacheAssumption DEF Ordered, AskedBefore, GeneratedInTime, AnsweredInTime, TypeOK, RequestPCs, Versions, Entry, NoEntry, Scopes, Source, Fixed, Others, Ready, InProgress, OwnsEntry
<1>1. ASSUME NEW r \in Requests, Arrive(r) PROVE AnsweredInTime'
  BY <1>1 DEF Arrive, Goto
<1>2. ASSUME NEW r \in Requests, ConnectionError(r) PROVE AnsweredInTime'
  BY <1>2 DEF ConnectionError, Goto
<1>3. ASSUME NEW r \in Requests, GetSchema(r) PROVE AnsweredInTime'
  BY <1>3 DEF GetSchema, Goto, PutNew, AnswerFrom, Ready, InProgress, Absent
<1>4. ASSUME NEW r \in Requests, EnterWait(r) PROVE AnsweredInTime'
  BY <1>4 DEF EnterWait, Goto
<1>5. ASSUME NEW r \in Requests, WaitTimeout(r) PROVE AnsweredInTime'
  BY <1>5 DEF WaitTimeout, Goto
<1>6. ASSUME NEW r \in Requests, FindAfterWait(r) PROVE AnsweredInTime'
  BY <1>6 DEF FindAfterWait, Goto, AnswerFrom, Ready
<1>7. ASSUME NEW r \in Requests, Retry(r) PROVE AnsweredInTime'
  BY <1>7 DEF Retry, Goto, PutNew
<1>8. ASSUME NEW r \in Requests, BeginGeneration(r) PROVE AnsweredInTime'
  BY <1>8 DEF BeginGeneration, Goto
<1>9. ASSUME NEW r \in Requests, Generate(r) PROVE AnsweredInTime'
  BY <1>9 DEF Generate, Goto
<1>10. ASSUME NEW r \in Requests, GenerationFails(r) PROVE AnsweredInTime'
  BY <1>10 DEF GenerationFails, Goto
<1>11. ASSUME NEW r \in Requests, Store(r) PROVE AnsweredInTime'
  BY <1>11 DEF Store, Goto, AnswerFrom, OwnsEntry
<1>12. ASSUME NEW r \in Requests, Cleanup(r) PROVE AnsweredInTime'
  BY <1>12 DEF Cleanup, Goto, OwnsEntry
<1>13. ASSUME NEW r \in Requests, Notify(r) PROVE AnsweredInTime'
  BY <1>13 DEF Notify
<1>14. ASSUME NEW w \in Writers, Apply(w) PROVE AnsweredInTime'
  BY <1>14 DEF Apply
<1>15. ASSUME NEW w \in Writers, Invalidate(w) PROVE AnsweredInTime'
  BY <1>15 DEF Invalidate, Clear
<1>16. CASE ReleaseCheck
  BY <1>16 DEF ReleaseCheck
<1>17. CASE ReleaseClear
  BY <1>17 DEF ReleaseClear, Clear
<1>18. CASE Disconnect
  BY <1>18 DEF Disconnect
<1>19. CASE Connect
  BY <1>19 DEF Connect
<1>20. CASE UNCHANGED vars
  BY <1>20 DEF vars
<1> QED
  BY <1>1, <1>2, <1>3, <1>4, <1>5, <1>6, <1>7, <1>8, <1>9, <1>10,
     <1>11, <1>12, <1>13, <1>14, <1>15, <1>16, <1>17, <1>18, <1>19, <1>20
  DEF Next, RequestStep

LEMMA ProgressHasGeneratorStep == TypeOK /\ GoneIsEmpty /\ GeneratedInTime /\ ProgressHasGenerator /\ [Next]_vars => ProgressHasGenerator'
<1> SUFFICES ASSUME TypeOK, GoneIsEmpty, GeneratedInTime, ProgressHasGenerator, [Next]_vars
             PROVE  ProgressHasGenerator'
  OBVIOUS
<1> USE CacheAssumption DEF GoneIsEmpty, GeneratedInTime, ProgressHasGenerator, TypeOK, RequestPCs, Versions, Entry, NoEntry, Scopes, Source, Fixed, Others, Ready, InProgress, OwnsEntry, Generating
<1>1. ASSUME NEW r \in Requests, Arrive(r) PROVE ProgressHasGenerator'
  BY <1>1 DEF Arrive, Goto
<1>2. ASSUME NEW r \in Requests, ConnectionError(r) PROVE ProgressHasGenerator'
  BY <1>2 DEF ConnectionError, Goto
<1>3. ASSUME NEW r \in Requests, GetSchema(r) PROVE ProgressHasGenerator'
  BY <1>3 DEF GetSchema, Goto, PutNew, AnswerFrom, Ready, InProgress, Absent
<1>4. ASSUME NEW r \in Requests, EnterWait(r) PROVE ProgressHasGenerator'
  BY <1>4 DEF EnterWait, Goto
<1>5. ASSUME NEW r \in Requests, WaitTimeout(r) PROVE ProgressHasGenerator'
  BY <1>5 DEF WaitTimeout, Goto
<1>6. ASSUME NEW r \in Requests, FindAfterWait(r) PROVE ProgressHasGenerator'
  BY <1>6 DEF FindAfterWait, Goto, AnswerFrom, Ready
<1>7. ASSUME NEW r \in Requests, Retry(r) PROVE ProgressHasGenerator'
  BY <1>7 DEF Retry, Goto, PutNew
<1>8. ASSUME NEW r \in Requests, BeginGeneration(r) PROVE ProgressHasGenerator'
  BY <1>8 DEF BeginGeneration, Goto
<1>9. ASSUME NEW r \in Requests, Generate(r) PROVE ProgressHasGenerator'
  BY <1>9 DEF Generate, Goto
<1>10. ASSUME NEW r \in Requests, GenerationFails(r) PROVE ProgressHasGenerator'
  BY <1>10 DEF GenerationFails, Goto
<1>11. ASSUME NEW r \in Requests, Store(r) PROVE ProgressHasGenerator'
  BY <1>11 DEF Store, Goto, AnswerFrom, OwnsEntry
<1>12. ASSUME NEW r \in Requests, Cleanup(r) PROVE ProgressHasGenerator'
  <2>0. key' = key /\ pc' = [pc EXCEPT ![r] = "notify"]
    BY <1>12 DEF Cleanup, Goto
  <2>1. CASE cache' = cache /\ raised' = raised \cup {r}
    BY <2>0, <2>1
  <2>2. CASE cache' = (IF OwnsEntry(r) THEN [cache EXCEPT ![key[r]] = NoEntry] ELSE cache)
             /\ raised' = raised
    <3>1. CASE OwnsEntry(r)
      BY <2>0, <2>2, <3>1
    <3>2. CASE ~OwnsEntry(r)
      BY <2>0, <2>2, <3>2
    <3> QED
      BY <3>1, <3>2
  <2> QED
    BY <1>12, <2>1, <2>2 DEF Cleanup
<1>13. ASSUME NEW r \in Requests, Notify(r) PROVE ProgressHasGenerator'
  BY <1>13 DEF Notify
<1>14. ASSUME NEW w \in Writers, Apply(w) PROVE ProgressHasGenerator'
  BY <1>14 DEF Apply
<1>15. ASSUME NEW w \in Writers, Invalidate(w) PROVE ProgressHasGenerator'
  BY <1>15 DEF Invalidate, Clear
<1>16. CASE ReleaseCheck
  BY <1>16 DEF ReleaseCheck
<1>17. CASE ReleaseClear
  BY <1>17 DEF ReleaseClear, Clear
<1>18. CASE Disconnect
  BY <1>18 DEF Disconnect
<1>19. CASE Connect
  BY <1>19 DEF Connect
<1>20. CASE UNCHANGED vars
  BY <1>20 DEF vars
<1> QED
  BY <1>1, <1>2, <1>3, <1>4, <1>5, <1>6, <1>7, <1>8, <1>9, <1>10,
     <1>11, <1>12, <1>13, <1>14, <1>15, <1>16, <1>17, <1>18, <1>19, <1>20
  DEF Next, RequestStep

\* The invariant, and the three properties that the runs check.
LEMMA CacheInvAlways == Spec => []CacheInv
<1>1. TypeOK /\ CacheInv /\ [Next]_vars => CacheInv'
  BY GoneIsEmptyStep, OrderedStep, AskedBeforeStep, GeneratedInTimeStep,
     AnsweredInTimeStep, ProgressHasGeneratorStep
  DEF CacheInv
<1> QED
  BY <1>1, CacheInvInit, TypeCorrect, PTL DEF Spec

\* No interleaving of a slow generation with invalidations, retries and reconnects
\* leaves a schema in the cache that is older than the last invalidation of its key.
THEOREM FreshCacheAlways == Spec => []FreshCache
<1>1. CacheInv => FreshCache
  BY DEF CacheInv, Ordered, FreshCache
<1> QED
  BY <1>1, CacheInvAlways, PTL

\* A request is never answered from a version that was invalidated before it arrived.
THEOREM FreshAnswerAlways == Spec => []FreshAnswer
<1>1. CacheInv => FreshAnswer
  BY DEF CacheInv, AnsweredInTime, FreshAnswer
<1> QED
  BY <1>1, CacheInvAlways, PTL

\* An entry in progress has a request that completes or removes it, except where an
\* access raised before the try block or in the except block of create_schema.
THEOREM ProgressHasGeneratorAlways == Spec => []ProgressHasGenerator
<1>1. CacheInv => ProgressHasGenerator
  BY DEF CacheInv
<1> QED
  BY <1>1, CacheInvAlways, PTL

-----------------------------------------------------------------------------
(* Refinement                                                              *)

LEMMA ReadsInit == Init => Reads!Init
BY CacheAssumption DEF Init, Reads!Init, Status

\* Every step is a step of SchemaReads or leaves its variables alone.
LEMMA ReadsStep == TypeOK /\ CacheInv /\ CacheInv' /\ [Next]_vars => [Reads!Next]_Reads!vars
<1> SUFFICES ASSUME TypeOK, CacheInv, CacheInv', [Next]_vars
             PROVE  [Reads!Next]_Reads!vars
  OBVIOUS
<1> DEFINE readStatus == [r \in Requests |-> Status(r)]
           readAnswer == [r \in Requests |-> IF pc[r] = "answered" THEN answer[r] ELSE None]
<1> USE CacheAssumption DEF TypeOK, RequestPCs, Source, Fixed, Others, Ended, Status
<1>1. ASSUME NEW r \in Requests, Arrive(r) PROVE Reads!Arrive(r)
  BY <1>1 DEF Arrive, Goto, Reads!Arrive
<1>2. ASSUME NEW r \in Requests, ConnectionError(r) PROVE Reads!Fail(r)
  BY <1>2 DEF ConnectionError, Goto, Reads!Fail
<1>3. ASSUME NEW r \in Requests, GetSchema(r)
      PROVE  Reads!Answer(r) \/ UNCHANGED Reads!vars
  <2>1. CASE Ready(key[r]) /\ AnswerFrom(r, cache[key[r]].schema) /\ Goto(r, "answered")
    <3>1. cache[key[r]].schema \in asked[r] .. content
      BY <1>3, <2>1 DEF GetSchema, CacheInv, Ordered, AskedBefore, Ready, Versions, Entry
    <3>2. readAnswer' = [readAnswer EXCEPT ![r] = cache[key[r]].schema]
      BY <1>3, <2>1 DEF GetSchema, AnswerFrom, Goto
    <3>3. readStatus[r] = "busy" /\ readStatus' = [readStatus EXCEPT ![r] = "answered"]
      BY <1>3, <2>1 DEF GetSchema, AnswerFrom, Goto
    <3>4. UNCHANGED <<content, clearedAt, asked>>
      BY <1>3 DEF GetSchema
    <3> QED
      BY <3>1, <3>2, <3>3, <3>4 DEF Reads!Answer
  <2>2. CASE pc' = [pc EXCEPT ![r] = "wait_enter"] /\ UNCHANGED answer
    BY <1>3, <2>2 DEF GetSchema, Reads!vars
  <2>3. CASE pc' = [pc EXCEPT ![r] = "begin"] /\ UNCHANGED answer
    BY <1>3, <2>3 DEF GetSchema, Reads!vars
  <2> QED
    BY <1>3, <2>1, <2>2, <2>3 DEF GetSchema, Goto
<1>4. ASSUME NEW r \in Requests, FindAfterWait(r)
      PROVE  Reads!Answer(r) \/ UNCHANGED Reads!vars
  <2>1. CASE Ready(key[r]) /\ AnswerFrom(r, cache[key[r]].schema) /\ Goto(r, "answered")
    <3>1. cache[key[r]].schema \in asked[r] .. content
      BY <1>4, <2>1 DEF FindAfterWait, CacheInv, Ordered, AskedBefore, Ready, Versions, Entry
    <3>2. readAnswer' = [readAnswer EXCEPT ![r] = cache[key[r]].schema]
      BY <1>4, <2>1 DEF FindAfterWait, AnswerFrom, Goto
    <3>3. readStatus[r] = "busy" /\ readStatus' = [readStatus EXCEPT ![r] = "answered"]
      BY <1>4, <2>1 DEF FindAfterWait, AnswerFrom, Goto
    <3>4. UNCHANGED <<content, clearedAt, asked>>
      BY <1>4 DEF FindAfterWait
    <3> QED
      BY <3>1, <3>2, <3>3, <3>4 DEF Reads!Answer
  <2>2. CASE pc' = [pc EXCEPT ![r] = "retry"] /\ UNCHANGED answer
    BY <1>4, <2>2 DEF FindAfterWait, Reads!vars
  <2> QED
    BY <1>4, <2>1, <2>2 DEF FindAfterWait, Goto
<1>5. ASSUME NEW r \in Requests, Notify(r)
      PROVE  Reads!Answer(r) \/ Reads!Fail(r)
  <2>1. UNCHANGED <<content, clearedAt, asked, answer>> /\ readStatus[r] = "busy"
    BY <1>5 DEF Notify
  <2>2. CASE answer[r] = None
    <3>1. UNCHANGED readAnswer
      BY <1>5, <2>2 DEF Notify
    <3>2. readStatus' = [readStatus EXCEPT ![r] = "failed"]
      BY <1>5, <2>2 DEF Notify
    <3> QED
      BY <2>1, <3>1, <3>2 DEF Reads!Fail
  <2>3. CASE answer[r] # None
    <3>1. answer[r] \in asked[r] .. content
      BY <2>3 DEF CacheInv, AnsweredInTime, Versions
    <3>2. readAnswer' = [readAnswer EXCEPT ![r] = answer[r]]
      BY <1>5, <2>3 DEF Notify
    <3>3. readStatus' = [readStatus EXCEPT ![r] = "answered"]
      BY <1>5, <2>3 DEF Notify
    <3> QED
      BY <2>1, <3>1, <3>2, <3>3 DEF Reads!Answer
  <2> QED
    BY <2>2, <2>3
<1>6. ASSUME NEW r \in Requests, EnterWait(r) PROVE UNCHANGED Reads!vars
  BY <1>6 DEF EnterWait, Goto, CacheInv, AnsweredInTime, Reads!vars
<1>7. ASSUME NEW r \in Requests, WaitTimeout(r) PROVE UNCHANGED Reads!vars
  BY <1>7 DEF WaitTimeout, Goto, CacheInv, AnsweredInTime, Reads!vars
<1>8. ASSUME NEW r \in Requests, Retry(r) PROVE UNCHANGED Reads!vars
  BY <1>8 DEF Retry, Goto, PutNew, CacheInv, AnsweredInTime, Reads!vars
<1>9. ASSUME NEW r \in Requests, BeginGeneration(r) PROVE UNCHANGED Reads!vars
  BY <1>9 DEF BeginGeneration, Goto, CacheInv, AnsweredInTime, Reads!vars
<1>10. ASSUME NEW r \in Requests, Generate(r) PROVE UNCHANGED Reads!vars
  BY <1>10 DEF Generate, Goto, CacheInv, AnsweredInTime, Reads!vars
<1>11. ASSUME NEW r \in Requests, GenerationFails(r) PROVE UNCHANGED Reads!vars
  BY <1>11 DEF GenerationFails, Goto, CacheInv, AnsweredInTime, Reads!vars
<1>12. ASSUME NEW r \in Requests, Store(r) PROVE UNCHANGED Reads!vars
  BY <1>12 DEF Store, Goto, AnswerFrom, OwnsEntry, CacheInv, AnsweredInTime, Reads!vars
<1>13. ASSUME NEW r \in Requests, Cleanup(r) PROVE UNCHANGED Reads!vars
  BY <1>13 DEF Cleanup, Goto, OwnsEntry, CacheInv, AnsweredInTime, Reads!vars
<1>14. ASSUME NEW w \in Writers, Apply(w) PROVE Reads!Change
  BY <1>14 DEF Apply, Reads!Change
<1>15. ASSUME NEW w \in Writers, Invalidate(w)
      PROVE  Reads!Invalidate \/ UNCHANGED Reads!vars
  BY <1>15 DEF Invalidate, Clear, KeysOf, Scopes, Reads!Invalidate, Reads!vars
<1>16. CASE ReleaseCheck
  BY <1>16 DEF ReleaseCheck, Reads!vars
<1>17. CASE ReleaseClear
  BY <1>17 DEF ReleaseClear, Clear, Reads!Invalidate, Reads!Next
<1>18. CASE Disconnect
  BY <1>18 DEF Disconnect, Reads!vars
<1>19. CASE Connect
  BY <1>19 DEF Connect, Reads!Renew, Reads!Next
<1>20. CASE UNCHANGED vars
  BY <1>20 DEF vars, Reads!vars
<1> QED
  BY <1>1, <1>2, <1>3, <1>4, <1>5, <1>6, <1>7, <1>8, <1>9, <1>10,
     <1>11, <1>12, <1>13, <1>14, <1>15, <1>16, <1>17, <1>18, <1>19, <1>20
  DEF Next, RequestStep, Reads!Next

\* The cache with its locks, waiters, generators and invalidations gives every reader
\* what SchemaReads promises.
THEOREM ImplementsReadsAlways == Spec => ImplementsReads
<1> QED
  BY ReadsInit, ReadsStep, TypeCorrect, CacheInvAlways, PTL DEF Spec, ImplementsReads, Reads!Spec

=============================================================================
