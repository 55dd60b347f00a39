-------------------------- MODULE AzdSecInfo_proofs -------------------------
(* The properties of AzdSecInfo, for every set of requests, pod specs and  *)
(* replicas and every threshold: safety, the contract, liveness, and then  *)
(* the budget of AzdSecInfoBudget and the reset of its count.              *)
EXTENDS AzdSecInfoBudget, FiniteSetTheorems, TLAPS

\* What the worker, its channel and the setter say about each other: a handler
\* that has not reached the select has no worker; a worker has a result, and a
\* setter, exactly once it has computed; the channel holds that result.
GoroutineInv ==
  \A r \in Requests :
    /\ pc[r] \in {"idle", "lookup"} => worker[r] = "none"
    /\ worker[r] \in {"none", "running"} => result[r] = "none" /\ setter[r] = "none"
    /\ worker[r] = "sending" => result[r] \in Outcomes
    /\ setter[r] = "set" => result[r] \in Outcomes
    /\ buffer[r] \in Outcomes => buffer[r] = result[r]

LEMMA InvInit == Init => TypeOK /\ GoroutineInv /\ ChannelDiscipline
  BY ConstantsAssumption
  DEF Init, TypeOK, GoroutineInv, ChannelDiscipline, Active, Responses, Outcomes

\* The three are inductive together: a result is stored only after it has been
\* computed, and it is sent only into a channel that is empty and open.
LEMMA InvNext ==
  TypeOK /\ GoroutineInv /\ ChannelDiscipline /\ [Next]_vars
    => TypeOK' /\ GoroutineInv' /\ ChannelDiscipline'
<1> SUFFICES ASSUME TypeOK, GoroutineInv, ChannelDiscipline, [Next]_vars
             PROVE  TypeOK' /\ GoroutineInv' /\ ChannelDiscipline'
  OBVIOUS
<1> USE ConstantsAssumption DEF TypeOK, GoroutineInv, ChannelDiscipline,
        Active, Responses, Outcomes, handler, channel, redis
<1>1. ASSUME NEW r \in Requests, Arrive(r)
      PROVE  TypeOK' /\ GoroutineInv' /\ ChannelDiscipline'
  BY <1>1 DEF Arrive, GoTo
<1>2. ASSUME NEW r \in Requests, LookupHit(r)
      PROVE  TypeOK' /\ GoroutineInv' /\ ChannelDiscipline'
  BY <1>2 DEF LookupHit, AnswerStored, Answer, GoTo
<1>3. ASSUME NEW r \in Requests, LookupMiss(r)
      PROVE  TypeOK' /\ GoroutineInv' /\ ChannelDiscipline'
  BY <1>3 DEF LookupMiss, GoTo
<1>4. ASSUME NEW r \in Requests, ReceiveResult(r)
      PROVE  TypeOK' /\ GoroutineInv' /\ ChannelDiscipline'
  <2>1. worker[r] \in {"finished", "lost"}
    BY <1>4 DEF ReceiveResult
  <2>2. CASE buffer[r] = "infos"
    <3>1. TypeOK'
      BY <1>4, <2>2 DEF ReceiveResult, Extracted, Answer, GoTo
    <3>2. GoroutineInv' /\ ChannelDiscipline'
      BY <1>4, <2>1, <2>2 DEF ReceiveResult, Extracted, Answer, GoTo
    <3>3. QED
      BY <3>1, <3>2
  <2>3. CASE buffer[r] = "error"
    BY <1>4, <2>1, <2>3 DEF ReceiveResult, Extracted, Answer, GoTo
  <2>4. QED
    BY <1>4, <2>2, <2>3 DEF ReceiveResult
<1>5. ASSUME NEW r \in Requests, Timeout(r)
      PROVE  TypeOK' /\ GoroutineInv' /\ ChannelDiscipline'
  BY <1>5 DEF Timeout, GoTo
<1>6. ASSUME NEW r \in Requests, GetTimeOutStatus(r)
      PROVE  TypeOK' /\ GoroutineInv' /\ ChannelDiscipline'
  <2>1. TimeOutStatus(KeyOf[r]) + 1 \in Nat
    BY DEF TimeOutStatus
  <2>2. QED
    BY <1>6, <2>1 DEF GetTimeOutStatus, Answer, GoTo
<1>7. ASSUME NEW r \in Requests, SetTimeOutStatus(r)
      PROVE  TypeOK' /\ GoroutineInv' /\ ChannelDiscipline'
  BY <1>7 DEF SetTimeOutStatus, Answer, GoTo
<1>8. ASSUME NEW r \in Requests, TimeOutStatusFails(r)
      PROVE  TypeOK' /\ GoroutineInv' /\ ChannelDiscipline'
  BY <1>8 DEF TimeOutStatusFails, Answer, GoTo
<1>9. ASSUME NEW r \in Requests, Compute(r)
      PROVE  TypeOK' /\ GoroutineInv' /\ ChannelDiscipline'
  BY <1>9 DEF Compute
<1>10. ASSUME NEW r \in Requests, SendResult(r)
       PROVE  TypeOK' /\ GoroutineInv' /\ ChannelDiscipline'
  BY <1>10 DEF SendResult
<1>11. ASSUME NEW r \in Requests, StoreResult(r)
       PROVE  TypeOK' /\ GoroutineInv' /\ ChannelDiscipline'
  BY <1>11 DEF StoreResult
<1>12. ASSUME NEW r \in Requests, ResetGet(r)
       PROVE  TypeOK' /\ GoroutineInv' /\ ChannelDiscipline'
  BY <1>12 DEF ResetGet
<1>13. ASSUME NEW r \in Requests, ResetSet(r)
       PROVE  TypeOK' /\ GoroutineInv' /\ ChannelDiscipline'
  BY <1>13 DEF ResetSet
<1>14. ASSUME NEW r \in Requests, SetTimeOutStatusAgain(r)
       PROVE  TypeOK' /\ GoroutineInv' /\ ChannelDiscipline'
  BY <1>14 DEF SetTimeOutStatusAgain
<1>15. ASSUME NEW r \in Requests, StoreResultAgain(r)
       PROVE  TypeOK' /\ GoroutineInv' /\ ChannelDiscipline'
  BY <1>15 DEF StoreResultAgain
<1>16. ASSUME NEW r \in Requests, ResetSetAgain(r)
       PROVE  TypeOK' /\ GoroutineInv' /\ ChannelDiscipline'
  BY <1>16 DEF ResetSetAgain
<1>17. ASSUME NEW k \in Keys, ExpireScan(k) \/ ExpireStatus(k)
       PROVE  TypeOK' /\ GoroutineInv' /\ ChannelDiscipline'
  BY <1>17 DEF ExpireScan, ExpireStatus
<1>18. ASSUME NEW p \in Replicas, Crash(p)
       PROVE  TypeOK' /\ GoroutineInv' /\ ChannelDiscipline'
  BY <1>18 DEF Crash
<1>19. CASE Quiescent \/ UNCHANGED vars
  BY <1>19 DEF Quiescent, vars
<1>20. QED
  BY <1>1, <1>2, <1>3, <1>4, <1>5, <1>6, <1>7, <1>8, <1>9, <1>10, <1>11, <1>12, <1>13, <1>14, <1>15, <1>16, <1>17, <1>18, <1>19
  DEF Next, HandlerStep, GoroutineStep, RetryStep

LEMMA Invariance == Spec => [](TypeOK /\ GoroutineInv /\ ChannelDiscipline)
  BY InvInit, InvNext, PTL DEF Spec

\* The state of every variable stays in its type: in particular a handler
\* never returns what it took from its channel without telling an error from
\* results, and nothing but a computed outcome gets into redis.
THEOREM TypeCorrect == Spec => []TypeOK
  BY Invariance, PTL

\* No worker ever finds its channel closed or full when it is about to send.
THEOREM SendsAreSafe == Spec => []ChannelDiscipline
  BY Invariance, PTL

-----------------------------------------------------------------------------
\* No count of timeouts, in redis or about to be written there, ever reaches
\* the threshold, so the equality test that ends the blocking cannot be missed.
THEOREM StatusStaysBelowThreshold == Spec => []StatusBelowThreshold
<1> USE ConstantsAssumption
<1>1. Init => StatusBelowThreshold
  BY DEF Init, StatusBelowThreshold
<1>2. TypeOK /\ StatusBelowThreshold /\ [Next]_vars => StatusBelowThreshold'
  <2> SUFFICES ASSUME TypeOK, StatusBelowThreshold, [Next]_vars
               PROVE  StatusBelowThreshold'
    OBVIOUS
  <2> USE DEF TypeOK, StatusBelowThreshold, Active, handler, channel, redis
  <2>1. ASSUME NEW r \in Requests, GetTimeOutStatus(r)
        PROVE  StatusBelowThreshold'
    <3>1. TimeOutStatus(KeyOf[r]) \in 0 .. Threshold - 1
      BY DEF TimeOutStatus
    <3>2. QED
      BY <2>1, <3>1 DEF GetTimeOutStatus, Answer, GoTo
  <2>2. ASSUME NEW r \in Requests, SetTimeOutStatus(r)
        PROVE  StatusBelowThreshold'
    BY <2>2 DEF SetTimeOutStatus, Answer, GoTo
  <2>3. ASSUME NEW r \in Requests,
               \/ Arrive(r)
               \/ LookupHit(r)
               \/ LookupMiss(r)
               \/ ReceiveResult(r)
               \/ Timeout(r)
               \/ TimeOutStatusFails(r)
        PROVE  StatusBelowThreshold'
    BY <2>3 DEF Arrive, LookupHit, LookupMiss, ReceiveResult, Timeout,
                TimeOutStatusFails, Answer, GoTo
  <2>4. ASSUME NEW r \in Requests,
               \/ Compute(r)
               \/ GoroutineStep(r)
               \/ RetryStep(r)
        PROVE  StatusBelowThreshold'
    BY <2>4 DEF Compute, GoroutineStep, SendResult, StoreResult, ResetGet,
                ResetSet, RetryStep, SetTimeOutStatusAgain, StoreResultAgain,
                ResetSetAgain
  <2>5. ASSUME NEW k \in Keys, ExpireScan(k) \/ ExpireStatus(k)
        PROVE  StatusBelowThreshold'
    BY <2>5 DEF ExpireScan, ExpireStatus
  <2>6. ASSUME NEW p \in Replicas, Crash(p)
        PROVE  StatusBelowThreshold'
    BY <2>6 DEF Crash
  <2>7. CASE Quiescent \/ UNCHANGED vars
    BY <2>7 DEF Quiescent, vars
  <2>8. QED
    BY <2>1, <2>2, <2>3, <2>4, <2>5, <2>6, <2>7 DEF Next, HandlerStep
<1>3. QED
  BY <1>1, <1>2, TypeCorrect, PTL DEF Spec

-----------------------------------------------------------------------------
\* What redis holds for a pod spec was computed for that pod spec.
StoredAreComputed ==
  \A k \in Keys : scan[k] \in Outcomes =>
    \E q \in Requests : KeyOf[q] = k /\ result[q] = scan[k]

\* A computed outcome never changes: the witnesses of the two invariants stay.
LEMMA OutcomesAreStable ==
  ASSUME TypeOK, GoroutineInv, [Next]_vars,
         NEW q \in Requests, result[q] \in Outcomes
  PROVE  result'[q] = result[q]
<1> USE DEF TypeOK, GoroutineInv, Outcomes, handler, channel, redis
<1>1. ASSUME NEW r \in Requests, Compute(r)
      PROVE  result'[q] = result[q]
  BY <1>1 DEF Compute
<1>2. ASSUME NEW r \in Requests, Arrive(r) \/ HandlerStep(r)
      PROVE  result'[q] = result[q]
  BY <1>2 DEF Arrive, HandlerStep, LookupHit, LookupMiss, ReceiveResult,
              Timeout, GetTimeOutStatus, SetTimeOutStatus, TimeOutStatusFails
<1>3. ASSUME NEW r \in Requests, GoroutineStep(r) \/ RetryStep(r)
      PROVE  result'[q] = result[q]
  BY <1>3 DEF GoroutineStep, SendResult, StoreResult, ResetGet, ResetSet,
              RetryStep, SetTimeOutStatusAgain, StoreResultAgain, ResetSetAgain
<1>4. ASSUME NEW k \in Keys, ExpireScan(k) \/ ExpireStatus(k)
      PROVE  result'[q] = result[q]
  BY <1>4 DEF ExpireScan, ExpireStatus
<1>5. ASSUME NEW p \in Replicas, Crash(p)
      PROVE  result'[q] = result[q]
  BY <1>5 DEF Crash
<1>6. CASE Quiescent \/ UNCHANGED vars
  BY <1>6 DEF Quiescent, vars
<1>7. QED
  BY <1>1, <1>2, <1>3, <1>4, <1>5, <1>6 DEF Next

LEMMA OutcomesAreTraced == Spec => [](StoredAreComputed /\ AnswersAreComputed)
<1> USE ConstantsAssumption
<1> DEFINE Inv == TypeOK /\ GoroutineInv /\ ChannelDiscipline
           Traced == StoredAreComputed /\ AnswersAreComputed
<1>1. Init => Traced
  BY DEF Init, StoredAreComputed, AnswersAreComputed, Outcomes
<1>2. Inv /\ Traced /\ [Next]_vars => Traced'
  <2> SUFFICES ASSUME Inv, Traced, [Next]_vars
               PROVE  Traced'
    OBVIOUS
  <2>1. \A q \in Requests : result[q] \in Outcomes => result'[q] = result[q]
    BY OutcomesAreStable
  <2> USE DEF TypeOK, GoroutineInv, StoredAreComputed, AnswersAreComputed,
              Outcomes, handler, channel, redis
  <2>2. ASSUME NEW r \in Requests, LookupHit(r)
        PROVE  Traced'
    BY <2>1, <2>2 DEF LookupHit, AnswerStored, Answer, GoTo
  <2>3. ASSUME NEW r \in Requests, ReceiveResult(r)
        PROVE  Traced'
    BY <2>1, <2>3 DEF ReceiveResult, Extracted, Answer, GoTo
  <2>4. ASSUME NEW r \in Requests, StoreResult(r) \/ StoreResultAgain(r)
        PROVE  Traced'
    BY <2>1, <2>4 DEF StoreResult, StoreResultAgain
  <2>5. ASSUME NEW r \in Requests,
               \/ GetTimeOutStatus(r)
               \/ SetTimeOutStatus(r)
               \/ TimeOutStatusFails(r)
        PROVE  Traced'
    BY <2>1, <2>5 DEF GetTimeOutStatus, SetTimeOutStatus, TimeOutStatusFails,
                      Answer, GoTo
  <2>6. ASSUME NEW r \in Requests,
               \/ Arrive(r)
               \/ LookupMiss(r)
               \/ Timeout(r)
               \/ SendResult(r)
        PROVE  Traced'
    BY <2>1, <2>6 DEF Arrive, LookupMiss, Timeout, SendResult
  <2>7. ASSUME NEW r \in Requests,
               \/ Compute(r)
               \/ ResetGet(r)
               \/ ResetSet(r)
               \/ SetTimeOutStatusAgain(r)
               \/ ResetSetAgain(r)
        PROVE  Traced'
    BY <2>1, <2>7 DEF Compute, ResetGet, ResetSet, SetTimeOutStatusAgain,
                      ResetSetAgain
  <2>8. ASSUME NEW k \in Keys, ExpireScan(k) \/ ExpireStatus(k)
        PROVE  Traced'
    BY <2>1, <2>8 DEF ExpireScan, ExpireStatus
  <2>9. ASSUME NEW p \in Replicas, Crash(p)
        PROVE  Traced'
    BY <2>1, <2>9 DEF Crash
  <2>10. CASE Quiescent \/ UNCHANGED vars
    BY <2>1, <2>10 DEF Quiescent, vars
  <2>11. QED
    BY <2>2, <2>3, <2>4, <2>5, <2>6, <2>7, <2>8, <2>9, <2>10
    DEF Next, HandlerStep, GoroutineStep, RetryStep
<1>3. QED
  BY <1>1, <1>2, Invariance, PTL DEF Spec

\* Results and errors are never invented, mixed up, or taken from another pod
\* spec on their way through the channel or redis.
THEOREM AnswersComputed == Spec => []AnswersAreComputed
  BY OutcomesAreTraced, PTL

\* The only step that makes a request block is the write of its count.
LEMMA OnlyCountedTimeoutsBlock ==
  ASSUME TypeOK, [Next]_vars, NEW q \in Requests,
         response[q] # "unscanned", response'[q] = "unscanned"
  PROVE  SetTimeOutStatus(q)
<1> USE ConstantsAssumption DEF TypeOK, handler, channel, redis
<1>1. ASSUME NEW r \in Requests, SetTimeOutStatus(r)
      PROVE  r = q
  BY <1>1 DEF SetTimeOutStatus, Answer
<1>2. ASSUME NEW r \in Requests, Arrive(r) \/ HandlerStep(r),
             ~SetTimeOutStatus(r)
      PROVE  FALSE
  BY <1>2 DEF Arrive, HandlerStep, LookupHit, AnswerStored, LookupMiss,
              ReceiveResult, Extracted, Timeout, GetTimeOutStatus,
              TimeOutStatusFails, Answer
<1>3. ASSUME NEW r \in Requests,
             Compute(r) \/ GoroutineStep(r) \/ RetryStep(r)
      PROVE  FALSE
  BY <1>3 DEF Compute, GoroutineStep, SendResult, StoreResult, ResetGet,
              ResetSet, RetryStep, SetTimeOutStatusAgain, StoreResultAgain,
              ResetSetAgain
<1>4. ~(\E k \in Keys : ExpireScan(k) \/ ExpireStatus(k))
  BY DEF ExpireScan, ExpireStatus
<1>5. ~(\E p \in Replicas : Crash(p))
  BY DEF Crash
<1>6. ~(Quiescent \/ UNCHANGED vars)
  BY DEF Quiescent, vars
<1>7. PICK r \in Requests : Arrive(r) \/ HandlerStep(r)
  BY <1>3, <1>4, <1>5, <1>6 DEF Next
<1>8. QED
  BY <1>1, <1>2, <1>7

\* A timeout blocks only once redis has recorded it.
THEOREM BlocksAreRecorded == Spec => BlockIsRecorded
<1>1. TypeOK /\ StatusBelowThreshold /\ [Next]_vars =>
        [\A r \in Requests :
           response[r] # "unscanned" /\ response'[r] = "unscanned" =>
             status'[KeyOf[r]] \in 1 .. Threshold - 1]_vars
  <2> SUFFICES ASSUME TypeOK, StatusBelowThreshold, [Next]_vars,
                      NEW r \in Requests,
                      response[r] # "unscanned", response'[r] = "unscanned"
               PROVE  status'[KeyOf[r]] \in 1 .. Threshold - 1
    OBVIOUS
  <2>1. SetTimeOutStatus(r)
    BY OnlyCountedTimeoutsBlock
  <2>2. QED
    BY <2>1, ConstantsAssumption
    DEF SetTimeOutStatus, StatusBelowThreshold, TypeOK
<1>2. QED
  BY <1>1, TypeCorrect, StatusStaysBelowThreshold, PTL
  DEF Spec, BlockIsRecorded

-----------------------------------------------------------------------------
(* The provider implements RequestContract: a handler's step is the step   *)
(* of its request, the end of a worker's scan is Find, and what goroutines *)
(* and redis do beside is a new count or nothing at all.                   *)

Phase == [r \in Requests |-> PhaseOf(r)]
Found == [k \in Keys |-> FoundOf(k)]
Count == [k \in Keys |-> TimeOutStatus(k)]

LEMMA PhaseSteps ==
  ASSUME TypeOK, NEW r \in Requests, NEW label, pc' = [pc EXCEPT ![r] = label]
  PROVE  /\ label \in Active => Phase' = [Phase EXCEPT ![r] = "asked"]
         /\ label = "done" => Phase' = [Phase EXCEPT ![r] = "answered"]
BY DEF TypeOK, Phase, PhaseOf, Active

LEMMA AskedIsActive ==
  ASSUME TypeOK, NEW r \in Requests
  PROVE  /\ Phase[r] = "asked" <=> pc[r] \in Active
         /\ Phase[r] = "idle" <=> pc[r] = "idle"
BY DEF TypeOK, Phase, PhaseOf, Active

\* A step within a request's time in the handler is none of the contract's.
LEMMA HandlingStays ==
  ASSUME TypeOK, NEW r \in Requests, pc[r] \in Active,
         NEW label \in Active, pc' = [pc EXCEPT ![r] = label]
  PROVE  Phase' = Phase
BY DEF TypeOK, Phase, PhaseOf, Active

LEMMA ContractAnswers ==
  ASSUME TypeOK, NEW r \in Requests, pc[r] \in Active, NEW a, Answer(r, a)
  PROVE  Contract!Answer(r, a)
BY PhaseSteps, AskedIsActive DEF Answer, GoTo, Contract!Answer, Phase

LEMMA SameFound == ASSUME result' = result PROVE Found' = Found
BY DEF Found, FoundOf

LEMMA SameCount == ASSUME status' = status PROVE Count' = Count
BY DEF Count, TimeOutStatus

LEMMA SamePhase == ASSUME pc' = pc PROVE Phase' = Phase
BY DEF Phase, PhaseOf

LEMMA CountStays ==
  ASSUME TypeOK, StatusBelowThreshold, NEW k \in Keys
  PROVE  Count[k] \in 0 .. Threshold - 1
BY ConstantsAssumption DEF TypeOK, StatusBelowThreshold, Count, TimeOutStatus

\* A write of redis changes the count of one pod spec.
LEMMA CountSteps ==
  ASSUME TypeOK, NEW k \in Keys, NEW n \in Nat \cup {Missing},
         status' = [status EXCEPT ![k] = n]
  PROVE  Count' = [Count EXCEPT ![k] = IF n = Missing THEN 0 ELSE n]
BY DEF TypeOK, Count, TimeOutStatus

LEMMA ContractInit == Init => Contract!Init
<1> SUFFICES ASSUME Init PROVE Contract!Init
  OBVIOUS
<1>1. \A r \in Requests : PhaseOf(r) = "idle"
  BY DEF Init, PhaseOf, Active
<1>2. \A k \in Keys : FoundOf(k) = {}
  BY DEF Init, FoundOf, Outcomes
<1>3. \A k \in Keys : TimeOutStatus(k) = 0
  BY DEF Init, TimeOutStatus
<1>4. QED
  BY <1>1, <1>2, <1>3 DEF Init, Contract!Init

LEMMA ContractNext ==
  ASSUME TypeOK, GoroutineInv, StatusBelowThreshold, StoredAreComputed,
         [Next]_vars, StatusBelowThreshold', TypeOK'
  PROVE  [Contract!Next]_(Contract!vars)
<1> USE ConstantsAssumption DEF handler, channel, redis
<1> DEFINE Goal == [Contract!Next]_(Contract!vars)
<1>0. ASSUME Phase' = Phase, response' = response, Found' = Found, Count' = Count
      PROVE  Goal
  BY <1>0 DEF Contract!vars, Phase, Found, Count
<1>1. ASSUME NEW r \in Requests, Arrive(r)
      PROVE  Goal
  <2>1. Contract!Ask(r)
    BY <1>1, PhaseSteps, AskedIsActive, SameFound, SameCount
    DEF Arrive, GoTo, Active, Contract!Ask, Phase, Found, Count
  <2>2. QED BY <2>1 DEF Contract!Next
<1>2. ASSUME NEW r \in Requests, LookupHit(r)
      PROVE  Goal
  <2>1. Contract!Answer(r, AnswerStored(scan[KeyOf[r]]))
    BY <1>2, ContractAnswers DEF LookupHit, Active
  <2>2. scan[KeyOf[r]] \in Found[KeyOf[r]] /\ scan[KeyOf[r]] \in Outcomes
    BY <1>2 DEF LookupHit, TypeOK, StoredAreComputed, Found, FoundOf
  <2>3. Found' = Found /\ Count' = Count
    BY <1>2, SameFound, SameCount DEF LookupHit
  <2>4. Contract!AnswerFound(r)
    BY <2>1, <2>2, <2>3 DEF Contract!AnswerFound, AnswerStored, Outcomes, Found, Count
  <2>5. QED BY <2>4 DEF Contract!Next
<1>3. ASSUME NEW r \in Requests, LookupMiss(r) \/ Timeout(r)
      PROVE  Goal
  <2>1. Phase' = Phase
    BY <1>3, HandlingStays DEF LookupMiss, Timeout, GoTo, Active
  <2>2. Found' = Found /\ Count' = Count /\ response' = response
    BY <1>3, SameFound, SameCount DEF LookupMiss, Timeout
  <2>3. QED BY <1>0, <2>1, <2>2
<1>4. ASSUME NEW r \in Requests, ReceiveResult(r)
      PROVE  Goal
  <2>1. Contract!Answer(r, Extracted(buffer[r]))
    BY <1>4, ContractAnswers DEF ReceiveResult, Active
  <2>2. buffer[r] \in Found[KeyOf[r]] /\ buffer[r] \in Outcomes
    BY <1>4 DEF ReceiveResult, GoroutineInv, Found, FoundOf
  <2>3. Found' = Found /\ Count' = Count
    BY <1>4, SameFound, SameCount DEF ReceiveResult
  <2>4. Contract!AnswerFound(r)
    BY <2>1, <2>2, <2>3 DEF Contract!AnswerFound, Extracted, Outcomes, Found, Count
  <2>5. QED BY <2>4 DEF Contract!Next
<1>5. ASSUME NEW r \in Requests, GetTimeOutStatus(r)
      PROVE  Goal
  <2>1. Found' = Found /\ Count' = Count
    BY <1>5, SameFound, SameCount DEF GetTimeOutStatus
  <2>2. CASE TimeOutStatus(KeyOf[r]) + 1 = Threshold
    <3>1. Answer(r, "timeoutError") /\ pc[r] \in Active
      BY <1>5, <2>2 DEF GetTimeOutStatus, Active
    <3>2. TimeOutStatus(KeyOf[r]) = Threshold - 1
      BY <2>2, CountStays DEF Count
    <3>3. Contract!Answer(r, "timeoutError")
      BY <3>1, ContractAnswers
    <3>4. Contract!GiveUp(r)
      BY <2>1, <3>2, <3>3 DEF Contract!GiveUp, Found, Count
    <3>5. QED BY <3>4 DEF Contract!Next
  <2>3. CASE TimeOutStatus(KeyOf[r]) + 1 # Threshold
    <3>1. Phase' = Phase /\ response' = response
      BY <1>5, <2>3, HandlingStays DEF GetTimeOutStatus, GoTo, Active
    <3>2. QED BY <1>0, <2>1, <3>1
  <2>4. QED BY <2>2, <2>3
<1>6. ASSUME NEW r \in Requests, SetTimeOutStatus(r)
      PROVE  Goal
  <2>1. Contract!Answer(r, "unscanned")
    BY <1>6, ContractAnswers DEF SetTimeOutStatus, Active
  <2>2. timeouts[r] \in 1 .. Threshold - 1
    BY <1>6 DEF SetTimeOutStatus, StatusBelowThreshold
  <2>3. Count' = [Count EXCEPT ![KeyOf[r]] = timeouts[r]]
    <3>1. KeyOf[r] \in Keys /\ timeouts[r] \in Nat /\ timeouts[r] # Missing
      BY <2>2
    <3>2. status' = [status EXCEPT ![KeyOf[r]] = timeouts[r]]
      BY <1>6 DEF SetTimeOutStatus
    <3>3. QED BY <3>1, <3>2, CountSteps
  <2>4. Found' = Found
    BY <1>6, SameFound DEF SetTimeOutStatus
  <2>5. Contract!Block(r)
    BY <2>1, <2>2, <2>3, <2>4 DEF Contract!Block, Found, Count
  <2>6. QED BY <2>5 DEF Contract!Next
<1>7. ASSUME NEW r \in Requests, TimeOutStatusFails(r)
      PROVE  Goal
  <2>1. Contract!Answer(r, "cacheError")
    BY <1>7, ContractAnswers DEF TimeOutStatusFails, Active
  <2>2. Found' = Found /\ Count' = Count
    BY <1>7, SameFound, SameCount DEF TimeOutStatusFails
  <2>3. Contract!Fail(r)
    BY <2>1, <2>2 DEF Contract!Fail, Found, Count
  <2>4. QED BY <2>3 DEF Contract!Next
<1>8. ASSUME NEW r \in Requests, Compute(r)
      PROVE  Goal
  <2>1. pc[r] # "idle"
    BY <1>8 DEF Compute, GoroutineInv
  <2>2. PICK o \in Outcomes : result' = [result EXCEPT ![r] = o]
    BY <1>8 DEF Compute
  <2>3. result[r] = "none"
    BY <1>8 DEF Compute, GoroutineInv
  <2>4. Found' = [Found EXCEPT ![KeyOf[r]] = @ \cup {o}]
    <3>1. result'[r] = o /\ \A q \in Requests : q # r => result'[q] = result[q]
      BY <2>2 DEF TypeOK
    <3>2. ASSUME NEW k \in Keys, k # KeyOf[r]
          PROVE  FoundOf(k)' = FoundOf(k)
      BY <3>1, <3>2 DEF FoundOf
    <3>3. FoundOf(KeyOf[r])' = FoundOf(KeyOf[r]) \cup {o}
      BY <2>3, <3>1 DEF FoundOf, Outcomes
    <3>4. QED BY <3>2, <3>3 DEF Found
  <2>5. Phase' = Phase /\ Count' = Count /\ response' = response
    BY <1>8, SamePhase, SameCount DEF Compute
  <2>6. Contract!Find(KeyOf[r])
    BY <2>1, <2>4, <2>5, AskedIsActive
    DEF Contract!Find, Outcomes, Phase, Found, Count
  <2>7. QED BY <2>6 DEF Contract!Next
<1>9. ASSUME NEW r \in Requests,
             SendResult(r) \/ StoreResult(r) \/ StoreResultAgain(r) \/ ResetGet(r)
      PROVE  Goal
  BY <1>0, <1>9, SamePhase, SameFound, SameCount
  DEF SendResult, StoreResult, StoreResultAgain, ResetGet
<1>10. ASSUME NEW k \in Keys, NEW n \in Nat \cup {Missing},
              status' = [status EXCEPT ![k] = n],
              UNCHANGED <<pc, response, result>>
       PROVE  Goal
  <2>1. Count' = [Count EXCEPT ![k] = IF n = Missing THEN 0 ELSE n]
    BY <1>10, CountSteps
  <2>2. status'[k] = n
    BY <1>10 DEF TypeOK
  <2>3. (IF n = Missing THEN 0 ELSE n) \in 0 .. Threshold - 1
    <3>1. CASE n = Missing
      BY <3>1
    <3>2. CASE n # Missing
      BY <1>10, <2>2, <3>2 DEF StatusBelowThreshold
    <3>3. QED BY <3>1, <3>2
  <2>4. Contract!Recount(k)
    <3>1. \E m \in 0 .. Threshold - 1 : Count' = [Count EXCEPT ![k] = m]
      BY <2>1, <2>3
    <3>2. Phase' = Phase /\ Found' = Found
      BY <1>10, SamePhase, SameFound
    <3>3. QED BY <1>10, <3>1, <3>2 DEF Contract!Recount, Phase, Found, Count
  <2>5. QED BY <2>4 DEF Contract!Next
<1>11. ASSUME NEW r \in Requests,
              SetTimeOutStatusAgain(r) \/ ResetSet(r) \/ ResetSetAgain(r)
       PROVE  Goal
  <2>1. CASE status' = status
    BY <1>0, <1>11, <2>1, SamePhase, SameFound, SameCount
    DEF SetTimeOutStatusAgain, ResetSet, ResetSetAgain
  <2>2. CASE status' # status
    <3>1. \E n \in Nat : status' = [status EXCEPT ![KeyOf[r]] = n]
      BY <1>11, <2>2 DEF SetTimeOutStatusAgain, ResetSet, ResetSetAgain, TypeOK
    <3>2. QED
      BY <1>10, <1>11, <3>1 DEF SetTimeOutStatusAgain, ResetSet, ResetSetAgain
  <2>3. QED BY <2>1, <2>2
<1>12. ASSUME NEW k \in Keys, ExpireScan(k)
       PROVE  Goal
  BY <1>0, <1>12, SamePhase, SameFound, SameCount DEF ExpireScan
<1>13. ASSUME NEW k \in Keys, ExpireStatus(k)
       PROVE  Goal
  BY <1>10, <1>13 DEF ExpireStatus
<1>14. ASSUME NEW p \in Replicas, Crash(p)
       PROVE  Goal
  <2> DEFINE Dying == {r \in Requests : ReplicaOf[r] = p /\ pc[r] \in Active}
  <2>1. Found' = Found /\ Count' = Count /\ response' = response
    BY <1>14, SameFound, SameCount DEF Crash
  <2>2. pc' = [r \in Requests |-> IF r \in Dying THEN "lost" ELSE pc[r]]
    BY <1>14 DEF Crash
  <2>3. Phase' = [r \in Requests |-> IF r \in Dying THEN "lost" ELSE Phase[r]]
    <3>1. \A r \in Dying : PhaseOf(r)' = "lost"
      BY <2>2 DEF PhaseOf, Active
    <3>2. \A r \in Requests \ Dying : PhaseOf(r)' = PhaseOf(r)
      BY <2>2 DEF PhaseOf
    <3>3. QED BY <3>1, <3>2 DEF Phase
  <2>4. Contract!Lose(Dying)
    BY <2>1, <2>3, AskedIsActive DEF Contract!Lose, Phase, Found, Count
  <2>5. QED BY <2>4 DEF Contract!Next
<1>15. CASE Quiescent \/ UNCHANGED vars
  BY <1>0, <1>15, SamePhase, SameFound, SameCount DEF Quiescent, vars
<1>16. QED
  BY <1>1, <1>2, <1>3, <1>4, <1>5, <1>6, <1>7, <1>8, <1>9, <1>11, <1>12, <1>13, <1>14, <1>15
  DEF Next, HandlerStep, GoroutineStep, RetryStep

\* Any number of replicas, with all their goroutines, failures and crashes, is
\* to the requests the provider of RequestContract.
THEOREM ProviderImplementsContract == Spec => ImplementsRequestContract
<1>1. QED
  BY ContractInit, ContractNext, Invariance, OutcomesAreTraced,
     StatusStaysBelowThreshold, PTL
  DEF Spec, ImplementsRequestContract, Contract!Spec

-----------------------------------------------------------------------------
\* There is an answer, and a resetter, only once the handler has returned.
AnsweredAtTheEnd ==
  \A r \in Requests : response[r] # "none" \/ resetter[r] # "none" => pc[r] = "done"

LEMMA AnswersAtTheEnd == Spec => []AnsweredAtTheEnd
<1>1. Init => AnsweredAtTheEnd
  BY DEF Init, AnsweredAtTheEnd
<1>2. TypeOK /\ AnsweredAtTheEnd /\ [Next]_vars => AnsweredAtTheEnd'
  <2> SUFFICES ASSUME TypeOK, AnsweredAtTheEnd, [Next]_vars
               PROVE  AnsweredAtTheEnd'
    OBVIOUS
  <2> USE DEF TypeOK, AnsweredAtTheEnd, Active, handler, channel
  <2>1. ASSUME NEW r \in Requests, ReceiveResult(r)
        PROVE  AnsweredAtTheEnd'
    BY <2>1 DEF ReceiveResult, Answer, GoTo
  <2>2. ASSUME NEW r \in Requests, Arrive(r) \/ HandlerStep(r), ~ReceiveResult(r)
        PROVE  AnsweredAtTheEnd'
    BY <2>2 DEF Arrive, HandlerStep, LookupHit, LookupMiss, Timeout, Answer, GoTo,
                GetTimeOutStatus, SetTimeOutStatus, TimeOutStatusFails
  <2>3. ASSUME NEW r \in Requests, Compute(r) \/ GoroutineStep(r) \/ RetryStep(r)
        PROVE  AnsweredAtTheEnd'
    BY <2>3 DEF Compute, GoroutineStep, SendResult, StoreResult, ResetGet, ResetSet,
                RetryStep, SetTimeOutStatusAgain, StoreResultAgain, ResetSetAgain
  <2>4. ASSUME NEW k \in Keys, ExpireScan(k) \/ ExpireStatus(k)
        PROVE  AnsweredAtTheEnd'
    BY <2>4 DEF ExpireScan, ExpireStatus
  <2>5. ASSUME NEW p \in Replicas, Crash(p)
        PROVE  AnsweredAtTheEnd'
    BY <2>5 DEF Crash
  <2>6. CASE Quiescent \/ UNCHANGED vars
    BY <2>6 DEF Quiescent, vars
  <2>7. QED
    BY <2>1, <2>2, <2>3, <2>4, <2>5, <2>6 DEF Next
<1>3. QED
  BY <1>1, <1>2, TypeCorrect, PTL DEF Spec

\* No request is answered twice: neither the results that come after its timeout
\* nor anything that other requests, redis or a crash do changes its answer.
THEOREM AnswersStand ==
  Spec => [][\A r \in Requests : response[r] # "none" => response'[r] = response[r]]_vars
<1>1. TypeOK /\ AnsweredAtTheEnd /\ [Next]_vars =>
        [\A r \in Requests : response[r] # "none" => response'[r] = response[r]]_vars
  <2> SUFFICES ASSUME TypeOK, AnsweredAtTheEnd, [Next]_vars,
                      NEW r \in Requests, response[r] # "none"
               PROVE  response'[r] = response[r]
    OBVIOUS
  <2> USE DEF TypeOK, handler
  <2>1. pc[r] = "done"
    BY DEF AnsweredAtTheEnd
  <2>2. ASSUME NEW q \in Requests, Arrive(q) \/ HandlerStep(q)
        PROVE  response'[r] = response[r]
    BY <2>1, <2>2 DEF Arrive, HandlerStep, LookupHit, LookupMiss, ReceiveResult,
                      Timeout, GetTimeOutStatus, SetTimeOutStatus,
                      TimeOutStatusFails, Answer
  <2>3. ASSUME NEW q \in Requests, Compute(q) \/ GoroutineStep(q) \/ RetryStep(q)
        PROVE  response'[r] = response[r]
    BY <2>3 DEF Compute, GoroutineStep, SendResult, StoreResult, ResetGet, ResetSet,
                RetryStep, SetTimeOutStatusAgain, StoreResultAgain, ResetSetAgain
  <2>4. ASSUME NEW k \in Keys, ExpireScan(k) \/ ExpireStatus(k)
        PROVE  response'[r] = response[r]
    BY <2>4 DEF ExpireScan, ExpireStatus
  <2>5. ASSUME NEW p \in Replicas, Crash(p)
        PROVE  response'[r] = response[r]
    BY <2>5 DEF Crash
  <2>6. CASE Quiescent \/ UNCHANGED vars
    BY <2>6 DEF Quiescent, vars
  <2>7. QED
    BY <2>2, <2>3, <2>4, <2>5, <2>6 DEF Next
<1>2. QED
  BY <1>1, TypeCorrect, AnswersAtTheEnd, PTL DEF Spec

-----------------------------------------------------------------------------
(* Liveness. The provers know nothing of ENABLED: that the guard of a step *)
(* enables it is a hypothesis, GuardsEnable, which TLC evaluates. With it  *)
(* Fairness says that no step is put off whose guard holds for good.       *)

\* Fairness for one request: the scheduler runs the handler or a goroutine that
\* stays where it can go on. As in Fairness, the worker's scan may never end.
GoesOn(r) ==
  /\ [](pc[r] \in Active) => <><<HandlerStep(r)>>_vars
  /\ [](worker[r] = "sending" /\ buffer[r] = "none") => <><<SendResult(r)>>_vars
  /\ [](setter[r] = "set") => <><<StoreResult(r)>>_vars
  /\ [](resetter[r] = "get") => <><<ResetGet(r)>>_vars
  /\ [](resetter[r] = "set") => <><<ResetSet(r)>>_vars

AllGoOn == \A r \in Requests : GoesOn(r)

\* Each guard enables its step, for it to be taken and change something.
GuardEnables(r) ==
  /\ pc[r] \in Active => ENABLED <<HandlerStep(r)>>_vars
  /\ worker[r] = "sending" /\ buffer[r] = "none" => ENABLED <<SendResult(r)>>_vars
  /\ setter[r] = "set" => ENABLED <<StoreResult(r)>>_vars
  /\ resetter[r] = "get" => ENABLED <<ResetGet(r)>>_vars
  /\ resetter[r] = "set" => ENABLED <<ResetSet(r)>>_vars

GuardsEnable == \A r \in Requests : GuardEnables(r)

LEMMA FairnessSuffices == Fairness /\ []GuardsEnable => []AllGoOn
<1>1. ASSUME NEW r \in Requests
      PROVE  RunsFairly(r) /\ []GuardEnables(r) => []GoesOn(r)
  BY PTL DEF RunsFairly, GuardEnables, GoesOn
<1>2. []GuardsEnable => \A r \in Requests : []GuardEnables(r)
  BY DEF GuardsEnable
<1>3. (\A r \in Requests : []GoesOn(r)) => []AllGoOn
  BY DEF AllGoOn
<1>4. QED
  BY <1>1, <1>2, <1>3 DEF Fairness

LEMMA EachGoesOn == ASSUME NEW r \in Requests PROVE AllGoOn => GoesOn(r)
BY DEF AllGoOn

\* The handler and the goroutines of a request only ever move forward.
LEMMA HandlerMoves ==
  ASSUME TypeOK, [Next]_vars, NEW r \in Requests
  PROVE  /\ pc[r] = "lookup" => pc'[r] \in {"lookup", "select", "done", "lost"}
         /\ pc[r] = "select" => pc'[r] \in {"select", "getStatus", "done", "lost"}
         /\ pc[r] = "getStatus" => pc'[r] \in {"getStatus", "setStatus", "done", "lost"}
         /\ pc[r] = "setStatus" => pc'[r] \in {"setStatus", "done", "lost"}
<1> USE DEF TypeOK, Active, handler
<1>1. ASSUME NEW q \in Requests, Arrive(q) \/ HandlerStep(q)
      PROVE  pc'[r] = pc[r] \/ q = r
  BY <1>1 DEF Arrive, HandlerStep, LookupHit, LookupMiss, ReceiveResult, Timeout,
              GetTimeOutStatus, SetTimeOutStatus, TimeOutStatusFails, Answer, GoTo
<1>2. ASSUME Arrive(r) \/ HandlerStep(r)
      PROVE  \/ pc[r] = "idle"
             \/ pc[r] = "lookup" /\ pc'[r] \in {"select", "done"}
             \/ pc[r] = "select" /\ pc'[r] \in {"getStatus", "done"}
             \/ pc[r] = "getStatus" /\ pc'[r] \in {"setStatus", "done"}
             \/ pc[r] = "setStatus" /\ pc'[r] = "done"
  BY <1>2 DEF Arrive, HandlerStep, LookupHit, LookupMiss, ReceiveResult, Timeout,
              GetTimeOutStatus, SetTimeOutStatus, TimeOutStatusFails, Answer, GoTo
<1>3. ASSUME NEW q \in Requests, Compute(q) \/ GoroutineStep(q) \/ RetryStep(q)
      PROVE  pc' = pc
  BY <1>3 DEF Compute, GoroutineStep, SendResult, StoreResult, ResetGet, ResetSet,
              RetryStep, SetTimeOutStatusAgain, StoreResultAgain, ResetSetAgain
<1>4. ASSUME NEW k \in Keys, ExpireScan(k) \/ ExpireStatus(k)
      PROVE  pc' = pc
  BY <1>4 DEF ExpireScan, ExpireStatus
<1>5. ASSUME NEW p \in Replicas, Crash(p)
      PROVE  pc'[r] \in {pc[r], "lost"}
  BY <1>5 DEF Crash
<1>6. CASE Quiescent \/ UNCHANGED vars
  BY <1>6 DEF Quiescent, vars
<1>7. QED
  BY <1>1, <1>2, <1>3, <1>4, <1>5, <1>6 DEF Next

LEMMA HandlerStepMoves ==
  ASSUME TypeOK, NEW r \in Requests, HandlerStep(r)
  PROVE  pc'[r] # pc[r]
BY DEF TypeOK, HandlerStep, LookupHit, LookupMiss, ReceiveResult, Timeout,
       GetTimeOutStatus, SetTimeOutStatus, TimeOutStatusFails, Answer, GoTo

\* Every request that asks is answered, although nothing is supposed of its
\* worker: each place in the handler is left by a step of its own.
LEMMA RequestAnswered ==
  ASSUME NEW r \in Requests
  PROVE  []TypeOK /\ [][Next]_vars /\ []GoesOn(r)
           => (pc[r] = "lookup" ~> pc[r] \in {"done", "lost"})
<1> DEFINE Lookup == pc[r] = "lookup"
           Select == pc[r] = "select"
           Get == pc[r] = "getStatus"
           Set == pc[r] = "setStatus"
           Inside == pc[r] \in Active
           Ended == pc[r] \in {"done", "lost"}
           Moves == pc'[r] # pc[r]
<1>1. TypeOK /\ [Next]_vars =>
        /\ Lookup => Lookup' \/ Select' \/ Ended'
        /\ Select => Select' \/ Get' \/ Ended'
        /\ Get => Get' \/ Set' \/ Ended'
        /\ Set => Set' \/ Ended'
  BY HandlerMoves
<1>2. TypeOK /\ [Next]_vars /\ <<HandlerStep(r)>>_vars =>
        /\ Lookup => ~Lookup'
        /\ Select => ~Select'
        /\ Get => ~Get'
        /\ Set => ~Set'
  BY HandlerStepMoves
<1>3. /\ Lookup => Inside
      /\ Select => Inside
      /\ Get => Inside
      /\ Set => Inside
  BY DEF Active
<1>4. QED
  BY <1>1, <1>2, <1>3, PTL DEF GoesOn

\* Every request that asks is answered, for any number of requests and replicas
\* and any failures of redis.
THEOREM RequestsAreAnswered == FairSpec /\ []GuardsEnable => EveryRequestAnswered
<1>1. ASSUME NEW r \in Requests
      PROVE  Spec /\ []AllGoOn => (pc[r] = "lookup" ~> pc[r] \in {"done", "lost"})
  BY RequestAnswered, TypeCorrect, EachGoesOn, PTL DEF Spec
<1>2. QED
  BY <1>1, FairnessSuffices DEF EveryRequestAnswered, FairSpec

\* Once a worker has its result, somebody is to store it.
SetterStarted ==
  \A r \in Requests : worker[r] \in {"sending", "finished"} => setter[r] # "none"

LEMMA GoroutinesMove ==
  ASSUME TypeOK, GoroutineInv, [Next]_vars, NEW r \in Requests
  PROVE  /\ worker[r] = "sending" => worker'[r] \in {"sending", "finished", "lost"}
         /\ worker'[r] \in {"sending", "finished"} =>
              worker[r] \in {"sending", "finished"} \/ setter'[r] # "none"
         /\ setter[r] = "set" => setter'[r] \in {"set", "finished", "lost"}
         /\ setter[r] # "none" => setter'[r] # "none"
<1> USE DEF TypeOK, GoroutineInv, handler, channel
<1> DEFINE Goal ==
      /\ worker[r] = "sending" => worker'[r] \in {"sending", "finished", "lost"}
      /\ worker'[r] \in {"sending", "finished"} =>
           worker[r] \in {"sending", "finished"} \/ setter'[r] # "none"
      /\ setter[r] = "set" => setter'[r] \in {"set", "finished", "lost"}
      /\ setter[r] # "none" => setter'[r] # "none"
<1>1. ASSUME NEW q \in Requests, Arrive(q) \/ HandlerStep(q)
      PROVE  Goal
  <2>1. CASE LookupMiss(q)
    BY <2>1 DEF LookupMiss
  <2>2. CASE ~LookupMiss(q)
    BY <1>1, <2>2 DEF Arrive, HandlerStep, LookupHit, ReceiveResult, Timeout,
                      GetTimeOutStatus, SetTimeOutStatus, TimeOutStatusFails
  <2>3. QED BY <2>1, <2>2
<1>2. ASSUME NEW q \in Requests, Compute(q)
      PROVE  Goal
  BY <1>2 DEF Compute
<1>3. ASSUME NEW q \in Requests, GoroutineStep(q) \/ RetryStep(q)
      PROVE  Goal
  BY <1>3 DEF GoroutineStep, SendResult, StoreResult, ResetGet, ResetSet,
              RetryStep, SetTimeOutStatusAgain, StoreResultAgain, ResetSetAgain
<1>4. ASSUME NEW k \in Keys, ExpireScan(k) \/ ExpireStatus(k)
      PROVE  Goal
  BY <1>4 DEF ExpireScan, ExpireStatus
<1>5. ASSUME NEW p \in Replicas, Crash(p)
      PROVE  Goal
  BY <1>5 DEF Crash
<1>6. CASE Quiescent \/ UNCHANGED vars
  BY <1>6 DEF Quiescent, vars
<1>7. QED
  BY <1>1, <1>2, <1>3, <1>4, <1>5, <1>6 DEF Next

LEMMA SettersStart == Spec => []SetterStarted
<1>1. Init => SetterStarted
  BY DEF Init, SetterStarted
<1>2. TypeOK /\ GoroutineInv /\ SetterStarted /\ [Next]_vars => SetterStarted'
  BY GoroutinesMove DEF SetterStarted
<1>3. QED
  BY <1>1, <1>2, Invariance, PTL DEF Spec

\* A worker that has its result ends: its channel is empty until it has sent,
\* whether or not the handler is still there to receive.
THEOREM WorkersEnd == FairSpec /\ []GuardsEnable => WorkersFinish
<1> DEFINE Inv == TypeOK /\ GoroutineInv /\ ChannelDiscipline
<1>1. ASSUME NEW r \in Requests
      PROVE  Spec /\ []AllGoOn =>
               (worker[r] = "sending" ~> worker[r] \in {"finished", "lost"})
  <2> DEFINE Sending == worker[r] = "sending"
             CanSend == worker[r] = "sending" /\ buffer[r] = "none"
             Ended == worker[r] \in {"finished", "lost"}
  <2>1. Inv /\ [Next]_vars => (Sending => Sending' \/ Ended')
    BY GoroutinesMove
  <2>2. Inv => (Sending => CanSend)
    BY DEF ChannelDiscipline
  <2>3. Inv /\ <<SendResult(r)>>_vars => ~Sending'
    BY DEF SendResult, TypeOK
  <2>4. QED
    BY <2>1, <2>2, <2>3, Invariance, EachGoesOn, PTL DEF Spec, GoesOn
<1>2. QED
  BY <1>1, FairnessSuffices DEF WorkersFinish, FairSpec

\* What a worker computes is written to redis, also after the timeout of its
\* request: the goroutine that writes it waits for nobody.
THEOREM LateResultsAreStored == FairSpec /\ []GuardsEnable => LateResultsStored
<1>1. ASSUME NEW r \in Requests
      PROVE  Spec /\ []AllGoOn =>
               ((worker[r] = "sending" /\ pc[r] \in {"getStatus", "setStatus", "done"})
                  ~> setter[r] \in {"finished", "lost"})
  <2> DEFINE Late == worker[r] = "sending" /\ pc[r] \in {"getStatus", "setStatus", "done"}
             ToSet == setter[r] = "set"
             Ended == setter[r] \in {"finished", "lost"}
  <2>1. TypeOK /\ SetterStarted => (Late => ToSet \/ Ended)
    BY DEF TypeOK, SetterStarted
  <2>2. TypeOK /\ GoroutineInv /\ [Next]_vars => (ToSet => ToSet' \/ Ended')
    BY GoroutinesMove
  <2>3. TypeOK /\ <<StoreResult(r)>>_vars => ~ToSet'
    BY DEF StoreResult, TypeOK
  <2>4. QED
    BY <2>1, <2>2, <2>3, Invariance, SettersStart, EachGoesOn, PTL DEF Spec, GoesOn
<1>2. QED
  BY <1>1, FairnessSuffices DEF LateResultsStored, FairSpec

-----------------------------------------------------------------------------
(* The budget of blocking timeouts, when the requests of a pod spec are    *)
(* handled one after the other.                                            *)

\* Two requests for the same pod spec are never in the handler together.
Serial ==
  \A r, q \in Requests :
    pc[r] \in Active /\ pc[q] \in Active /\ KeyOf[r] = KeyOf[q] => r = q

\* Redis counts at least the timeouts that blocked; a handler about to write
\* a count has room in it for its own block. (The count may exceed the blocks:
\* a write whose reply was lost, or a handler that crashed before answering.)
BlocksCounted ==
  /\ \A k \in Keys : blocks[k] <= TimeOutStatus(k)
  /\ \A r \in Requests : pc[r] = "setStatus" => blocks[KeyOf[r]] < timeouts[r]

LEMMA SerialInit == Init => Serial
  BY DEF Init, Serial, Active

\* The environment admits a request only when no other of its pod spec is
\* being handled, and no step makes a handler active again.
LEMMA SerialNext ==
  ASSUME MaxConcurrent = 1, TypeOK, Serial, [Next]_vars
  PROVE  Serial'
<1> USE ConstantsAssumption DEF TypeOK, Serial, Active, handler, channel, redis
<1>1. ASSUME NEW r \in Requests, Arrive(r)
      PROVE  Serial'
  <2>1. InHandling(KeyOf[r]) = {}
    <3>1. IsFiniteSet(InHandling(KeyOf[r]))
      BY FS_Subset DEF InHandling
    <3>2. Cardinality(InHandling(KeyOf[r])) \in Nat
      BY <3>1, FS_CardinalityType
    <3>3. Cardinality(InHandling(KeyOf[r])) = 0
      BY <1>1, <3>2 DEF Arrive
    <3>4. QED
      BY <3>1, <3>3, FS_EmptySet
  <2>2. \A q \in Requests : KeyOf[q] = KeyOf[r] => pc[q] \notin Active
    BY <2>1 DEF InHandling
  <2>3. QED
    BY <1>1, <2>2 DEF Arrive, GoTo
<1>2. ASSUME NEW r \in Requests, HandlerStep(r)
      PROVE  Serial'
  <2>1. /\ pc[r] \in Active
        /\ \A q \in Requests \ {r} : pc'[q] = pc[q]
    BY <1>2 DEF HandlerStep, LookupHit, LookupMiss, ReceiveResult, Timeout,
                GetTimeOutStatus, SetTimeOutStatus, TimeOutStatusFails,
                Answer, GoTo
  <2>2. QED
    BY <2>1
<1>3. ASSUME NEW r \in Requests,
             Compute(r) \/ GoroutineStep(r) \/ RetryStep(r)
      PROVE  Serial'
  BY <1>3 DEF Compute, GoroutineStep, SendResult, StoreResult, ResetGet,
              ResetSet, RetryStep, SetTimeOutStatusAgain, StoreResultAgain,
              ResetSetAgain
<1>4. ASSUME NEW k \in Keys, ExpireScan(k) \/ ExpireStatus(k)
      PROVE  Serial'
  BY <1>4 DEF ExpireScan, ExpireStatus
<1>5. ASSUME NEW p \in Replicas, Crash(p)
      PROVE  Serial'
  BY <1>5 DEF Crash
<1>6. CASE Quiescent \/ UNCHANGED vars
  BY <1>6 DEF Quiescent, vars
<1>7. QED
  BY <1>1, <1>2, <1>3, <1>4, <1>5, <1>6 DEF Next

-----------------------------------------------------------------------------
\* The history variables add no step to AzdSecInfo.
LEMMA BudgetImplementsAzdSecInfo == BudgetSpec => Spec
<1>1. BudgetInit => Init
  BY DEF BudgetInit
<1>2. [BudgetNext]_budgetVars => [Next]_vars
  BY DEF BudgetNext, budgetVars, vars
<1>3. QED
  BY <1>1, <1>2, PTL DEF BudgetSpec, Spec

\* A step that blocks nobody keeps the number of blocks or clears it.
LEMMA NoBlock ==
  ASSUME BudgetTypeOK, BudgetNext, NEW k \in Keys, Blocked(k) = {}
  PROVE  blocks'[k] \in {0, blocks[k]} /\ (TimeOutStatus(k)' = 0 => blocks'[k] = 0)
<1>1. Cardinality(Blocked(k)) = 0
  <2>1. Cardinality({}) = 0
    BY FS_EmptySet
  <2>2. QED
    BY <2>1
<1>2. blocks[k] + 0 = blocks[k]
  BY DEF BudgetTypeOK
<1>3. blocks'[k] = IF TimeOutStatus(k)' = 0 THEN 0
                   ELSE blocks[k] + Cardinality(Blocked(k))
  BY DEF BudgetNext
<1>4. QED
  BY <1>1, <1>2, <1>3

\* The step that makes r block adds at most one to the blocks of its pod spec.
LEMMA OneBlock ==
  ASSUME TypeOK, BudgetTypeOK, BudgetNext, NEW r \in Requests, SetTimeOutStatus(r)
  PROVE  /\ blocks'[KeyOf[r]] \in 0 .. blocks[KeyOf[r]] + 1
         /\ \A k \in Keys \ {KeyOf[r]} : Blocked(k) = {}
<1> USE ConstantsAssumption DEF TypeOK, BudgetTypeOK
<1>1. \A q \in Requests \ {r} : response'[q] = response[q]
  BY DEF SetTimeOutStatus, Answer
<1>2. Blocked(KeyOf[r]) \in SUBSET {r}
  BY <1>1 DEF Blocked
<1>3. Cardinality(Blocked(KeyOf[r])) \in 0 .. 1
  <2>1. IsFiniteSet({r}) /\ Cardinality({r}) = 1
    BY FS_Singleton
  <2>2. IsFiniteSet(Blocked(KeyOf[r])) /\ Cardinality(Blocked(KeyOf[r])) <= 1
    BY <1>2, <2>1, FS_Subset
  <2>3. QED
    BY <2>2, FS_CardinalityType
<1>4. KeyOf[r] \in Keys
  OBVIOUS
<1>5. blocks'[KeyOf[r]] \in {0, blocks[KeyOf[r]] + Cardinality(Blocked(KeyOf[r]))}
  BY <1>4 DEF BudgetNext
<1>6. \A k \in Keys \ {KeyOf[r]} : Blocked(k) = {}
  BY <1>1 DEF Blocked
<1>7. QED
  BY <1>3, <1>4, <1>5, <1>6

LEMMA BudgetTypeNext ==
  ASSUME TypeOK, BudgetTypeOK, [BudgetNext]_budgetVars
  PROVE  BudgetTypeOK'
<1>1. CASE BudgetNext
  <2>1. \A k \in Keys : Cardinality(Blocked(k)) \in Nat
    BY ConstantsAssumption, FS_Subset, FS_CardinalityType DEF Blocked
  <2>2. blocks' \in [Keys -> Nat]
    BY <1>1, <2>1 DEF BudgetNext, BudgetTypeOK
  <2>3. owed' \in [Keys -> BOOLEAN]
    BY <1>1 DEF BudgetNext
  <2>4. QED
    BY <2>2, <2>3 DEF BudgetTypeOK
<1>2. CASE UNCHANGED budgetVars
  BY <1>2 DEF budgetVars, BudgetTypeOK
<1>3. QED
  BY <1>1, <1>2

-----------------------------------------------------------------------------
LEMMA CountedNext ==
  ASSUME TypeOK, StatusBelowThreshold, Serial, BudgetTypeOK, BlocksCounted,
         BudgetNext
  PROVE  BlocksCounted'
<1> USE ConstantsAssumption
    DEF TypeOK, BudgetTypeOK, StatusBelowThreshold, BlocksCounted, TimeOutStatus,
        handler, channel, redis
<1>1. Next
  BY DEF BudgetNext
<1>2. ASSUME NEW r \in Requests, SetTimeOutStatus(r)
      PROVE  BlocksCounted'
  <2>1. /\ blocks'[KeyOf[r]] \in 0 .. blocks[KeyOf[r]] + 1
        /\ \A k \in Keys \ {KeyOf[r]} : blocks'[k] \in {0, blocks[k]}
    BY <1>2, OneBlock, NoBlock
  <2>2. /\ pc[r] = "setStatus" /\ pc' = [pc EXCEPT ![r] = "done"]
        /\ status' = [status EXCEPT ![KeyOf[r]] = timeouts[r]]
        /\ timeouts' = timeouts
    BY <1>2 DEF SetTimeOutStatus, Answer, GoTo
  <2>3. \A k \in Keys : blocks'[k] <= TimeOutStatus(k)'
    <3> SUFFICES ASSUME NEW k \in Keys
                 PROVE  blocks'[k] <= TimeOutStatus(k)'
      OBVIOUS
    <3>1. CASE k = KeyOf[r]
      BY <2>1, <2>2, <3>1
    <3>2. CASE k # KeyOf[r]
      BY <2>1, <2>2, <3>2
    <3>3. QED
      BY <3>1, <3>2
  <2>4. ASSUME NEW q \in Requests, pc'[q] = "setStatus"
        PROVE  blocks'[KeyOf[q]] < timeouts'[q]
    <3>1. q # r /\ pc[q] = "setStatus"
      BY <2>2, <2>4
    <3>2. KeyOf[q] # KeyOf[r]
      BY <2>2, <3>1 DEF Serial, Active
    <3>3. QED
      BY <2>1, <2>2, <3>1, <3>2
  <2>5. QED
    BY <2>3, <2>4
<1>3. ASSUME \A r \in Requests : ~SetTimeOutStatus(r)
      PROVE  BlocksCounted'
  <2>1. \A k \in Keys : Blocked(k) = {}
    BY <1>1, <1>3, OnlyCountedTimeoutsBlock DEF Blocked
  <2>2. \A k \in Keys :
          blocks'[k] \in {0, blocks[k]} /\ (TimeOutStatus(k)' = 0 => blocks'[k] = 0)
    BY <2>1, NoBlock
  <2>3. ASSUME NEW r \in Requests, GetTimeOutStatus(r)
        PROVE  BlocksCounted'
    BY <2>2, <2>3 DEF GetTimeOutStatus, Answer, GoTo
  <2>4. ASSUME NEW r \in Requests, SetTimeOutStatusAgain(r)
        PROVE  BlocksCounted'
    <3>1. \A k \in Keys : blocks'[k] <= TimeOutStatus(k)'
      BY <2>2, <2>4 DEF SetTimeOutStatusAgain
    <3>2. QED
      BY <2>2, <2>4, <3>1 DEF SetTimeOutStatusAgain
  <2>5. ASSUME NEW r \in Requests, ResetSet(r) \/ ResetSetAgain(r)
        PROVE  BlocksCounted'
    BY <2>2, <2>5 DEF ResetSet, ResetSetAgain
  <2>6. ASSUME NEW k \in Keys, ExpireStatus(k) \/ ExpireScan(k)
        PROVE  BlocksCounted'
    BY <2>2, <2>6 DEF ExpireStatus, ExpireScan
  <2>7. ASSUME NEW r \in Requests,
               \/ Arrive(r)
               \/ LookupHit(r)
               \/ LookupMiss(r)
               \/ ReceiveResult(r)
               \/ Timeout(r)
               \/ TimeOutStatusFails(r)
        PROVE  BlocksCounted'
    BY <2>2, <2>7 DEF Arrive, LookupHit, LookupMiss, ReceiveResult, Timeout,
                      TimeOutStatusFails, Answer, GoTo
  <2>8. ASSUME NEW r \in Requests,
               \/ Compute(r)
               \/ SendResult(r)
               \/ StoreResult(r)
               \/ StoreResultAgain(r)
               \/ ResetGet(r)
        PROVE  BlocksCounted'
    BY <2>2, <2>8 DEF Compute, SendResult, StoreResult, StoreResultAgain, ResetGet
  <2>9. ASSUME NEW p \in Replicas, Crash(p)
        PROVE  BlocksCounted'
    BY <2>2, <2>9 DEF Crash
  <2>10. CASE Quiescent
    BY <2>2, <2>10 DEF Quiescent, vars
  <2>11. QED
    BY <1>1, <1>3, <2>3, <2>4, <2>5, <2>6, <2>7, <2>8, <2>9, <2>10
    DEF Next, HandlerStep, GoroutineStep, RetryStep
<1>4. QED
  BY <1>2, <1>3

\* When the requests of a pod spec are handled one after the other, at most
\* Threshold - 1 of them are blocked by a timeout before redis forgets or one is
\* let through, whatever the goroutines of earlier requests do and whatever
\* redis commands fail, are repeated, or are cut short by a crash.
THEOREM BudgetIsKept ==
  ASSUME MaxConcurrent = 1
  PROVE  BudgetSpec => []BlocksWithinBudget
<1> DEFINE Inv == Serial /\ BudgetTypeOK /\ BlocksCounted
<1>1. BudgetInit => Inv
  <2> SUFFICES ASSUME BudgetInit
               PROVE  Inv
    OBVIOUS
  <2>1. Serial
    BY SerialInit DEF BudgetInit
  <2>2. BudgetTypeOK
    BY DEF BudgetInit, BudgetTypeOK
  <2>3. BlocksCounted
    BY ConstantsAssumption DEF BudgetInit, BlocksCounted, Init, TimeOutStatus
  <2>4. QED
    BY <2>1, <2>2, <2>3
<1>2. TypeOK /\ StatusBelowThreshold /\ Inv /\ [BudgetNext]_budgetVars => Inv'
  <2> SUFFICES ASSUME TypeOK, StatusBelowThreshold, Inv, [BudgetNext]_budgetVars
               PROVE  Inv'
    OBVIOUS
  <2>1. [Next]_vars
    BY DEF BudgetNext, budgetVars, vars
  <2>2. Serial' /\ BudgetTypeOK'
    BY <2>1, SerialNext, BudgetTypeNext
  <2>3. BlocksCounted'
    <3>1. CASE BudgetNext
      BY <3>1, CountedNext
    <3>2. CASE UNCHANGED budgetVars
      BY <3>2 DEF budgetVars, vars, BlocksCounted, TimeOutStatus
    <3>3. QED
      BY <3>1, <3>2
  <2>4. QED
    BY <2>2, <2>3
<1>3. TypeOK /\ StatusBelowThreshold /\ Inv => BlocksWithinBudget
  BY ConstantsAssumption
  DEF TypeOK, StatusBelowThreshold, BudgetTypeOK, BlocksCounted, TimeOutStatus,
      BlocksWithinBudget
<1>4. QED
  BY <1>1, <1>2, <1>3, BudgetImplementsAzdSecInfo, TypeCorrect,
     StatusStaysBelowThreshold, PTL
  DEF BudgetSpec

-----------------------------------------------------------------------------
(* The reset of the count after results that came in time, when redis      *)
(* works and no replica crashes.                                           *)

\* Where results were delivered and the count still stands, somebody is at
\* work on its reset.
OwedInv ==
  \A k \in Keys : owed[k] =>
    /\ TimeOutStatus(k) # 0
    /\ \E r \in Requests : KeyOf[r] = k /\ resetter[r] \in {"get", "set"}

\* A resetter of a pod spec whose count stands goes on to reset it.
LEMMA ResetterMoves ==
  ASSUME ~RedisMayFail, ~MayCrash, TypeOK, AnsweredAtTheEnd, [Next]_vars,
         NEW r \in Requests, resetter[r] \in {"get", "set"}, TimeOutStatus(KeyOf[r]) # 0
  PROVE  \/ resetter'[r] = resetter[r] /\ ~ResetGet(r) /\ ~ResetSet(r)
         \/ resetter[r] = "get" /\ resetter'[r] = "set"
         \/ resetter[r] = "set" /\ TimeOutStatus(KeyOf[r])' = 0
<1> USE ConstantsAssumption DEF TypeOK, handler, channel, redis
<1> DEFINE Goal == \/ resetter'[r] = resetter[r] /\ ~ResetGet(r) /\ ~ResetSet(r)
                   \/ resetter[r] = "get" /\ resetter'[r] = "set"
                   \/ resetter[r] = "set" /\ TimeOutStatus(KeyOf[r])' = 0
<1>1. CASE ResetGet(r)
  BY <1>1 DEF ResetGet
<1>2. CASE ResetSet(r)
  BY <1>2 DEF ResetSet, TimeOutStatus
<1>3. ASSUME ~ResetGet(r), ~ResetSet(r)
      PROVE  resetter'[r] = resetter[r]
  <2>1. ASSUME NEW q \in Requests, Arrive(q) \/ HandlerStep(q)
        PROVE  resetter'[r] = resetter[r]
    <3>1. CASE ReceiveResult(q)
      BY <3>1 DEF ReceiveResult, AnsweredAtTheEnd
    <3>2. CASE ~ReceiveResult(q)
      BY <2>1, <3>2 DEF Arrive, HandlerStep, LookupHit, LookupMiss, Timeout,
                        GetTimeOutStatus, SetTimeOutStatus, TimeOutStatusFails
    <3>3. QED BY <3>1, <3>2
  <2>2. ASSUME NEW q \in Requests, Compute(q) \/ GoroutineStep(q) \/ RetryStep(q)
        PROVE  resetter'[r] = resetter[r]
    BY <1>3, <2>2 DEF Compute, GoroutineStep, SendResult, StoreResult, ResetGet,
                      ResetSet, RetryStep, SetTimeOutStatusAgain,
                      StoreResultAgain, ResetSetAgain
  <2>3. ASSUME NEW k \in Keys, ExpireScan(k) \/ ExpireStatus(k)
        PROVE  resetter'[r] = resetter[r]
    BY <2>3 DEF ExpireScan, ExpireStatus
  <2>4. ~(\E p \in Replicas : Crash(p))
    BY DEF Crash
  <2>5. CASE Quiescent \/ UNCHANGED vars
    BY <2>5 DEF Quiescent, vars
  <2>6. QED
    BY <2>1, <2>2, <2>3, <2>4, <2>5 DEF Next
<1>4. QED
  BY <1>1, <1>2, <1>3

\* Results are delivered in the step that starts the resetter.
LEMMA DeliveryStartsResetter ==
  ASSUME TypeOK, AnsweredAtTheEnd, [Next]_vars, NEW k \in Keys, Delivered(k) # {}
  PROVE  \E r \in Requests : KeyOf[r] = k /\ resetter'[r] = "get"
<1> USE DEF TypeOK, handler
<1>1. PICK r \in Requests : KeyOf[r] = k /\ pc[r] = "select" /\ response'[r] = "infos"
  BY DEF Delivered
<1>2. response'[r] # response[r]
  BY <1>1 DEF AnsweredAtTheEnd
<1>3. ASSUME NEW q \in Requests, Arrive(q) \/ HandlerStep(q)
      PROVE  q = r
  BY <1>2, <1>3 DEF Arrive, HandlerStep, LookupHit, LookupMiss, ReceiveResult,
                    Timeout, GetTimeOutStatus, SetTimeOutStatus,
                    TimeOutStatusFails, Answer
<1>4. ASSUME NEW q \in Requests, Compute(q) \/ GoroutineStep(q) \/ RetryStep(q)
      PROVE  FALSE
  BY <1>2, <1>4 DEF Compute, GoroutineStep, SendResult, StoreResult, ResetGet,
                    ResetSet, RetryStep, SetTimeOutStatusAgain,
                    StoreResultAgain, ResetSetAgain
<1>5. ~(\E p \in Keys : ExpireScan(p) \/ ExpireStatus(p))
  BY <1>2 DEF ExpireScan, ExpireStatus
<1>6. ~(\E p \in Replicas : Crash(p))
  BY <1>2 DEF Crash
<1>7. ~(Quiescent \/ UNCHANGED vars)
  BY <1>2 DEF Quiescent, vars
<1>8. Arrive(r) \/ HandlerStep(r)
  BY <1>3, <1>4, <1>5, <1>6, <1>7 DEF Next
<1>9. ReceiveResult(r)
  BY <1>1, <1>2, <1>8 DEF Arrive, HandlerStep, LookupHit, LookupMiss, Timeout,
                         GetTimeOutStatus, SetTimeOutStatus, TimeOutStatusFails
<1>10. QED
  BY <1>1, <1>9 DEF ReceiveResult, Extracted, Answer, Outcomes

LEMMA OwedNext ==
  ASSUME ~RedisMayFail, ~MayCrash, TypeOK, AnsweredAtTheEnd, OwedInv, BudgetNext
  PROVE  OwedInv'
<1> SUFFICES ASSUME NEW k \in Keys, owed'[k]
             PROVE  /\ TimeOutStatus(k)' # 0
                    /\ \E r \in Requests : KeyOf[r] = k /\ resetter'[r] \in {"get", "set"}
  BY DEF OwedInv
<1>1. TimeOutStatus(k)' # 0 /\ (owed[k] \/ Delivered(k) # {})
  BY DEF BudgetNext
<1>2. [Next]_vars
  BY DEF BudgetNext
<1>3. CASE owed[k]
  <2>1. PICK r \in Requests : KeyOf[r] = k /\ resetter[r] \in {"get", "set"}
    BY <1>3 DEF OwedInv
  <2>2. TimeOutStatus(KeyOf[r]) # 0
    BY <1>3, <2>1 DEF OwedInv
  <2>3. resetter'[r] \in {"get", "set"}
    BY <1>1, <1>2, <2>1, <2>2, ResetterMoves
  <2>4. QED BY <1>1, <2>1, <2>3
<1>4. CASE Delivered(k) # {}
  BY <1>1, <1>2, <1>4, DeliveryStartsResetter
<1>5. QED
  BY <1>1, <1>3, <1>4

LEMMA OwedAreReset ==
  ASSUME ~RedisMayFail, ~MayCrash
  PROVE  BudgetSpec => []OwedInv
<1>1. BudgetInit => OwedInv
  BY DEF BudgetInit, OwedInv
<1>2. TypeOK /\ AnsweredAtTheEnd /\ OwedInv /\ [BudgetNext]_budgetVars => OwedInv'
  <2> SUFFICES ASSUME TypeOK, AnsweredAtTheEnd, OwedInv, [BudgetNext]_budgetVars
               PROVE  OwedInv'
    OBVIOUS
  <2>1. CASE BudgetNext
    BY <2>1, OwedNext
  <2>2. CASE UNCHANGED budgetVars
    BY <2>2 DEF budgetVars, vars, OwedInv, TimeOutStatus
  <2>3. QED BY <2>1, <2>2
<1>3. QED
  BY <1>1, <1>2, BudgetImplementsAzdSecInfo, TypeCorrect, AnswersAtTheEnd, PTL
  DEF BudgetSpec

\* Results that come in time clear the count, unless a later timeout was counted
\* meanwhile: a count that stands is read by the resetter, and then written over.
THEOREM DeliveriesReset ==
  ASSUME ~RedisMayFail, ~MayCrash
  PROVE  FairBudgetSpec /\ []GuardsEnable => DeliveredResultsReset
<1> DEFINE Inv == TypeOK /\ AnsweredAtTheEnd /\ OwedInv
           At(r, k) == KeyOf[r] = k /\ resetter[r] \in {"get", "set"}
<1>1. ASSUME NEW k \in Keys, NEW r \in Requests
      PROVE  []Inv /\ []AllGoOn /\ [][Next]_vars => (At(r, k) => <>(~owed[k]))
  <2> DEFINE Owed == owed[k]
             Getting == resetter[r] = "get"
             Setting == resetter[r] = "set"
             Get == KeyOf[r] = k /\ Getting
             Set == KeyOf[r] = k /\ Setting
  <2>1. Inv /\ [Next]_vars => (Owed /\ Get => Get' \/ Set')
    <3> SUFFICES ASSUME Inv, Owed, [Next]_vars, Get
                 PROVE  Get' \/ Set'
      OBVIOUS
    <3>1. TimeOutStatus(KeyOf[r]) # 0
      BY DEF OwedInv
    <3>2. QED BY <3>1, ResetterMoves
  <2>2. Inv /\ Inv' /\ [Next]_vars => (Owed /\ Set => Set' \/ ~Owed')
    <3> SUFFICES ASSUME Inv, Inv', Owed, Set, [Next]_vars, Owed'
                 PROVE  Set'
      OBVIOUS
    <3>1. TimeOutStatus(KeyOf[r]) # 0 /\ TimeOutStatus(KeyOf[r])' # 0
      BY DEF OwedInv
    <3>2. QED BY <3>1, ResetterMoves
  <2>3. Inv /\ <<ResetGet(r)>>_vars => ~Get'
    BY DEF ResetGet, TypeOK
  <2>4. Inv /\ <<ResetSet(r)>>_vars => ~Set'
    BY DEF ResetSet, TypeOK
  <2>5. (Get => Getting) /\ (Set => Setting) /\ (At(r, k) => Get \/ Set)
    OBVIOUS
  <2>6. AllGoOn => GoesOn(r)
    BY EachGoesOn
  <2> HIDE DEF Inv, At, Get, Set, Owed
  <2>7. []Inv /\ []AllGoOn /\ [][Next]_vars => (At(r, k) => <>(~Owed))
    BY <2>1, <2>2, <2>3, <2>4, <2>5, <2>6, PTL DEF GoesOn
  <2>8. QED
    BY <2>7 DEF Owed
<1>2. ASSUME NEW k \in Keys
      PROVE  BudgetSpec /\ []AllGoOn => (owed[k] ~> ~owed[k])
  <2>1. []Inv /\ []AllGoOn /\ [][Next]_vars =>
          ((\E r \in Requests : At(r, k)) => <>(~owed[k]))
    BY <1>1
  <2>2. Inv => (owed[k] => \E r \in Requests : At(r, k))
    BY DEF OwedInv
  <2>3. BudgetSpec => []Inv /\ [][Next]_vars
    BY BudgetImplementsAzdSecInfo, OwedAreReset, TypeCorrect, AnswersAtTheEnd, PTL
    DEF Spec
  <2> HIDE DEF Inv, At
  <2>4. QED
    BY <2>1, <2>2, <2>3, PTL
<1>3. QED
  BY <1>2, FairnessSuffices DEF DeliveredResultsReset, FairBudgetSpec
=============================================================================
