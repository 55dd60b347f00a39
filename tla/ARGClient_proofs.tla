-------------------------- MODULE ARGClient_proofs --------------------------
(***************************************************************************)
(* Theorems about RetryPolicy, for every set of clients, every number of   *)
(* attempts that is not negative and every duration; and about ARGClient,  *)
(* for every set of scans and every size of a page: a query is a call of   *)
(* the policy, and what is proved of the policy holds of it. Last, that    *)
(* neither goes round for ever: what is left of them becomes less.         *)
(***************************************************************************)
EXTENDS ARGClient, SequenceTheorems, TLAPS

\* The errors of the client under way that are tried again.
Retried == shouldRetry[client]

\* The runs are counted by the place in the loop, and a run that is followed by
\* another one, or by a wait, failed with an error that is tried again.
CountingInv ==
  /\ retryCount <= retryAttempts + 1
  /\ pc \in {"test", "act"} => Len(runs) = retryCount - 1
  /\ pc = "act" => retryCount <= retryAttempts
  /\ pc = "sleep" => /\ Len(runs) = retryCount
                     /\ retryCount <= retryAttempts
                     /\ err \in Retried
  /\ pc = "returned" => /\ Len(runs) <= retryAttempts
                        /\ err \in Retried => Len(runs) = retryAttempts

HistoryInv ==
  /\ runs = <<>> => err = "nil"
  /\ runs # <<>> => err = runs[Len(runs)]
  /\ \A i \in 1..(Len(runs) - 1) : runs[i] \in Retried
  /\ pc \in {"test", "act", "sleep"} /\ runs # <<>> => err \in Retried

SleptInv == 2 * slept = duration * ((retryCount - 1) * (retryCount + 2))

LEMMA Tables ==
  /\ DOMAIN actionErrors = {"Get", "Set", "Ping", "Digest", "QueryResources", "Exchange"}
  /\ actionErrors["Get"] = {"redis.Nil", "network"}
  /\ actionErrors["Set"] = {"network"}
  /\ actionErrors["Ping"] = {"network"}
  /\ actionErrors["Digest"] = {"ImageIsNotFoundErr", "UnauthorizedErr", "empty digest", "network"}
  /\ actionErrors["QueryResources"] = {"empty result", "network"}
  /\ actionErrors["Exchange"] = {"no such host", "network"}
  BY DEF actionErrors

LEMMA RetriedErrors ==
  /\ shouldRetry["Get"] = {"network"}
  /\ shouldRetry["Exchange"] = {"network"}
  /\ shouldRetry["QueryResources"] = {"empty result"}
  BY DEF shouldRetry

\* Which client can answer so, from its table of errors.
LEMMA MissingAnswers ==
  ASSUME client \in DOMAIN actionErrors, err \in Ends
  PROVE  /\ answer(client, err) \in {"MissingKeyCacheError", "RegistryIsNotFoundErr"}
              => client \in {"Get", "Exchange"}
         /\ answer(client, err) = "no results"
              => client = "QueryResources" /\ err = "empty result"
<1>1. CASE client = "Get"
  BY <1>1, Tables DEF Ends, answer
<1>2. CASE client = "Set"
  BY <1>2, Tables DEF Ends, answer
<1>3. CASE client = "Ping"
  BY <1>3, Tables DEF Ends, answer
<1>4. CASE client = "Digest"
  BY <1>4, Tables DEF Ends, answer
<1>5. CASE client = "QueryResources"
  BY <1>5, Tables DEF Ends, answer
<1>6. CASE client = "Exchange"
  BY <1>6, Tables DEF Ends, answer
<1>7. QED
  BY <1>1, <1>2, <1>3, <1>4, <1>5, <1>6, Tables

LEMMA Waits ==
  ASSUME NEW n \in Nat, NEW d \in Nat
  PROVE  d * ((n - 1) * (n + 2)) + 2 * ((n + 1) * d) = d * (n * (n + 3))
<1>1. (n - 1) * (n + 2) + 2 * (n + 1) = n * (n + 3)
  OBVIOUS
<1>2. 2 * ((n + 1) * d) = d * (2 * (n + 1))
  OBVIOUS
<1>3. d * ((n - 1) * (n + 2)) + d * (2 * (n + 1)) = d * ((n - 1) * (n + 2) + 2 * (n + 1))
  OBVIOUS
<1>4. QED
  BY <1>1, <1>2, <1>3

LEMMA WaitsMonotone ==
  ASSUME NEW m \in Nat, NEW n \in Nat, NEW d \in Nat, m <= n
  PROVE  d * (m * (m + 3)) <= d * (n * (n + 3))
<1>1. m * (m + 3) <= n * (n + 3)
  <2>1. m * (m + 3) <= n * (m + 3)
    OBVIOUS
  <2>2. n * (m + 3) <= n * (n + 3)
    OBVIOUS
  <2>3. m * (m + 3) \in Nat /\ n * (m + 3) \in Nat /\ n * (n + 3) \in Nat
    OBVIOUS
  <2>4. QED
    BY <2>1, <2>2, <2>3
<1>2. ASSUME NEW x \in Nat, NEW y \in Nat, x <= y
      PROVE  d * x <= d * y
  BY <1>2
<1>3. m * (m + 3) \in Nat /\ n * (n + 3) \in Nat
  OBVIOUS
<1>4. QED
  BY <1>1, <1>2, <1>3

\* Every state has the variables' types.
THEOREM TypeCorrect == Spec => []TypeOK
<1>1. Init => TypeOK
  BY DEF Init, TypeOK, Ends
<1>2. TypeOK /\ [Next]_vars => TypeOK'
  <2> SUFFICES ASSUME TypeOK, [Next]_vars
               PROVE  TypeOK'
    OBVIOUS
  <2> USE DEF TypeOK
  <2>1. CASE EnterLoop
    BY <2>1 DEF EnterLoop, Ends
  <2>2. CASE GiveUp
    BY <2>2 DEF GiveUp, Ends
  <2>3. CASE Act
    <3>1. PICK e \in Ends : ActionEnds(e)
      BY <2>3 DEF Act
    <3>2. runs' \in Seq(Ends)
      BY <3>1 DEF ActionEnds
    <3>3. Ends' = Ends
      BY <3>1 DEF ActionEnds, Ends
    <3>4. QED
      BY <3>1, <3>2, <3>3 DEF ActionEnds
  <2>4. CASE Sleep
    <3>1. (retryCount + 1) * duration \in Nat
      BY RetryAssumption
    <3>2. slept' \in Nat
      BY <2>4, <3>1 DEF Sleep
    <3>3. QED
      BY <2>4, <3>2 DEF Sleep, Ends
  <2>5. CASE UNCHANGED vars
    BY <2>5 DEF vars, Ends
  <2>6. QED
    BY <2>1, <2>2, <2>3, <2>4, <2>5 DEF Next
<1>3. QED
  BY <1>1, <1>2, PTL DEF Spec

LEMMA LoopInit ==
  ASSUME retryAttempts \in Nat
  PROVE  Init => CountingInv /\ HistoryInv /\ SleptInv
  BY RetryAssumption DEF Init, CountingInv, HistoryInv, SleptInv

LEMMA CountingNext ==
  ASSUME retryAttempts \in Nat, TypeOK, CountingInv, [Next]_vars
  PROVE  CountingInv'
<1> USE DEF TypeOK, CountingInv, Retried
<1>1. CASE EnterLoop
  BY <1>1 DEF EnterLoop
<1>2. CASE GiveUp
  BY <1>2 DEF GiveUp
<1>3. CASE Act
  <2>1. PICK e \in Ends : ActionEnds(e)
    BY <1>3 DEF Act
  <2>2. Len(runs') = Len(runs) + 1
    BY <2>1 DEF ActionEnds
  <2>3. QED
    BY <2>1, <2>2 DEF ActionEnds
<1>4. CASE Sleep
  BY <1>4 DEF Sleep
<1>5. CASE UNCHANGED vars
  BY <1>5 DEF vars
<1>6. QED
  BY <1>1, <1>2, <1>3, <1>4, <1>5 DEF Next

LEMMA HistoryNext ==
  ASSUME TypeOK, HistoryInv, [Next]_vars
  PROVE  HistoryInv'
<1> USE DEF TypeOK, HistoryInv, Retried
<1>1. CASE EnterLoop
  BY <1>1 DEF EnterLoop
<1>2. CASE GiveUp
  BY <1>2 DEF GiveUp
<1>3. CASE Act
  <2>1. PICK e \in Ends : ActionEnds(e)
    BY <1>3 DEF Act
  <2>2. /\ Len(runs') = Len(runs) + 1
        /\ runs'[Len(runs) + 1] = e
        /\ \A i \in 1..Len(runs) : runs'[i] = runs[i]
        /\ runs' # <<>>
    BY <2>1 DEF ActionEnds
  <2>3. \A i \in 1..Len(runs) : runs[i] \in Retried
    <3> SUFFICES ASSUME NEW i \in 1..Len(runs)
                 PROVE  runs[i] \in Retried
      OBVIOUS
    <3>1. CASE i = Len(runs)
      BY <2>1, <3>1 DEF ActionEnds
    <3>2. CASE i # Len(runs)
      BY <3>2
    <3>3. QED
      BY <3>1, <3>2
  <2>4. err' = e /\ client' = client
    BY <2>1 DEF ActionEnds
  <2>5. pc' = "sleep" => e \in Retried
    BY <2>1 DEF ActionEnds
  <2>6. pc' \in {"sleep", "returned"}
    BY <2>1 DEF ActionEnds
  <2>7. QED
    BY <2>2, <2>3, <2>4, <2>5, <2>6
<1>4. CASE Sleep
  BY <1>4 DEF Sleep
<1>5. CASE UNCHANGED vars
  BY <1>5 DEF vars
<1>6. QED
  BY <1>1, <1>2, <1>3, <1>4, <1>5 DEF Next

LEMMA SleptNext ==
  ASSUME TypeOK, SleptInv, [Next]_vars
  PROVE  SleptInv'
<1> USE DEF TypeOK, SleptInv
<1>1. CASE EnterLoop \/ GiveUp \/ Act \/ UNCHANGED vars
  BY <1>1 DEF EnterLoop, GiveUp, Act, ActionEnds, vars
<1>2. CASE Sleep
  <2>1. /\ retryCount' = retryCount + 1
        /\ slept' = slept + (retryCount + 1) * duration
    BY <1>2 DEF Sleep
  <2>2. retryCount \in Nat /\ duration \in Nat /\ slept \in Nat
    BY RetryAssumption
  <2>3. (retryCount + 1) * duration \in Nat
    BY <2>2
  <2>4. 2 * slept' = 2 * slept + 2 * ((retryCount + 1) * duration)
    BY <2>1, <2>2, <2>3
  <2>5. 2 * slept' = duration * (retryCount * (retryCount + 3))
    BY <2>2, <2>4, Waits
  <2>6. retryCount' - 1 = retryCount /\ retryCount' + 2 = retryCount + 3
    BY <2>1, <2>2
  <2>7. QED
    BY <1>2, <2>5, <2>6 DEF Sleep
<1>3. QED
  BY <1>1, <1>2 DEF Next

\* "RetryAttempts is the number of attempts that the request should be
\* executed": no client's action is run more often, nor less often while its
\* last error is one that is tried again.
THEOREM AttemptsExhausted ==
  ASSUME retryAttempts \in Nat
  PROVE  Spec => []Exhausted
<1>1. Init => CountingInv
  BY LoopInit
<1>2. TypeOK /\ CountingInv /\ [Next]_vars => CountingInv'
  BY CountingNext
<1>3. TypeOK /\ CountingInv => Exhausted
  BY DEF TypeOK, CountingInv, Exhausted, Retried
<1>4. QED
  BY <1>1, <1>2, <1>3, TypeCorrect, PTL DEF Spec

\* The waits of a call, which count against the time limit of its caller, come
\* to at most 2 + ... + (retryAttempts + 1) durations.
THEOREM WaitsAreBounded ==
  ASSUME retryAttempts \in Nat
  PROVE  Spec => []DelayBounded
<1>1. Init => CountingInv /\ SleptInv
  BY LoopInit
<1>2. TypeOK /\ CountingInv /\ SleptInv /\ [Next]_vars => CountingInv' /\ SleptInv'
  BY CountingNext, SleptNext
<1>3. TypeOK /\ CountingInv /\ SleptInv => DelayBounded
  <2> SUFFICES ASSUME TypeOK, CountingInv, SleptInv
               PROVE  DelayBounded
    OBVIOUS
  <2> DEFINE n == retryCount - 1
  <2>1. n \in Nat /\ n <= retryAttempts /\ duration \in Nat
    BY RetryAssumption DEF TypeOK, CountingInv
  <2>2. 2 * slept = duration * (n * (n + 3))
    <3>1. retryCount + 2 = n + 3
      BY DEF TypeOK
    <3>2. QED
      BY <3>1 DEF SleptInv
  <2>3. duration * (n * (n + 3)) <= duration * (retryAttempts * (retryAttempts + 3))
    BY <2>1, WaitsMonotone
  <2>4. QED
    BY <2>2, <2>3 DEF DelayBounded
<1>4. QED
  BY <1>1, <1>2, <1>3, TypeCorrect, PTL DEF Spec

\* A caller that is told of a missing key or registry, or of an image without
\* results, is told so by the last run; before it the network failed, or every
\* run found no results.
THEOREM LastRunTells ==
  ASSUME retryAttempts \in Nat
  PROVE  Spec => []AnswersTellTheLastRun
<1>1. Init => CountingInv /\ HistoryInv
  BY LoopInit
<1>2. TypeOK /\ CountingInv /\ HistoryInv /\ [Next]_vars => CountingInv' /\ HistoryInv'
  BY CountingNext, HistoryNext
<1>3. TypeOK /\ CountingInv /\ HistoryInv => AnswersTellTheLastRun
  <2> SUFFICES ASSUME TypeOK, CountingInv, HistoryInv, pc = "returned", runs # <<>>
               PROVE  /\ answer(client, err) = answer(client, runs[Len(runs)])
                      /\ answer(client, err) \in {"MissingKeyCacheError", "RegistryIsNotFoundErr"}
                           => \A i \in 1..(Len(runs) - 1) : runs[i] = "network"
                      /\ answer(client, err) = "no results" =>
                           Len(runs) = retryAttempts /\ \A i \in DOMAIN runs : runs[i] = "empty result"
    BY DEF AnswersTellTheLastRun
  <2>1. err = runs[Len(runs)] /\ err \in Ends /\ client \in DOMAIN actionErrors
    BY RetryAssumption DEF HistoryInv, TypeOK
  <2>2. ASSUME answer(client, err) \in {"MissingKeyCacheError", "RegistryIsNotFoundErr"}
        PROVE  \A i \in 1..(Len(runs) - 1) : runs[i] = "network"
    <3>1. client \in {"Get", "Exchange"}
      BY <2>1, <2>2, MissingAnswers
    <3>2. Retried = {"network"}
      BY <3>1, RetriedErrors DEF Retried
    <3>3. QED
      BY <3>2 DEF HistoryInv
  <2>3. ASSUME answer(client, err) = "no results"
        PROVE  Len(runs) = retryAttempts /\ \A i \in DOMAIN runs : runs[i] = "empty result"
    <3>1. client = "QueryResources" /\ err = "empty result"
      BY <2>1, <2>3, MissingAnswers
    <3>2. Retried = {"empty result"}
      BY <3>1, RetriedErrors DEF Retried
    <3>3. Len(runs) = retryAttempts
      BY <3>1, <3>2 DEF CountingInv
    <3>4. \A i \in 1..Len(runs) : runs[i] = "empty result"
      <4>1. Len(runs) \in Nat
        BY DEF TypeOK
      <4>2. runs[Len(runs)] = "empty result"
        BY <2>1, <3>1
      <4>3. \A i \in 1..(Len(runs) - 1) : runs[i] = "empty result"
        BY <3>2 DEF HistoryInv
      <4>4. \A n \in Nat : \A i \in 1..n : i = n \/ i \in 1..(n - 1)
        OBVIOUS
      <4>5. QED
        BY <4>1, <4>2, <4>3, <4>4
    <3>5. DOMAIN runs = 1..Len(runs)
      BY DEF TypeOK
    <3>6. QED
      BY <3>3, <3>4, <3>5
  <2>4. QED
    BY <2>1, <2>2, <2>3
<1>4. QED
  BY <1>1, <1>2, <1>3, TypeCorrect, PTL DEF Spec

-----------------------------------------------------------------------------
(* The pages of a query                                                    *)

ARGTypeOK ==
  /\ published \in Seq(Nat)
  /\ SkipToken \in Nat
  /\ totalResults \in Seq(Nat)

\* A run under way has fetched the records before its token; the token is back
\* at the first page whenever a run may start, since a run that leaves it
\* elsewhere ends the call.
PagesInv ==
  client = "QueryResources" =>
    /\ pc \in {"test", "sleep"} => SkipToken = NoToken
    /\ pc = "act" =>
         /\ SkipToken <= Len(published)
         /\ totalResults = SubSeq(published, 1, SkipToken)
    /\ pc = "returned" /\ runs # <<>> /\ err = "nil" =>
         totalResults = published /\ published # <<>>

LEMMA NextPage ==
  ASSUME NEW s \in Seq(Nat), NEW m \in 0..Len(s), NEW n \in m..Len(s)
  PROVE  SubSeq(s, 1, m) \o SubSeq(s, m + 1, n) = SubSeq(s, 1, n)
<1>1. Len(s) \in Nat
  OBVIOUS
<1>2. 1 \in 1..Len(s) + 1 /\ m \in 1 - 1..Len(s)
  BY <1>1
<1>3. QED
  BY <1>2, ConcatAdjacentSubSeq

LEMMA Records ==
  ASSUME NEW s \in Seq(Nat), NEW m \in Nat \ {0}, NEW n \in Nat, n <= Len(s)
  PROVE  SubSeq(s, m, n) \in Seq(Nat)
<1>1. \A i \in m..n : s[i] \in Nat
  OBVIOUS
<1>2. QED
  BY <1>1, SubSeqProperties

LEMMA PagesInit == ARGInit => ARGTypeOK /\ PagesInv
<1> SUFFICES ASSUME ARGInit
             PROVE  ARGTypeOK /\ PagesInv
  OBVIOUS
<1>1. <<>> \in Seq(Nat)
  OBVIOUS
<1>2. published \in Seq(Nat)
  BY <1>1, ARGAssumption DEF ARGInit
<1>3. QED
  BY <1>1, <1>2 DEF ARGInit, Init, ARGTypeOK, PagesInv, NoToken

\* A page never goes beyond the records.
LEMMA PageBounds ==
  ASSUME ARGTypeOK
  PROVE  /\ Len(published) \in Nat
         /\ pageSize \in Nat \ {0}
         /\ ~Complete => SkipToken + pageSize < Len(published)
  BY ARGAssumption DEF ARGTypeOK, Complete

LEMMA ARGTypeNext ==
  ASSUME ARGTypeOK, [ARGNext]_argVars
  PROVE  ARGTypeOK'
<1> USE DEF ARGTypeOK
<1>1. CASE Publish
  BY <1>1, ARGAssumption DEF Publish
<1>2. CASE StartRun
  BY <1>2 DEF StartRun
<1>3. CASE FetchPage
  <2>1. SubSeq(published, SkipToken + 1, SkipToken + pageSize) \in Seq(Nat)
    <3>1. /\ SkipToken + pageSize \in Nat
          /\ SkipToken + pageSize <= Len(published)
          /\ SkipToken + 1 \in Nat \ {0}
      BY <1>3, PageBounds DEF FetchPage
    <3>2. QED
      BY <3>1, Records
  <2>2. SkipToken + pageSize \in Nat
    BY PageBounds
  <2>3. QED
    BY <1>3, <2>1, <2>2 DEF FetchPage
<1>4. CASE FetchLastPage
  <2>1. SubSeq(published, SkipToken + 1, Len(published)) \in Seq(Nat)
    <3>1. Len(published) \in Nat /\ SkipToken + 1 \in Nat \ {0}
      BY PageBounds
    <3>2. QED
      BY <3>1, Records
  <2>2. totalResults' = totalResults \o SubSeq(published, SkipToken + 1, Len(published))
    BY <1>4 DEF FetchLastPage
  <2>3. SkipToken' = 0 /\ published' = published
    BY <1>4 DEF FetchLastPage, NoToken
  <2>4. QED
    BY <2>1, <2>2, <2>3
<1>5. CASE PageFails
  BY <1>5 DEF PageFails
<1>6. CASE PolicyStep
  BY <1>6 DEF PolicyStep
<1>7. CASE UNCHANGED argVars
  BY <1>7 DEF argVars
<1>8. QED
  BY <1>1, <1>2, <1>3, <1>4, <1>5, <1>6, <1>7 DEF ARGNext, Call

LEMMA PagesNext ==
  ASSUME ARGTypeOK, HistoryInv, PagesInv, [ARGNext]_argVars
  PROVE  PagesInv'
<1> SUFFICES ASSUME client' = "QueryResources"
             PROVE  PagesInv'
  BY DEF PagesInv
<1>0. client = "QueryResources"
  BY DEF ARGNext, Call, Publish, StartRun, FetchPage, FetchLastPage, PageFails,
         PolicyStep, EnterLoop, GiveUp, Sleep, Act, ActionEnds, argVars, vars
<1>1. CASE Publish
  <2>1. pc = "act" => SkipToken = 0
    BY <1>0, <1>1 DEF Publish, PagesInv, ARGTypeOK
  <2>2. Len(published') \in Nat
    BY <1>1, ARGAssumption DEF Publish
  <2>3. SubSeq(published', 1, 0) = <<>> /\ SubSeq(published, 1, 0) = <<>>
    BY SubSeqEmpty
  <2>4. QED
    BY <1>0, <1>1, <2>1, <2>2, <2>3 DEF Publish, PagesInv, vars, NoToken
<1>2. CASE StartRun
  <2>1. SkipToken = 0 /\ Len(published) \in Nat
    BY <1>0, <1>2, PageBounds DEF StartRun, EnterLoop, PagesInv, NoToken
  <2>2. SubSeq(published, 1, 0) = <<>>
    BY SubSeqEmpty
  <2>3. QED
    BY <1>2, <2>1, <2>2 DEF StartRun, EnterLoop, PagesInv
<1>3. CASE FetchPage
  <2>1. /\ SkipToken \in 0..Len(published)
        /\ SkipToken + pageSize \in SkipToken..Len(published)
    BY <1>0, <1>3, PageBounds DEF FetchPage, Fetching, PagesInv, ARGTypeOK
  <2>2. totalResults' = SubSeq(published, 1, SkipToken + pageSize)
    BY <1>0, <1>3, <2>1, NextPage DEF FetchPage, Fetching, PagesInv, ARGTypeOK
  <2>3. QED
    BY <1>3, <2>1, <2>2 DEF FetchPage, Fetching, PagesInv, vars
<1>4. CASE FetchLastPage
  <2>1. /\ SkipToken \in 0..Len(published)
        /\ Len(published) \in SkipToken..Len(published)
    <3>1. SkipToken <= Len(published)
      BY <1>0, <1>4 DEF FetchLastPage, Fetching, PagesInv
    <3>2. Len(published) \in Nat /\ SkipToken \in Nat
      BY PageBounds DEF ARGTypeOK
    <3>3. QED
      BY <3>1, <3>2
  <2>2. totalResults' = SubSeq(published, 1, Len(published))
    BY <1>0, <1>4, <2>1, NextPage DEF FetchLastPage, Fetching, PagesInv, ARGTypeOK
  <2>3. totalResults' = published
    BY <2>2, SubSeqFull DEF ARGTypeOK
  <2>4. pc' \in {"sleep", "returned"}
    BY <1>4 DEF FetchLastPage, ActionEnds
  <2>5. err' = "nil" => published # <<>>
    BY <1>4, <2>3 DEF FetchLastPage, ActionEnds
  <2>6. QED
    BY <1>4, <2>3, <2>4, <2>5 DEF FetchLastPage, PagesInv
<1>5. CASE PageFails
  <2>1. pc' = "returned" /\ err' = "network"
    BY <1>0, <1>5, RetriedErrors DEF PageFails, ActionEnds
  <2>2. QED
    BY <2>1 DEF PagesInv
<1>6. CASE PolicyStep
  <2>1. CASE GiveUp
    <3>1. runs # <<>> => err # "nil"
      BY <1>0, <2>1, RetriedErrors DEF GiveUp, HistoryInv, Retried
    <3>2. QED
      BY <1>0, <1>6, <2>1, <3>1 DEF GiveUp, PolicyStep, PagesInv
  <2>2. CASE Sleep
    BY <1>0, <1>6, <2>2 DEF Sleep, PolicyStep, PagesInv
  <2>3. QED
    BY <1>0, <1>6, <2>1, <2>2 DEF PolicyStep
<1>7. CASE UNCHANGED argVars
  BY <1>0, <1>7 DEF argVars, vars, PagesInv
<1>8. QED
  BY <1>1, <1>2, <1>3, <1>4, <1>5, <1>6, <1>7 DEF ARGNext, Call

\* With its pages in place, a query is still a call of the retry policy: what
\* is proved of the policy holds of it.
THEOREM QueryIsRetried == ARGSpec => Spec
<1>1. ARGInit => Init
  BY DEF ARGInit
<1>2. [ARGNext]_argVars => [Next]_vars
  <2> SUFFICES ASSUME ARGNext
               PROVE  Next \/ UNCHANGED vars
    BY DEF argVars
  <2>1. CASE Publish \/ FetchPage
    BY <2>1 DEF Publish, FetchPage
  <2>2. CASE StartRun \/ PolicyStep
    BY <2>2 DEF StartRun, PolicyStep, Next
  <2>3. CASE FetchLastPage \/ PageFails
    <3>1. {"empty result", "nil", "network"} \subseteq Ends
      BY <2>3, Tables DEF FetchLastPage, PageFails, Fetching, Ends
    <3>2. QED
      BY <2>3, <3>1 DEF FetchLastPage, PageFails, Act, Next
  <2>4. QED
    BY <2>1, <2>2, <2>3 DEF ARGNext, Call
<1>3. QED
  BY <1>1, <1>2, PTL DEF ARGSpec, Spec

\* The history of the runs, without an assumption on their number.
LEMMA HistoryAlways == Spec => [](TypeOK /\ HistoryInv)
<1>1. Init => HistoryInv
  BY DEF Init, HistoryInv
<1>2. TypeOK /\ HistoryInv /\ [Next]_vars => HistoryInv'
  BY HistoryNext
<1>3. QED
  BY <1>1, <1>2, TypeCorrect, PTL DEF Spec

LEMMA PagesAlways == ARGSpec => [](ARGTypeOK /\ PagesInv)
<1>1. ARGInit => ARGTypeOK /\ PagesInv
  BY PagesInit
<1>2. ARGTypeOK /\ HistoryInv /\ PagesInv /\ [ARGNext]_argVars => ARGTypeOK' /\ PagesInv'
  BY ARGTypeNext, PagesNext
<1>3. QED
  BY <1>1, <1>2, QueryIsRetried, HistoryAlways, PTL DEF ARGSpec

\* A query that succeeds returns all records of the image, once each and in
\* order, however many pages they take and however often it was run.
THEOREM AllRecordsOrNone == ARGSpec => []AllOrNothing
<1>1. PagesInv => AllOrNothing
  BY DEF PagesInv, AllOrNothing
<1>2. QED
  BY <1>1, PagesAlways, PTL

-----------------------------------------------------------------------------
(* Termination. That a call returns is an induction over time, beyond the  *)
(* provers; its premises are proved: what is left of a call becomes less   *)
(* at each step, by a well-founded order, and there is a step until the    *)
(* call returns.                                                           *)

\* The steps of the policy that are left: three for each attempt, and the last.
CallLeft ==
  IF pc = "returned" THEN 0
  ELSE 3 * (retryAttempts + 1 - retryCount)
         + (IF pc = "test" THEN 1 ELSE IF pc = "act" THEN 0 ELSE -1)

LEMMA CallLeftIsNat ==
  ASSUME retryAttempts \in Nat, TypeOK, CountingInv
  PROVE  CallLeft \in 0..(3 * retryAttempts + 1)
<1>1. retryCount \in Nat \ {0} /\ retryCount <= retryAttempts + 1
  BY DEF TypeOK, CountingInv
<1>2. pc \in {"act", "sleep"} => retryCount <= retryAttempts
  BY DEF CountingInv
<1>3. QED
  BY <1>1, <1>2 DEF CallLeft, TypeOK

LEMMA CallLeftDecreases ==
  ASSUME retryAttempts \in Nat, TypeOK, CountingInv, Next
  PROVE  CallLeft' < CallLeft
<1>1. /\ retryCount \in Nat \ {0} /\ retryCount <= retryAttempts + 1
      /\ pc \in {"act", "sleep"} => retryCount <= retryAttempts
  BY DEF TypeOK, CountingInv
<1>2. CASE EnterLoop
  BY <1>1, <1>2 DEF EnterLoop, CallLeft
<1>3. CASE GiveUp
  BY <1>1, <1>3 DEF GiveUp, CallLeft
<1>4. CASE Act
  <2>1. /\ pc = "act" /\ pc' \in {"sleep", "returned"}
        /\ retryCount' = retryCount
    BY <1>4 DEF Act, ActionEnds
  <2>2. QED
    BY <1>1, <2>1 DEF CallLeft
<1>5. CASE Sleep
  BY <1>1, <1>5 DEF Sleep, CallLeft
<1>6. QED
  BY <1>2, <1>3, <1>4, <1>5 DEF Next

LEMMA CountingAlways ==
  ASSUME retryAttempts \in Nat
  PROVE  Spec => []CountingInv
<1>1. Init => CountingInv
  BY LoopInit
<1>2. TypeOK /\ CountingInv /\ [Next]_vars => CountingInv'
  BY CountingNext
<1>3. QED
  BY <1>1, <1>2, TypeCorrect, PTL DEF Spec

\* A call of the policy takes at most 3 steps an attempt, and one more.
THEOREM CallsAreBounded ==
  ASSUME retryAttempts \in Nat
  PROVE  Spec => /\ [](CallLeft \in 0..(3 * retryAttempts + 1))
                 /\ [][CallLeft' < CallLeft]_vars
<1>1. TypeOK /\ CountingInv => CallLeft \in 0..(3 * retryAttempts + 1)
  BY CallLeftIsNat
<1>2. TypeOK /\ CountingInv /\ [Next]_vars => [CallLeft' < CallLeft]_vars
  BY CallLeftDecreases
<1>3. QED
  BY <1>1, <1>2, TypeCorrect, CountingAlways, PTL DEF Spec

\* What is left of a query: that its records appear, which they do once and at
\* any time; the steps of the policy; and the records its run has yet to fetch.
Unpublished == IF published = <<>> THEN 1 ELSE 0

RecordsLeft == IF Fetching THEN Len(published) - SkipToken ELSE 0

\* The lexicographic order of these three.
Less(u, c, r, v, d, s) == u < v \/ (u = v /\ (c < d \/ (c = d /\ r < s)))

LessLeft ==
  Less(Unpublished', CallLeft', RecordsLeft', Unpublished, CallLeft, RecordsLeft)

LEMMA LeftIsNat ==
  ASSUME retryAttempts \in Nat, TypeOK, CountingInv, ARGTypeOK, PagesInv
  PROVE  Unpublished \in Nat /\ CallLeft \in Nat /\ RecordsLeft \in Nat
<1>1. RecordsLeft \in Nat
  <2>1. CASE Fetching
    <3>1. SkipToken <= Len(published) /\ SkipToken \in Nat /\ Len(published) \in Nat
      BY <2>1 DEF Fetching, PagesInv, ARGTypeOK
    <3>2. QED
      BY <2>1, <3>1 DEF RecordsLeft
  <2>2. CASE ~Fetching
    BY <2>2 DEF RecordsLeft
  <2>3. QED
    BY <2>1, <2>2
<1>2. CallLeft \in Nat
  BY CallLeftIsNat
<1>3. QED
  BY <1>1, <1>2 DEF Unpublished

LEMMA ARGNextLeaves ==
  ASSUME retryAttempts \in Nat, TypeOK, CountingInv, ARGTypeOK, PagesInv, ARGNext
  PROVE  LessLeft
<1>1. CASE Publish
  <2>1. published = <<>> /\ published' # <<>>
    BY <1>1, ARGAssumption DEF Publish
  <2>2. QED
    BY <2>1 DEF LessLeft, Less, Unpublished
<1>2. CASE FetchPage
  <2>1. /\ SkipToken + pageSize < Len(published)
        /\ SkipToken \in Nat /\ pageSize \in Nat \ {0} /\ Len(published) \in Nat
    BY <1>2, PageBounds DEF FetchPage, ARGTypeOK
  <2>2. /\ SkipToken' = SkipToken + pageSize
        /\ published' = published /\ pc' = pc /\ client' = client
        /\ retryCount' = retryCount /\ Fetching
    BY <1>2 DEF FetchPage, vars
  <2>3. RecordsLeft' < RecordsLeft
    BY <2>1, <2>2 DEF RecordsLeft, Fetching
  <2>4. Unpublished' = Unpublished /\ CallLeft' = CallLeft
    BY <2>2 DEF Unpublished, CallLeft
  <2>5. QED
    BY <2>3, <2>4 DEF LessLeft, Less
<1>3. ASSUME Next, published' = published
      PROVE  LessLeft
  <2>1. CallLeft' < CallLeft
    BY <1>3, CallLeftDecreases
  <2>2. Unpublished' = Unpublished
    BY <1>3 DEF Unpublished
  <2>3. QED
    BY <2>1, <2>2 DEF LessLeft, Less
<1>4. CASE StartRun
  BY <1>3, <1>4 DEF StartRun, Next
<1>5. CASE FetchLastPage \/ PageFails
  <2>1. {"empty result", "nil", "network"} \subseteq Ends
    BY <1>5, Tables DEF FetchLastPage, PageFails, Fetching, Ends
  <2>2. QED
    BY <1>3, <1>5, <2>1 DEF FetchLastPage, PageFails, Act, Next
<1>6. CASE PolicyStep
  BY <1>3, <1>6 DEF PolicyStep, Next
<1>7. QED
  BY <1>1, <1>2, <1>4, <1>5, <1>6 DEF ARGNext, Call

\* Each step of a query leaves less of it, also when the records appear while
\* it is under way: it cannot go round its pages or its tries for ever.
THEOREM QueryNeverCircles ==
  ASSUME retryAttempts \in Nat
  PROVE  ARGSpec => [][LessLeft]_argVars
<1>1. TypeOK /\ CountingInv /\ ARGTypeOK /\ PagesInv /\ [ARGNext]_argVars
        => [LessLeft]_argVars
  BY ARGNextLeaves
<1>2. QED
  BY <1>1, QueryIsRetried, TypeCorrect, CountingAlways, PagesAlways, PTL DEF ARGSpec

\* The provers know nothing of ENABLED: that a call which has not returned has
\* a step is a hypothesis, which TLC evaluates. With it the fairness of
\* FairARGSpec says that such a call is not put off for ever.
CallEnabled == pc # "returned" => ENABLED <<Call>>_argVars

CallRuns == [](pc # "returned") => <><<Call>>_argVars

LEMMA FairnessSuffices == FairARGSpec /\ []CallEnabled => ARGSpec /\ []CallRuns
BY PTL DEF FairARGSpec, CallEnabled, CallRuns

\* Until a call returns, there comes a state with less of it left, wherever it
\* stands: there is no wait without an end, and the order is well-founded.
THEOREM CallsComeNearer ==
  ASSUME retryAttempts \in Nat, NEW u \in Nat, NEW c \in Nat, NEW r \in Nat
  PROVE  FairARGSpec /\ []CallEnabled =>
           ((pc # "returned" /\ Unpublished = u /\ CallLeft = c /\ RecordsLeft = r)
              ~> (pc = "returned" \/ Less(Unpublished, CallLeft, RecordsLeft, u, c, r)))
<1> DEFINE Under == pc # "returned"
           Ended == pc = "returned"
           Left == Unpublished = u /\ CallLeft = c /\ RecordsLeft = r
           Lesser == Less(Unpublished, CallLeft, RecordsLeft, u, c, r)
           Inv == TypeOK /\ CountingInv /\ ARGTypeOK /\ PagesInv
<1>1. Inv /\ [ARGNext]_argVars => (Left => Lesser' \/ Left')
  <2>1. Inv /\ ARGNext => (Left => Lesser')
    BY ARGNextLeaves DEF LessLeft
  <2>2. UNCHANGED argVars => (Left => Left')
    BY DEF argVars, vars, Unpublished, CallLeft, RecordsLeft, Fetching
  <2>3. QED
    BY <2>1, <2>2
<1>2. Inv /\ <<Call>>_argVars => (Left => Lesser')
  BY ARGNextLeaves DEF ARGNext, LessLeft
<1>3. []Inv /\ [][ARGNext]_argVars /\ []CallRuns => (Under /\ Left ~> Ended \/ Lesser)
  <2>1. Under \/ Ended
    OBVIOUS
  <2> HIDE DEF Inv, Ended, Left, Lesser
  <2>2. QED
    BY <1>1, <1>2, <2>1, PTL DEF CallRuns
<1>4. QED
  BY <1>3, FairnessSuffices, QueryIsRetried, TypeCorrect, CountingAlways, PagesAlways, PTL
  DEF ARGSpec
=============================================================================
