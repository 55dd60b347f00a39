----------------------- MODULE ARGDataProvider_proofs -----------------------
(***************************************************************************)
(* Theorems about ARGDataProvider, for every set of images, digests and    *)
(* calls, whatever the Resource Graph holds, and for all expiration times. *)
(***************************************************************************)
EXTENDS ARGDataProvider, TLAPS

\* What was read tells of the records that it was read from.
Sound(i) == i.status # "none" /\ i.status = statusOf(i.records)

\* An image of the digest has been scanned.
Scanned(d) == \E i \in Images : digestOf[i] = d /\ graph[i] # <<>>

Own(i, d) == i.records # <<>> => Scanned(d)

\* What is held, stored and answered: it was read from an image of the digest,
\* and will be dropped in time.
HeldInv ==
  \A c \in Holding :
    /\ Sound(info[c]) /\ Own(info[c], digest(c))
    /\ info[c].age <= MaxDelay

StoredInv ==
  \A d \in Digests :
    Stored(d) =>
      /\ Sound(entry[d].info) /\ Own(entry[d].info, d)
      /\ entry[d].left >= 1
      /\ entry[d].info.age + entry[d].left
           <= MaxDelay + expirationTime(entry[d].info.status)

AnsweredInv ==
  \A c \in Calls :
    answered[c] # NoInfo =>
      /\ Sound(answered[c]) /\ Own(answered[c], digest(c))
      /\ answered[c].age <= MaxDelay + expirationTime(answered[c].status)

IInv == HeldInv /\ StoredInv /\ AnsweredInv

-----------------------------------------------------------------------------
(* Constants and helpers                                                   *)

LEMMA ConstantTypes ==
  /\ digestOf \in [Images -> Digests]
  /\ MaxDelay \in Nat
  /\ \A status : expirationTime(status) \in Nat /\ expirationTime(status) >= 1
BY ProviderAssumption DEF expirationTime

LEMMA StatusTypes ==
  \A records : statusOf(records) \in {"unscanned", "healthyScan", "unhealthyScan"}
BY DEF statusOf

LEMMA InfoTypes ==
  /\ NoInfo \in InfoSet
  /\ [info |-> NoInfo, left |-> 0] \in [info : InfoSet, left : Nat]
  /\ NoInfo.records = <<>> /\ NoInfo.status = "none"
BY DEF NoInfo, InfoSet

-----------------------------------------------------------------------------
(* Types                                                                   *)

LEMMA TypesInit == ASSUME Init PROVE TypeOK
BY InfoTypes DEF Init, TypeOK, NoEntry

LEMMA TypesNext == ASSUME TypeOK, [Next]_vars PROVE TypeOK'
<1> USE DEF TypeOK, Goto, Answer, digest
<1>1. ASSUME NEW c \in Calls, NEW i \in Images, Call(c, i) PROVE TypeOK'
  BY <1>1, InfoTypes DEF Call
<1>2. ASSUME NEW c \in Calls, LookupHit(c) PROVE TypeOK'
  <2>1. entry[digest(c)].info \in InfoSet
    BY ConstantTypes
  <2> QED BY <1>2, <2>1 DEF LookupHit
<1>3. ASSUME NEW c \in Calls, LookupMiss(c) PROVE TypeOK'
  BY <1>3 DEF LookupMiss
<1>4. ASSUME NEW c \in Calls, Query(c) PROVE TypeOK'
  <2>1. Read(graph[image[c]]) \in InfoSet
    BY StatusTypes DEF Read, InfoSet
  <2> QED BY <1>4, <2>1 DEF Query
<1>5. ASSUME NEW c \in Calls, QueryFails(c) \/ SetFails(c) \/ Crash(c) PROVE TypeOK'
  BY <1>5, InfoTypes DEF QueryFails, SetFails, Crash, End
<1>6. ASSUME NEW c \in Calls, AnswerResults(c) PROVE TypeOK'
  BY <1>6 DEF AnswerResults
<1>7. ASSUME NEW c \in Calls, SetScanFindingsInCache(c) PROVE TypeOK'
  <2>1. entry' \in [Digests -> [info : InfoSet, left : Nat]]
    <3>1. [info |-> info[c], left |-> expirationTime(info[c].status)]
            \in [info : InfoSet, left : Nat]
      BY ConstantTypes
    <3> QED BY <1>7, <3>1 DEF SetScanFindingsInCache, Store
  <2>2. CASE End(c)
    BY <1>7, <2>1, <2>2, InfoTypes DEF SetScanFindingsInCache, End
  <2>3. CASE UNCHANGED <<pc, info>>
    BY <1>7, <2>1, <2>3 DEF SetScanFindingsInCache
  <2> QED BY <1>7, <2>2, <2>3 DEF SetScanFindingsInCache
<1>8. ASSUME NEW i \in Images, Scan(i) PROVE TypeOK'
  BY <1>8 DEF Scan
<1>9. ASSUME NEW d \in Digests, Evict(d) PROVE TypeOK'
  BY <1>9, InfoTypes DEF Evict, NoEntry
<1>10. ASSUME Tick PROVE TypeOK'
  <2>1. ASSUME NEW i \in InfoSet PROVE Older(i) \in InfoSet
    BY DEF Older, InfoSet
  <2>2. info' \in [Calls -> InfoSet]
    BY <1>10, <2>1, InfoTypes DEF Tick
  <2>3. entry' \in [Digests -> [info : InfoSet, left : Nat]]
    BY <1>10, <2>1, InfoTypes DEF Tick, NoEntry
  <2> QED BY <1>10, <2>2, <2>3 DEF Tick
<1>11. ASSUME UNCHANGED vars PROVE TypeOK'
  BY <1>11 DEF vars
<1> QED
  BY <1>1, <1>2, <1>3, <1>4, <1>5, <1>6, <1>7, <1>8, <1>9, <1>10, <1>11 DEF Next

-----------------------------------------------------------------------------
(* The invariant                                                           *)

LEMMA IInvInit == ASSUME Init PROVE IInv
BY DEF Init, IInv, HeldInv, StoredInv, AnsweredInv, Holding, Stored

(* What is true of the graph stays true: an image with records has some    *)
(* from then on.                                                           *)
ScannedThen(d) == \E i \in Images : digestOf[i] = d /\ graph'[i] # <<>>

LEMMA ScannedStays ==
  ASSUME TypeOK, [Next]_vars
  PROVE  \A d : Scanned(d) => ScannedThen(d)
<1> SUFFICES ASSUME NEW d, Scanned(d) PROVE ScannedThen(d)
  OBVIOUS
<1>1. PICK i \in Images : digestOf[i] = d /\ graph[i] # <<>>
  BY DEF Scanned
<1>2. graph'[i] # <<>>
  <2>1. ASSUME NEW j \in Images, Scan(j) PROVE graph'[i] # <<>>
    BY <1>1, <2>1 DEF Scan, TypeOK
  <2>2. ASSUME UNCHANGED graph PROVE graph'[i] # <<>>
    BY <1>1, <2>2
  <2> QED BY <2>1, <2>2 DEF Next, vars, Call, LookupHit, LookupMiss, Query, QueryFails,
        AnswerResults, SetScanFindingsInCache, SetFails, Crash, Evict, Tick
<1> QED BY <1>1, <1>2 DEF ScannedThen

LEMMA HeldNext ==
  ASSUME TypeOK, IInv, [Next]_vars
  PROVE  HeldInv'
<1> SUFFICES ASSUME NEW c \in Calls, pc'[c] \in {"reply", "set"}
             PROVE  /\ Sound(info'[c])
                    /\ info'[c].records # <<>> => ScannedThen(digestOf[image'[c]])
                    /\ info'[c].age <= MaxDelay
  BY DEF HeldInv, Holding, Own, digest, Sound, Scanned, ScannedThen
<1> USE DEF TypeOK, Goto
<1>0. ASSUME pc[c] \in {"reply", "set"}
      PROVE  /\ Sound(info[c]) /\ info[c].age <= MaxDelay
             /\ info[c].records # <<>> => ScannedThen(digestOf[image[c]])
  BY <1>0, ScannedStays DEF IInv, HeldInv, Holding, Own, digest
<1>1. CASE pc[c] \in {"reply", "set"} /\ info'[c] = info[c] /\ image'[c] = image[c]
  BY <1>0, <1>1
<1>2. CASE Query(c)
  <2>1. info'[c] = Read(graph[image[c]]) /\ UNCHANGED <<image, graph>>
    BY <1>2 DEF Query
  <2>2. Sound(info'[c]) /\ info'[c].age = 0
    BY <2>1, StatusTypes DEF Sound, Read
  <2>3. info'[c].records = graph'[image'[c]]
    BY <2>1 DEF Read
  <2> QED BY <2>1, <2>2, <2>3, ConstantTypes DEF ScannedThen
<1>3. CASE Tick
  <2>1. pc[c] \in {"reply", "set"} /\ UNCHANGED image
    BY <1>3 DEF Tick
  <2>2. info[c].age < MaxDelay /\ info'[c] = Older(info[c])
    BY <1>3, <2>1 DEF Tick, Holding
  <2>3. /\ info'[c].records = info[c].records /\ info'[c].status = info[c].status
        /\ info'[c].age = info[c].age + 1
    BY <2>2 DEF Older, InfoSet
  <2>4. info[c].age \in Nat
    BY DEF InfoSet
  <2>5. info[c].age + 1 <= MaxDelay
    BY ONLY <2>2, <2>4, ConstantTypes
  <2> QED BY <1>0, <2>1, <2>3, <2>5 DEF Sound
<1>4. ASSUME NEW b \in Calls,
             \/ \E i \in Images : Call(b, i)
             \/ LookupHit(b) \/ LookupMiss(b) \/ AnswerResults(b)
      PROVE  pc[c] \in {"reply", "set"} /\ info'[c] = info[c] /\ image'[c] = image[c]
  BY <1>4 DEF Call, LookupHit, LookupMiss, AnswerResults
<1>5. ASSUME NEW b \in Calls,
             QueryFails(b) \/ SetScanFindingsInCache(b) \/ SetFails(b) \/ Crash(b)
      PROVE  pc[c] \in {"reply", "set"} /\ info'[c] = info[c] /\ image'[c] = image[c]
  <2>1. UNCHANGED image /\ (End(b) \/ UNCHANGED <<pc, info>>)
    BY <1>5 DEF QueryFails, SetScanFindingsInCache, SetFails, Crash
  <2> QED BY <2>1 DEF End
<1>6. ASSUME NEW b \in Calls, Query(b), b # c
      PROVE  pc[c] \in {"reply", "set"} /\ info'[c] = info[c] /\ image'[c] = image[c]
  BY <1>6 DEF Query
<1>7. ASSUME \/ \E i \in Images : Scan(i)
             \/ \E d \in Digests : Evict(d)
             \/ UNCHANGED vars
      PROVE  pc[c] \in {"reply", "set"} /\ info'[c] = info[c] /\ image'[c] = image[c]
  BY <1>7 DEF Scan, Evict, vars
<1> QED BY <1>1, <1>2, <1>3, <1>4, <1>5, <1>6, <1>7 DEF Next

LEMMA StoredNext ==
  ASSUME TypeOK, IInv, [Next]_vars
  PROVE  StoredInv'
<1> DEFINE Kept(d) == Sound(entry'[d].info)
                      /\ (entry'[d].info.records # <<>> => ScannedThen(d))
                      /\ entry'[d].left >= 1
                      /\ entry'[d].info.age + entry'[d].left
                           <= MaxDelay + expirationTime(entry'[d].info.status)
<1> SUFFICES ASSUME NEW d \in Digests, entry'[d] # NoEntry PROVE Kept(d)
  BY DEF StoredInv, Stored, Own, NoEntry, NoInfo, Sound, expirationTime,
         Scanned, ScannedThen
<1> USE DEF TypeOK
<1>0. ASSUME entry[d] # NoEntry
      PROVE  /\ Sound(entry[d].info)
             /\ entry[d].info.records # <<>> => ScannedThen(d)
             /\ entry[d].left >= 1
             /\ entry[d].info.age + entry[d].left
                  <= MaxDelay + expirationTime(entry[d].info.status)
  BY <1>0, ScannedStays DEF IInv, StoredInv, Stored, Own
<1>1. CASE entry'[d] = entry[d]
  BY <1>0, <1>1
<1>2. ASSUME NEW c \in Calls, SetScanFindingsInCache(c), entry'[d] # entry[d]
      PROVE  Kept(d)
  <2>1. /\ d = digestOf[image[c]]
        /\ entry'[d] = [info |-> info[c], left |-> expirationTime(info[c].status)]
    BY <1>2 DEF SetScanFindingsInCache, Store, digest
  <2>2. /\ Sound(info[c]) /\ info[c].age <= MaxDelay
        /\ info[c].records # <<>> => ScannedThen(d)
    BY <1>2, <2>1, ScannedStays
       DEF SetScanFindingsInCache, IInv, HeldInv, Holding, Own, digest
  <2>3. info[c].age \in Nat
    BY DEF InfoSet
  <2>4. /\ expirationTime(info[c].status) \in Nat
        /\ expirationTime(info[c].status) >= 1
    BY ConstantTypes
  <2>5. info[c].age + expirationTime(info[c].status)
          <= MaxDelay + expirationTime(info[c].status)
    BY ONLY <2>2, <2>3, <2>4, ConstantTypes
  <2> QED BY <2>1, <2>2, <2>4, <2>5
<1>3. ASSUME Tick PROVE Kept(d)
  <2>1. /\ ~(entry[d].left <= 1)
        /\ entry'[d] = [info |-> Older(entry[d].info), left |-> entry[d].left - 1]
    BY <1>3 DEF Tick
  <2>2. entry[d] # NoEntry
    BY <2>1 DEF NoEntry
  <2>3. entry[d].info \in InfoSet /\ entry[d].left \in Nat
    OBVIOUS
  <2>4. /\ entry'[d].info.records = entry[d].info.records
        /\ entry'[d].info.status = entry[d].info.status
        /\ entry'[d].info.age = entry[d].info.age + 1
        /\ entry'[d].left = entry[d].left - 1
        /\ entry[d].info.age \in Nat
    BY <2>1, <2>3 DEF Older, InfoSet
  <2>5. expirationTime(entry[d].info.status) \in Nat
    BY ConstantTypes
  <2>6. /\ entry'[d].left >= 1
        /\ entry'[d].info.age + entry'[d].left
             <= MaxDelay + expirationTime(entry[d].info.status)
    <3>1. entry[d].info.age + entry[d].left
            <= MaxDelay + expirationTime(entry[d].info.status)
      BY <1>0, <2>2
    <3> QED BY ONLY <2>1, <2>3, <2>4, <2>5, <3>1, ConstantTypes
  <2> QED BY <1>0, <2>2, <2>4, <2>6 DEF Sound
<1>4. ASSUME NEW b \in Digests, Evict(b) PROVE entry'[d] = entry[d]
  BY <1>4 DEF Evict
<1>5. ASSUME UNCHANGED entry PROVE Kept(d)
  BY <1>1, <1>5
<1> HIDE DEF Kept
<1> QED
  BY <1>1, <1>2, <1>3, <1>4, <1>5 DEF Next, vars, Call, LookupHit, LookupMiss, Query,
     QueryFails, AnswerResults, SetFails, Crash, Scan

LEMMA AnsweredNext ==
  ASSUME TypeOK, IInv, [Next]_vars
  PROVE  AnsweredInv'
<1> DEFINE Good(c) == Sound(answered'[c])
                      /\ (answered'[c].records # <<>> => ScannedThen(digestOf[image'[c]]))
                      /\ answered'[c].age
                           <= MaxDelay + expirationTime(answered'[c].status)
<1> SUFFICES ASSUME NEW c \in Calls, answered'[c] # NoInfo PROVE Good(c)
  BY DEF AnsweredInv, Own, NoInfo, Sound, digest, expirationTime,
         Scanned, ScannedThen
<1> USE DEF TypeOK
<1>1. ASSUME answered'[c] = answered[c], image'[c] = image[c] PROVE Good(c)
  BY <1>1, ScannedStays DEF IInv, AnsweredInv, Own, digest
<1>2. ASSUME LookupHit(c) PROVE Good(c)
  <2> DEFINE d == digestOf[image[c]]
  <2>1. /\ entry[d] # NoEntry
        /\ answered'[c] = entry[d].info
        /\ UNCHANGED image
    BY <1>2 DEF LookupHit, Answer, Stored, digest
  <2>2. d \in Digests
    BY ConstantTypes
  <2>3. /\ Sound(entry[d].info)
        /\ entry[d].info.records # <<>> => ScannedThen(d)
        /\ entry[d].left >= 1
        /\ entry[d].info.age + entry[d].left
             <= MaxDelay + expirationTime(entry[d].info.status)
    BY <2>1, <2>2, ScannedStays DEF IInv, StoredInv, Stored, Own
  <2>4. /\ entry[d].info.age \in Nat /\ entry[d].left \in Nat
        /\ expirationTime(entry[d].info.status) \in Nat
    BY <2>2, ConstantTypes DEF InfoSet
  <2>5. entry[d].info.age <= MaxDelay + expirationTime(entry[d].info.status)
    BY ONLY <2>3, <2>4, ConstantTypes
  <2> QED BY <2>1, <2>3, <2>5
<1>3. ASSUME AnswerResults(c) PROVE Good(c)
  <2>1. pc[c] = "reply" /\ answered'[c] = info[c] /\ UNCHANGED image
    BY <1>3 DEF AnswerResults, Answer
  <2>2. /\ Sound(info[c]) /\ info[c].age <= MaxDelay
        /\ info[c].records # <<>> => ScannedThen(digestOf[image[c]])
    BY <2>1, ScannedStays DEF IInv, HeldInv, Holding, Own, digest
  <2>3. info[c].age \in Nat /\ expirationTime(info[c].status) \in Nat
    BY ConstantTypes DEF InfoSet
  <2>4. info[c].age <= MaxDelay + expirationTime(info[c].status)
    BY ONLY <2>2, <2>3, ConstantTypes
  <2> QED BY <2>1, <2>2, <2>4
<1>4. ASSUME NEW b \in Calls, LookupHit(b) \/ AnswerResults(b), b # c
      PROVE  answered'[c] = answered[c] /\ image'[c] = image[c]
  BY <1>4 DEF LookupHit, AnswerResults, Answer
<1>5. ASSUME NEW b \in Calls, NEW i \in Images, Call(b, i)
      PROVE  answered'[c] = answered[c] /\ image'[c] = image[c]
  BY <1>5 DEF Call, Answer
<1>6. ASSUME UNCHANGED <<answered, image>> PROVE Good(c)
  BY <1>1, <1>6
<1> HIDE DEF Good
<1> QED
  BY <1>1, <1>2, <1>3, <1>4, <1>5, <1>6 DEF Next, vars, LookupMiss, Query, QueryFails,
     SetScanFindingsInCache, SetFails, Crash, Scan, Evict, Tick

-----------------------------------------------------------------------------
(* Theorems                                                                *)

(* Every state has its types. *)
THEOREM TypeCorrect == Spec => []TypeOK
<1>1. Init => TypeOK
  BY TypesInit
<1>2. TypeOK /\ [Next]_vars => TypeOK'
  BY TypesNext
<1> QED BY <1>1, <1>2, PTL DEF Spec

LEMMA IInvAlways == Spec => [](TypeOK /\ IInv)
<1>1. Init => IInv
  BY IInvInit
<1>2. TypeOK /\ IInv /\ [Next]_vars => IInv'
  BY HeldNext, StoredNext, AnsweredNext DEF IInv
<1> QED BY <1>1, <1>2, TypeCorrect, PTL DEF Spec

(* Whoever read the records and stored them, an answer tells of them what  *)
(* they say.                                                               *)
THEOREM RecordsTold == Spec => []AnswersTellTheRecords
<1>1. TypeOK /\ IInv => AnswersTellTheRecords
  <2> SUFFICES ASSUME TypeOK, IInv, NEW i \in Results
               PROVE  /\ i.status = "unscanned" <=> i.records = <<>>
                      /\ i.status = "healthyScan" =>
                           \A n \in DOMAIN i.records : i.records[n] # "Finding"
    BY DEF AnswersTellTheRecords
  <2>1. i.status = statusOf(i.records)
    BY DEF Results, IInv, AnsweredInv, Sound
  <2>2. ASSUME i.records = <<"Healthy">>
        PROVE  \A n \in DOMAIN i.records : i.records[n] # "Finding"
    BY <2>2
  <2>3. i.status = "unscanned" <=> i.records = <<>>
    BY <2>1 DEF statusOf
  <2>4. i.status = "healthyScan" => i.records = <<"Healthy">>
    BY <2>1 DEF statusOf
  <2> QED BY <2>2, <2>3, <2>4
<1> QED BY <1>1, IInvAlways, PTL

(* No answer is older than its expiration time and the delay of the call   *)
(* that read it.                                                           *)
THEOREM AnswersAreFresh == Spec => []FreshEnough
<1>1. TypeOK /\ IInv => FreshEnough
  BY DEF IInv, AnsweredInv, FreshEnough, Results, expirationTime
<1> QED BY <1>1, IInvAlways, PTL

(* No answer has records where no image of the digest has any.             *)
THEOREM RecordsOfTheDigest == Spec => []NoForeignRecords
<1>1. TypeOK /\ IInv => NoForeignRecords
  BY InfoTypes DEF IInv, AnsweredInv, NoForeignRecords, Own, Scanned
<1> QED BY <1>1, IInvAlways, PTL

-----------------------------------------------------------------------------
(* A call returns: the goroutines of a scan wait for it (ContainerScan).   *)

(* Fairness is stated by the guard of a step, which is what weak fairness  *)
(* comes to where the guard enables the step.                              *)
LEMMA WeakFairness ==
  ASSUME STATE G, STATE f, ACTION A
  PROVE  [](G => ENABLED <<A>>_f) /\ WF_f(A) => []([]G => <><<A>>_f)
BY PTL

AskStep(c) ==
  \/ LookupHit(c)
  \/ LookupMiss(c)
  \/ Query(c)
  \/ QueryFails(c)
  \/ AnswerResults(c)
  \/ Crash(c)

Asking(c) == pc[c] \in {"lookup", "query", "reply"}

\* Redis and the Resource Graph answer, with an error if need be.
AskRuns(c) == []Asking(c) => <><<AskStep(c)>>_vars

LEMMA Forward ==
  ASSUME TypeOK, NEW c \in Calls, [Next]_vars
  PROVE  /\ pc[c] = "lookup" => pc'[c] \in {"lookup", "query", "idle"}
         /\ pc[c] = "query" => pc'[c] \in {"query", "reply", "idle"}
         /\ pc[c] = "reply" => pc'[c] \in {"reply", "set", "idle"}
<1> USE DEF TypeOK, Goto, End
<1>1. ASSUME NEW d \in Calls, NEW i \in Images, Call(d, i)
      PROVE  pc[c] # "idle" => pc'[c] = pc[c]
  BY <1>1 DEF Call
<1>2. ASSUME NEW d \in Calls, LookupHit(d) \/ LookupMiss(d) \/ Query(d) \/ QueryFails(d)
               \/ AnswerResults(d) \/ SetScanFindingsInCache(d) \/ SetFails(d) \/ Crash(d)
      PROVE  \/ pc'[c] \in {pc[c], "idle"}
             \/ pc[c] = "lookup" /\ pc'[c] = "query"
             \/ pc[c] = "query" /\ pc'[c] = "reply"
             \/ pc[c] = "reply" /\ pc'[c] = "set"
  BY <1>2 DEF LookupHit, LookupMiss, Query, QueryFails, AnswerResults,
     SetScanFindingsInCache, SetFails, Crash
<1>3. CASE (\E i \in Images : Scan(i)) \/ (\E d \in Digests : Evict(d)) \/ Tick
             \/ UNCHANGED vars
  BY <1>3 DEF Scan, Evict, Tick, vars
<1> QED BY <1>1, <1>2, <1>3 DEF Next

LEMMA AskMoves ==
  ASSUME TypeOK, NEW c \in Calls, Asking(c), AskStep(c)
  PROVE  pc'[c] # pc[c]
BY DEF TypeOK, Asking, AskStep, LookupHit, LookupMiss, Query, QueryFails,
   AnswerResults, Crash, Goto, End

(* Whatever other calls store and scans add meanwhile, a call that asks    *)
(* returns.                                                                *)
THEOREM AskReturns ==
  ASSUME NEW c \in Calls
  PROVE  Spec /\ []AskRuns(c) => (pc[c] = "lookup" ~> pc[c] \in {"idle", "set"})
<1> DEFINE Lookup == pc[c] = "lookup"
           Queries == pc[c] = "query"
           Reply == pc[c] = "reply"
           Returned == pc[c] \in {"idle", "set"}
<1>1. TypeOK /\ [Next]_vars =>
        /\ Lookup => (Lookup \/ Queries \/ Returned)'
        /\ Queries => (Queries \/ Reply \/ Returned)'
        /\ Reply => (Reply \/ Returned)'
  BY Forward
<1>2. TypeOK /\ <<AskStep(c)>>_vars =>
        /\ Lookup => ~Lookup'
        /\ Queries => ~Queries'
        /\ Reply => ~Reply'
  BY AskMoves DEF Asking
<1>3. Lookup \/ Queries \/ Reply => Asking(c)
  BY DEF Asking
<1> QED BY <1>1, <1>2, <1>3, TypeCorrect, PTL DEF Spec, AskRuns
=============================================================================
