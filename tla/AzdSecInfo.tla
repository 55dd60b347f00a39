----------------------------- MODULE AzdSecInfo -----------------------------
(***************************************************************************)
(* AzdSecInfoProvider and its cache client (pkg/azdsecinfo): how admission *)
(* requests, handled at the same time by several replicas of the webhook,  *)
(* obtain the scan results of their pod spec within a time limit, and how  *)
(* they share, through redis, the results and the number of timeouts that  *)
(* a pod spec has already met.                                             *)
(*                                                                         *)
(* Every request has one handler (GetContainersVulnerabilityScanInfo) and  *)
(* up to three goroutines that outlive its answer: the worker that fetches *)
(* the results and sends them to the handler's channel, the setter that    *)
(* stores them in redis, and the resetter that clears the timeout status.  *)
(* Each redis command is one step; everything between two commands is      *)
(* local to a request and belongs to the step of the first.                *)
(***************************************************************************)
EXTENDS Integers, FiniteSets

CONSTANTS
  Requests,       \* the admission requests
  Keys,           \* pod specs, as GetPodSpecCacheKey tells them apart
  KeyOf,          \* the pod spec of each request
  Replicas,       \* the webhook processes that share one redis
  ReplicaOf,      \* the process that serves each request
  Threshold,      \* _numberOfTimeOutEncounteredThreshold
  MaxConcurrent,  \* environment: requests of one pod spec handled at a time
  RedisMayFail,   \* environment: a redis command may return an error
  MayCrash,       \* environment: a replica may crash
  Missing         \* redis holds no entry

ASSUME ConstantsAssumption ==
  /\ IsFiniteSet(Requests)
  /\ KeyOf \in [Requests -> Keys]
  /\ ReplicaOf \in [Requests -> Replicas]
  /\ Threshold \in Nat \ {0}
  /\ MaxConcurrent \in Nat \ {0}
  /\ RedisMayFail \in BOOLEAN
  /\ MayCrash \in BOOLEAN
  /\ Missing \notin Nat
  /\ Missing \notin {"infos", "error"}

VARIABLES
  pc,        \* where the handler of each request stands
  timeouts,  \* the handler's local timeoutStatus
  response,  \* what the handler returned
  worker,    \* goroutine getContainersVulnerabilityScanInfoSyncWrapper
  result,    \* what the worker computed
  buffer,    \* the one slot of chanTimeout
  closed,    \* whether chanTimeout is closed
  setter,    \* goroutine that stores the worker's result in redis
  resetter,  \* goroutine that resets the timeout status in redis
  scan,      \* redis: "ContainerVulnerabilityScanInfo" + key
  status     \* redis: "timeout" + key

handler == <<pc, timeouts, response>>
channel == <<buffer, closed>>
redis == <<scan, status>>
vars == <<pc, timeouts, response, worker, result, buffer, closed, setter,
          resetter, scan, status>>

Outcomes == {"infos", "error"}
Active == {"lookup", "select", "getStatus", "setStatus"}

\* "unscanned" makes Gatekeeper block the pod, "infos" lets it decide on the
\* scan results, and the errors never block.
Responses == {"none", "infos", "storedError", "scanError", "unscanned",
              "timeoutError", "cacheError"}

TypeOK ==
  /\ pc \in [Requests -> Active \cup {"idle", "done", "lost"}]
  /\ timeouts \in [Requests -> Nat]
  /\ response \in [Requests -> Responses]
  /\ worker \in [Requests -> {"none", "running", "sending", "finished", "lost"}]
  /\ result \in [Requests -> Outcomes \cup {"none"}]
  /\ buffer \in [Requests -> Outcomes \cup {"none"}]
  /\ closed \in [Requests -> BOOLEAN]
  /\ setter \in [Requests -> {"none", "set", "finished", "lost"}]
  /\ resetter \in [Requests -> {"none", "get", "set", "finished", "lost"}]
  /\ scan \in [Keys -> Outcomes \cup {Missing}]
  /\ status \in [Keys -> Nat \cup {Missing}]

Init ==
  /\ pc = [r \in Requests |-> "idle"]
  /\ timeouts = [r \in Requests |-> 0]
  /\ response = [r \in Requests |-> "none"]
  /\ worker = [r \in Requests |-> "none"]
  /\ result = [r \in Requests |-> "none"]
  /\ buffer = [r \in Requests |-> "none"]
  /\ closed = [r \in Requests |-> FALSE]
  /\ setter = [r \in Requests |-> "none"]
  /\ resetter = [r \in Requests |-> "none"]
  /\ scan = [k \in Keys |-> Missing]
  /\ status = [k \in Keys |-> Missing]

-----------------------------------------------------------------------------
(* The handler                                                             *)

GoTo(r, label) == pc' = [pc EXCEPT ![r] = label]

Answer(r, answer) ==
  /\ GoTo(r, "done")
  /\ response' = [response EXCEPT ![r] = answer]

InHandling(k) == {q \in Requests : KeyOf[q] = k /\ pc[q] \in Active}

Arrive(r) ==
  /\ pc[r] = "idle"
  /\ Cardinality(InHandling(KeyOf[r])) < MaxConcurrent
  /\ GoTo(r, "lookup")
  /\ UNCHANGED <<timeouts, response, worker, result, channel, setter,
                 resetter, redis>>

\* Defect: the stored error is not looked at.
LookupHitAnyEntry(r) ==
  /\ pc[r] = "lookup"
  /\ scan[KeyOf[r]] # Missing
  /\ Answer(r, "infos")
  /\ UNCHANGED <<timeouts, worker, result, channel, setter, resetter, redis>>

\* getErrorStoredInCache: the error comes back as one with the same message.
AnswerStored(entry) == IF entry = "infos" THEN "infos" ELSE "storedError"

\* An answer stored by an earlier request, its results or its error.
LookupHit(r) ==
  /\ pc[r] = "lookup"
  /\ scan[KeyOf[r]] # Missing
  /\ Answer(r, AnswerStored(scan[KeyOf[r]]))
  /\ UNCHANGED <<timeouts, worker, result, channel, setter, resetter, redis>>

\* No entry, a redis error, or a value that does not parse: start a worker.
LookupMiss(r) ==
  /\ pc[r] = "lookup"
  /\ scan[KeyOf[r]] = Missing \/ RedisMayFail
  /\ GoTo(r, "select")
  /\ worker' = [worker EXCEPT ![r] = "running"]
  /\ UNCHANGED <<timeouts, response, result, channel, setter, resetter, redis>>

\* Defect: the channel's value is returned without a look at its error.
ReceiveResultUnchecked(r) ==
  /\ pc[r] = "select"
  /\ buffer[r] \in Outcomes
  /\ buffer' = [buffer EXCEPT ![r] = "none"]
  /\ Answer(r, buffer[r])
  /\ UNCHANGED <<timeouts, worker, result, closed, setter, resetter, redis>>

\* extractContainersVulnerabilityScanInfoFromChannelData
Extracted(outcome) == IF outcome = "infos" THEN "infos" ELSE "scanError"

\* Defect: the timeout status is left alone.
ReceiveResultNotResetting(r) ==
  /\ pc[r] = "select"
  /\ buffer[r] \in Outcomes
  /\ buffer' = [buffer EXCEPT ![r] = "none"]
  /\ Answer(r, Extracted(buffer[r]))
  /\ closed' = [closed EXCEPT ![r] = buffer[r] = "infos"]
  /\ UNCHANGED <<timeouts, worker, result, setter, resetter, redis>>

\* select: the worker's result is there.
ReceiveResult(r) ==
  /\ pc[r] = "select"
  /\ buffer[r] \in Outcomes
  /\ buffer' = [buffer EXCEPT ![r] = "none"]
  /\ Answer(r, Extracted(buffer[r]))
  /\ \/ /\ buffer[r] = "infos"
        /\ resetter' = [resetter EXCEPT ![r] = "get"]
        /\ closed' = [closed EXCEPT ![r] = TRUE]
     \/ /\ buffer[r] = "error"
        /\ UNCHANGED <<resetter, closed>>
  /\ UNCHANGED <<timeouts, worker, result, setter, redis>>

\* Defect: the timeout path closes the channel, as the other one does.
TimeoutClosing(r) ==
  /\ pc[r] = "select"
  /\ GoTo(r, "getStatus")
  /\ closed' = [closed EXCEPT ![r] = TRUE]
  /\ UNCHANGED <<timeouts, response, worker, result, buffer, setter, resetter,
                 redis>>

\* Defect: the time limit is only looked at once the worker has finished.
TimeoutAfterWorker(r) ==
  /\ pc[r] = "select"
  /\ worker[r] = "finished"
  /\ GoTo(r, "getStatus")
  /\ UNCHANGED <<timeouts, response, worker, result, channel, setter,
                 resetter, redis>>

\* select: time.After fires; with both cases ready Go picks either.
Timeout(r) ==
  /\ pc[r] = "select"
  /\ GoTo(r, "getStatus")
  /\ UNCHANGED <<timeouts, response, worker, result, channel, setter,
                 resetter, redis>>

\* A missing entry reads as _noTimeOutEncountered.
TimeOutStatus(k) == IF status[k] = Missing THEN 0 ELSE status[k]

\* Defect: the test comes before the increment.
GetTimeOutStatusTestFirst(r) ==
  /\ pc[r] = "getStatus"
  /\ \/ /\ TimeOutStatus(KeyOf[r]) = Threshold
        /\ Answer(r, "timeoutError")
        /\ UNCHANGED timeouts
     \/ /\ TimeOutStatus(KeyOf[r]) # Threshold
        /\ GoTo(r, "setStatus")
        /\ timeouts' = [timeouts EXCEPT ![r] = TimeOutStatus(KeyOf[r]) + 1]
        /\ UNCHANGED response
  /\ UNCHANGED <<worker, result, channel, setter, resetter, redis>>

\* Defect: one timeout too few blocks.
GetTimeOutStatusGivingUpEarly(r) ==
  /\ pc[r] = "getStatus"
  /\ \/ /\ TimeOutStatus(KeyOf[r]) + 2 >= Threshold
        /\ Answer(r, "timeoutError")
        /\ UNCHANGED timeouts
     \/ /\ TimeOutStatus(KeyOf[r]) + 2 < Threshold
        /\ GoTo(r, "setStatus")
        /\ timeouts' = [timeouts EXCEPT ![r] = TimeOutStatus(KeyOf[r]) + 1]
        /\ UNCHANGED response
  /\ UNCHANGED <<worker, result, channel, setter, resetter, redis>>

GetTimeOutStatus(r) ==
  /\ pc[r] = "getStatus"
  /\ LET timeoutStatus == TimeOutStatus(KeyOf[r]) + 1
     IN \/ /\ timeoutStatus = Threshold
           /\ Answer(r, "timeoutError")
           /\ UNCHANGED timeouts
        \/ /\ timeoutStatus # Threshold
           /\ GoTo(r, "setStatus")
           /\ timeouts' = [timeouts EXCEPT ![r] = timeoutStatus]
           /\ UNCHANGED response
  /\ UNCHANGED <<worker, result, channel, setter, resetter, redis>>

SetTimeOutStatus(r) ==
  /\ pc[r] = "setStatus"
  /\ status' = [status EXCEPT ![KeyOf[r]] = timeouts[r]]
  /\ Answer(r, "unscanned")
  /\ UNCHANGED <<timeouts, worker, result, channel, setter, resetter, scan>>

\* Defect: the request is blocked although its timeout could not be counted.
TimeOutStatusFailsBlocking(r) ==
  /\ RedisMayFail
  /\ pc[r] \in {"getStatus", "setStatus"}
  /\ Answer(r, "unscanned")
  /\ UNCHANGED <<timeouts, worker, result, channel, setter, resetter, redis>>

\* Either command fails for good: do not block the request.
TimeOutStatusFails(r) ==
  /\ RedisMayFail
  /\ pc[r] \in {"getStatus", "setStatus"}
  /\ Answer(r, "cacheError")
  /\ UNCHANGED <<timeouts, worker, result, channel, setter, resetter, redis>>

\* Redis ran the command and its reply was lost: the retry policy runs it again.
SetTimeOutStatusAgain(r) ==
  /\ RedisMayFail
  /\ pc[r] = "setStatus"
  /\ status' = [status EXCEPT ![KeyOf[r]] = timeouts[r]]
  /\ UNCHANGED <<handler, worker, result, channel, setter, resetter, scan>>

-----------------------------------------------------------------------------
(* The goroutines                                                          *)

\* Defect: results are stored by the handler, which may have given up.
ComputeStoringInTime(r) ==
  /\ worker[r] = "running"
  /\ \E outcome \in Outcomes : result' = [result EXCEPT ![r] = outcome]
  /\ worker' = [worker EXCEPT ![r] = "sending"]
  /\ setter' = [setter EXCEPT ![r] = IF pc[r] = "select" THEN "set" ELSE "none"]
  /\ UNCHANGED <<handler, channel, resetter, redis>>

Compute(r) ==
  /\ worker[r] = "running"
  /\ \E outcome \in Outcomes : result' = [result EXCEPT ![r] = outcome]
  /\ worker' = [worker EXCEPT ![r] = "sending"]
  /\ setter' = [setter EXCEPT ![r] = "set"]
  /\ UNCHANGED <<handler, channel, resetter, redis>>

\* Defect: an unbuffered channel, the send waits for a receiver.
SendResultUnbuffered(r) ==
  /\ worker[r] = "sending"
  /\ buffer[r] = "none"
  /\ pc[r] = "select"
  /\ buffer' = [buffer EXCEPT ![r] = result[r]]
  /\ worker' = [worker EXCEPT ![r] = "finished"]
  /\ UNCHANGED <<handler, result, closed, setter, resetter, redis>>

\* The channel holds one value: the send waits only for a full buffer.
SendResult(r) ==
  /\ worker[r] = "sending"
  /\ buffer[r] = "none"
  /\ buffer' = [buffer EXCEPT ![r] = result[r]]
  /\ worker' = [worker EXCEPT ![r] = "finished"]
  /\ UNCHANGED <<handler, result, closed, setter, resetter, redis>>

StoreResult(r) ==
  /\ setter[r] = "set"
  /\ setter' = [setter EXCEPT ![r] = "finished"]
  /\ \/ scan' = [scan EXCEPT ![KeyOf[r]] = result[r]]
     \/ RedisMayFail /\ UNCHANGED scan
  /\ UNCHANGED <<handler, worker, result, channel, resetter, status>>

StoreResultAgain(r) ==
  /\ RedisMayFail
  /\ setter[r] = "set"
  /\ scan' = [scan EXCEPT ![KeyOf[r]] = result[r]]
  /\ UNCHANGED <<handler, worker, result, channel, setter, resetter, status>>

ResetGet(r) ==
  /\ resetter[r] = "get"
  /\ \/ /\ TimeOutStatus(KeyOf[r]) = 0 \/ RedisMayFail
        /\ resetter' = [resetter EXCEPT ![r] = "finished"]
     \/ /\ TimeOutStatus(KeyOf[r]) # 0
        /\ resetter' = [resetter EXCEPT ![r] = "set"]
  /\ UNCHANGED <<handler, worker, result, channel, setter, redis>>

ResetSet(r) ==
  /\ resetter[r] = "set"
  /\ resetter' = [resetter EXCEPT ![r] = "finished"]
  /\ \/ status' = [status EXCEPT ![KeyOf[r]] = 0]
     \/ RedisMayFail /\ UNCHANGED status
  /\ UNCHANGED <<handler, worker, result, channel, setter, scan>>

ResetSetAgain(r) ==
  /\ RedisMayFail
  /\ resetter[r] = "set"
  /\ status' = [status EXCEPT ![KeyOf[r]] = 0]
  /\ UNCHANGED <<handler, worker, result, channel, setter, resetter, scan>>

-----------------------------------------------------------------------------
(* Redis and the replicas                                                  *)

\* The TTL of an entry ends, or redis evicts it (volatile-ttl).
ExpireScan(k) ==
  /\ scan[k] # Missing
  /\ scan' = [scan EXCEPT ![k] = Missing]
  /\ UNCHANGED <<handler, worker, result, channel, setter, resetter, status>>

ExpireStatus(k) ==
  /\ status[k] # Missing
  /\ status' = [status EXCEPT ![k] = Missing]
  /\ UNCHANGED <<handler, worker, result, channel, setter, resetter, scan>>

\* A replica dies with its handlers and goroutines; redis keeps its entries.
Crash(p) ==
  LET Dies(r, at, live) == ReplicaOf[r] = p /\ at[r] \in live
      Kill(at, live) ==
        [r \in Requests |-> IF Dies(r, at, live) THEN "lost" ELSE at[r]]
  IN /\ MayCrash
     /\ \E r \in Requests :
          \/ Dies(r, pc, Active)
          \/ Dies(r, worker, {"running", "sending"})
          \/ Dies(r, setter, {"set"})
          \/ Dies(r, resetter, {"get", "set"})
     /\ pc' = Kill(pc, Active)
     /\ worker' = Kill(worker, {"running", "sending"})
     /\ setter' = Kill(setter, {"set"})
     /\ resetter' = Kill(resetter, {"get", "set"})
     /\ UNCHANGED <<timeouts, response, result, channel, redis>>

\* Every request is answered and no goroutine is left: the system rests.
Quiescent ==
  /\ \A r \in Requests :
       /\ pc[r] \in {"done", "lost"}
       /\ worker[r] \notin {"running", "sending"}
       /\ setter[r] # "set"
       /\ resetter[r] \notin {"get", "set"}
  /\ UNCHANGED vars

-----------------------------------------------------------------------------
HandlerStep(r) ==
  \/ LookupHit(r)
  \/ LookupMiss(r)
  \/ ReceiveResult(r)
  \/ Timeout(r)
  \/ GetTimeOutStatus(r)
  \/ SetTimeOutStatus(r)
  \/ TimeOutStatusFails(r)

GoroutineStep(r) ==
  \/ SendResult(r)
  \/ StoreResult(r)
  \/ ResetGet(r)
  \/ ResetSet(r)

RetryStep(r) ==
  \/ SetTimeOutStatusAgain(r)
  \/ StoreResultAgain(r)
  \/ ResetSetAgain(r)

Next ==
  \/ \E r \in Requests :
       \/ Arrive(r)
       \/ HandlerStep(r)
       \/ Compute(r)
       \/ GoroutineStep(r)
       \/ RetryStep(r)
  \/ \E k \in Keys : ExpireScan(k) \/ ExpireStatus(k)
  \/ \E p \in Replicas : Crash(p)
  \/ Quiescent

\* The Go scheduler runs every runnable goroutine and timers fire. Nothing is
\* assumed of Compute: the registry or Azure Resource Graph may never answer.
RunsFairly(r) ==
  /\ WF_vars(HandlerStep(r))
  /\ WF_vars(SendResult(r))
  /\ WF_vars(StoreResult(r))
  /\ WF_vars(ResetGet(r))
  /\ WF_vars(ResetSet(r))

Fairness == \A r \in Requests : RunsFairly(r)

Spec == Init /\ [][Next]_vars

FairSpec == Spec /\ Fairness

-----------------------------------------------------------------------------
(* Properties                                                              *)

\* The third timeout is recognised by an equality test (timeoutStatus ==
\* _numberOfTimeOutEncounteredThreshold), while several requests read and
\* write the counter without a lock: a counter that ever got to the threshold,
\* in redis or in a request about to write it, would never again be equal to
\* it after the increment, and every later timeout would block.
StatusBelowThreshold ==
  /\ \A k \in Keys : status[k] # Missing => status[k] < Threshold
  /\ \A r \in Requests : pc[r] = "setStatus" => timeouts[r] \in 1 .. Threshold - 1

\* The handler closes chanTimeout while the worker may still be running: a
\* worker that has yet to send never finds its channel closed (the send would
\* panic and end the process) nor full (it would leak).
ChannelDiscipline ==
  \A r \in Requests :
    worker[r] \in {"none", "running", "sending"} =>
      buffer[r] = "none" /\ ~closed[r]

\* Results and errors share one cache entry: results are only ever returned,
\* from the channel or from redis, if a worker of the same pod spec computed
\* results, and a stored error only if one of them failed.
AnswersAreComputed ==
  \A r \in Requests :
    /\ response[r] = "infos" =>
         \E q \in Requests : KeyOf[q] = KeyOf[r] /\ result[q] = "infos"
    /\ response[r] \in {"storedError", "scanError"} =>
         \E q \in Requests : KeyOf[q] = KeyOf[r] /\ result[q] = "error"

\* README, "Cache is down": a timeout blocks a request only once redis has
\* recorded it, so that an outage of redis cannot block a pod spec for ever.
BlockIsRecorded ==
  [][\A r \in Requests :
       response[r] # "unscanned" /\ response'[r] = "unscanned" =>
         status'[KeyOf[r]] \in 1 .. Threshold - 1]_vars

\* A request that reached the provider is answered although its worker may
\* never come back, unless its replica crashes.
EveryRequestAnswered ==
  \A r \in Requests : pc[r] = "lookup" ~> pc[r] \in {"done", "lost"}

\* A worker that has its result ends, also when the handler has given up.
WorkersFinish ==
  \A r \in Requests : worker[r] = "sending" ~> worker[r] \in {"finished", "lost"}

\* README: "Continue to get scan results in parallel run and set the results in
\* cache". What a worker computes after the timeout of its request is still
\* written to redis, unless the replica crashes; the write itself may fail.
LateResultsStored ==
  \A r \in Requests :
    (worker[r] = "sending" /\ pc[r] \in {"getStatus", "setStatus", "done"}) ~>
      setter[r] \in {"finished", "lost"}

\* The provider implements RequestContract.
PhaseOf(r) ==
  CASE pc[r] = "idle" -> "idle"
    [] pc[r] \in Active -> "asked"
    [] pc[r] = "done" -> "answered"
    [] pc[r] = "lost" -> "lost"

FoundOf(k) == {o \in Outcomes : \E q \in Requests : KeyOf[q] = k /\ result[q] = o}

Contract == INSTANCE RequestContract WITH
  PodSpecs <- Keys,
  PodSpecOf <- KeyOf,
  phase <- [r \in Requests |-> PhaseOf(r)],
  answer <- response,
  found <- [k \in Keys |-> FoundOf(k)],
  count <- [k \in Keys |-> TimeOutStatus(k)]

\* Whatever the replicas, their goroutines and redis do to each other, the
\* requests see a provider that answers each of them once, by what scans of its
\* pod spec found or by the timeouts counted against it, and that neither blocks
\* uncounted nor gives up before the timeouts that may block are used up.
ImplementsRequestContract == Contract!Spec
=============================================================================
