# A specification of the Azure Defender in-cluster webhook

The program is an admission webhook ("azdproxy"). For every workload that is
created or updated in the cluster it looks up the vulnerability scan results of
the workload's images and writes them into an annotation of the workload; a
Gatekeeper policy then reads the annotation and admits or denies. Three replicas
run behind one service and share one redis. The webhook is registered with a
time limit of 3 s and `failurePolicy: Ignore`, and it must therefore answer
within 2.85 s, whatever the registries and the Azure Resource Graph do.

All paths below are relative to the repository, `src/` being its root.

## 1. Inventory

### The parts and how they interact

    API server --AdmissionReview--> Handler --pod spec--> AzdSecInfoProvider
        ^                             |                      |        ^
        |  JSON patch (annotation)    |              goroutine|       | redis: results,
        +-----------------------------+                      v        | count of timeouts
        |                                     scan of the containers (goroutines)
        v                                        |                 |
    Gatekeeper policy (Rego)             Tag2Digest            ARGDataProvider
                                     redis: digest of tag     redis: results of digest
                                           |                       |
                             CraneRegistryClient / ACR token    ARGClient (pages)
                                           |                       |
                                       registries          Azure Resource Graph

| part | state it keeps | operations | what is hard | what makes it correct |
|---|---|---|---|---|
| Webhook handler, extractor, patch (`cmd/webhook`) | the response under construction | Handle, extract, patch | stale annotations; several return paths | an error of the provider leaves no results of another pod spec behind; annotations of others survive; dry run adds nothing; an error never has a workload denied |
| Gatekeeper policy (`policy/.../src.rego`) | none | two violations | undefined Rego functions, five interacting parameters | it names violators only, all of them, monotonically |
| AzdSecInfo provider and cache client (`pkg/azdsecinfo`) | redis: results per pod spec (30 s), count of timeouts per pod spec (15 min); a channel and up to three goroutines for each request | look up, time limit, count, store, reset | the timer races the worker; unlocked read and write of the count by several replicas; goroutines that outlive the answer; crashes | a pod spec is blocked by at most two timeouts in a row; every request is answered; no send on a closed channel; nobody gets another's results |
| Scan of the containers (same file) | one buffered channel | a goroutine per container | order, early return at an error, leaks | each container exactly once by its own look-up; no deadlock, no leak |
| Tag2Digest and registry client (`pkg/tag2digest`, `pkg/infra/registry`) | redis: digest of a reference (2 min) | cache, ACR, K8S, default identity | tags that move; the error of one identity hiding another | answers are recent; "unauthorized" only after all identities |
| ACR token provider, exchanger (`pkg/infra/registry/acrauth`), Azure authentication (`pkg/infra/azureauth`) | memory of a replica: token per registry (10 min) | token of the identity, exchange with attempts, store | one request and body used by all attempts; DNS errors; expiration times that freecache takes for none | the token is the registry's and recent; network errors are tried as often as configured |
| ARG data provider, ARG client (`pkg/dataproviders/arg`) | redis: results per digest (4 min unscanned, 24 h scanned) | cache, query, pages, store | records appear between pages and attempts; late stores | all records or none; answers no older than their expiration time |
| Retry policy (`pkg/infra/retrypolicy`) | a counter | RetryAction | boundaries; waits inside the time limit | the number of attempts; the last error tells |
| Cache clients (`pkg/infra/cache`) | redis, freecache | Get, Set, Ping | commands that take effect twice, fail, or find an entry evicted | part of each module that uses them |
| main (`main.go`) | configuration | load, validate, create the parts, start the heartbeat | any step may end the process; values that are missing are zero | no panic; a valid configuration is enough to serve |
| Server, manager, certificates (`cmd/webhook/server.go` and factories) | a channel, a goroutine, the secret with the certificates | Run, rotate, register, serve | the webhook waits for a channel that is closed once the manager runs | it is served in the end, never before the certificates |
| instrumentation, query generator, charts, proofs of concept | - | - | - | - |

`PROJECT.json` lists every component with its status, and under `hazards` the
places in the code where something can go wrong that a test would hardly reach,
with the properties that would show it.

## 2. Modules

| module | models | composed with |
|---|---|---|
| `AzdSecInfo` | provider and cache client: handler, worker, setter and resetter of each request; the two entries of each pod spec in redis | |
| `RequestContract` | abstract: what an admission request gets from the provider | implemented by `AzdSecInfo` |
| `AzdSecInfoBudget` | history variables over `AzdSecInfo`: blocks in a row, results that owe a reset | extends `AzdSecInfo` |
| `ScanContract` | abstract: what a scan of a pod spec promises | |
| `ContainerScan` | goroutines, channel and caller of the scan | implements `ScanContract` |
| `VulnerabilityPolicy` | the Rego policy as operators, over all inputs of a bounded size | |
| `Handler` | Handle, the extractor and the patch | |
| `Admission` | API server, handler, results stored in redis and policy through several admissions of a workload | extends `Handler`, instantiates `VulnerabilityPolicy` |
| `RetryPolicy` | the loop of `RetryAction` and the errors of its clients | |
| `ARGClient` | a query of the Resource Graph: its pages, tried by the policy | extends `RetryPolicy` |
| `ARGDataProvider` | look-up, query, answer, store; time | |
| `Tag2Digest` | digest of a reference: redis, identities, moving tags | |
| `AcrToken` | token cache and exchange | |
| `Replica` | the process of a replica: main, server, rotator, manager; its start, end and restart | extends `AcrToken` |
| `AzdSecInfo_proofs`, `Admission_proofs`, `VulnerabilityPolicy_proofs`, `ContainerScan_proofs`, `ARGClient_proofs`, `ARGDataProvider_proofs`, `Tag2Digest_proofs`, `Replica_proofs` | theorems | each extends the modules it is about (`AzdSecInfo_proofs` those of the budget too, `ARGClient_proofs` the retry policy) |
| `MC...` | instances for TLC: constants, symmetry | each extends its module |

In each module the actions are the steps of the code that others can see: one
action for a command of redis, a message of a channel, a call of a service, with
the local computation up to the next such step. Operators named after a defect
(their comment starts with "Defect:") are variants of the definition that follows
them; no specification uses them. They record for which plausible mistakes a
property has been seen to fail; `mutants` in `PROJECT.json` pairs them.

### AzdSecInfo

`pc`, `timeouts` and `response` are the handler (`GetContainersVulnerabilityScanInfo`),
`worker`, `result`, `setter` and `resetter` the goroutines it starts, `buffer` and
`closed` the channel of capacity one, `scan` and `status` the two entries in redis.
`Arrive`, `LookupHit`, `LookupMiss`, `ReceiveResult`, `Timeout`, `GetTimeOutStatus`,
`SetTimeOutStatus`, `TimeOutStatusFails` are the handler's steps; `Compute`,
`SendResult`, `StoreResult`, `ResetGet`, `ResetSet` those of the goroutines. The
`...Again` actions are commands that the retry policy runs once more because the
reply of the first was lost. `ExpireScan`, `ExpireStatus` and `Crash` are the
environment: TTL and eviction at any time, and a replica that ends with all its
goroutines while its entries stay. What the worker computes is abstracted to
"infos" or "error". The time limit is an action that may come at any moment of
the race, which is what a timer is to the program.

`AzdSecInfoBudget` says what the count is for: `blocks` counts the timeouts that
blocked a pod spec since redis last had no count of it, `owed` whether results
were delivered in time while a count still stands.

`RequestContract` is what the API server may rely on: a request is asked,
answered once or lost with its replica; results were found by a scan of its pod
spec, a block is counted against the pod spec in the step that blocks, and a
timeout is given up on only when the count is one below the threshold. It knows
no redis, channel, timer or goroutine. The refinement maps `phase` to where the
handler stands, `count` to the entry in redis and `found` to what workers have
computed.

### ContainerScan and ScanContract

`Worker(c)` is the goroutine of container `c` (parse, resolve, query, send),
`Receiver` the caller's loop. `ScanContract` forgets the channel, the goroutines
and the order: an answer holds for every container what its own look-up found, or
there is an error and one look-up failed. The refinement maps `outcome` to what the
goroutines found and `results` to the received list taken by container.

### VulnerabilityPolicy, Handler, Admission

`VulnerabilityPolicy` states the violations as operators, undefined functions of Rego
included (an undefined function makes its rule yield nothing). `Handler` is one request
at a time: handlers share no state. `Admission` lets the annotation that an admission
has stored come back with a changed pod spec, the webhook be ignored at any moment, and
each request meet a replica in dry run or not (`dryRun`; while the configuration is
rolled out both are there). Its provider answers with what a scan of the request's pod
spec finds (every container once, which is `ContainerScan`'s promise), or with what
redis holds under the key of the names and images of its containers, stored there for
whichever request (`AnswerStored`, `AnswerScanned`, `StoreResults`).

### RetryPolicy, ARGClient, ARGDataProvider, Tag2Digest

They are modelled each against an environment that may do all that the service
behind it may do: registries refuse, miss or lose replies, tags move, scans end,
redis evicts. `RetryPolicy` has one action for a run of any client, with the
errors which that client distinguishes; `ARGClient` replaces the run of its client
by the pages that the run fetches with one shared request, and keeps every other
step of the policy. The other modules are not composed with it: they see the
outcome of the last run, which is what `AnswersTellTheLastRun` says of it.

In `Tag2Digest` an identity stands for an attempt with it: `GetDigest` asks with the
identity's credentials or, where it has none for the registry, with those of the docker
configuration, and any set of the three attempts may be those that have access
(`granted`). A registry refuses the others, or hides the image from them and answers
that there is none, which ends the search as if it were so.

Time is a number of ticks where expiry matters (`Tag2Digest`, `ARGDataProvider`,
`AcrToken`), with `MaxDelay` as the longest time that a value is on its way
from its source to the caller or to redis. The code gives no such bound to
goroutines; the properties say how stale an answer may be in terms of it.

### Replica and AcrToken

`main` is where the main goroutine stands, from `StartProcess` over
`LoadConfiguration`, `CreateClients` and `CreateServer` (main.go) to
`initCertController`, `GoSetupControllers` and `StartManager` (`Server.Run`);
`setup` is the goroutine `setupControllers`, `IsReady` the channel that it waits
for. `RotatorReady` and `ServeWebhook` are what the libraries do once the manager
runs: write the certificates and close the channel; serve the handler, or end the
manager when there are no certificates. `End` is every way out of the process:
its memory is gone, the secret with the certificates (`mounted`) stays. Where the
environment can make a step fail there is an action `...Fails`.

A process that serves gets calls for tokens (`AcrToken`): the look-up in the memory,
the token of the replica's identity, the attempts of the exchange (`Do`, with the
outcomes that a request allows whose body was sent before: it mostly has none any more,
but net/http rewinds it when it changes the connection by itself), the answer,
and the goroutine that stores the token. `AcrToken` has attempts of its own and not
those of `RetryPolicy`, because they share the body of a request. The expiration
time comes from the configuration, and freecache keeps for ever what it is given
with an expiration time of zero: only the validation in `main` keeps zero out, which
is why the two are one specification.

## 3. What is checked

| run | instance | shows |
|---|---|---|
| `secinfo_requests` | 2 requests for one pod spec on 2 replicas that crash, redis may fail at any command | count below threshold, channel discipline, answers computed, blocks recorded; every request answered, no leak, late results reach the setter; implements `RequestContract` |
| `budget_serial` | 3 requests one after the other | at most two timeouts in a row block; results in time clear the count |
| `budget_concurrent` (violation) | 2 of 3 requests at a time | a lost increment: a third timeout blocks |
| `scan` | 3 containers, any images and outcomes | sends are safe, each container once by its own look-up; answers, no leak, refinement |
| `policy_judged` | all workloads of up to two containers, all parameters | exact where nothing is exempt, names only violators, monotone |
| `policy_unscanned` (violation) | the same | an unscanned container hidden by a healthy one |
| `admission_stale` | every request, to replicas in dry run or not, for a workload with three pod specs (one container as a container, as an init container, another image), admitted again and again, with anything in redis that these have stored | judged by its own results; errors of the provider leave nothing behind; others' annotations kept; dry run adds nothing |
| `admission_errors` (violation) | the same | a workload that cannot be extracted keeps the scan info it came with, and is denied by it |
| `argclient_pages` | every client of the policy, three attempts; up to four pages of records that appear meanwhile | number of attempts, meaning of the answer, bounded waits, termination; all records or none |
| `arg_calls` | 2 calls for 3 images of 2 digests | bounded staleness; no foreign records; status tells the records |
| `tags_calls` | 2 calls, a tag that moves between 2 digests, all accesses and failures | no refused identity hides another; missing is final; bounded staleness |
| `replica_life` | 9 configurations, 2 failures at any step, restarts; 2 calls for tokens of 2 registries, 2 attempts | tokens are the registry's and recent; network errors are reported only when no attempt is left; no panic, no service before the certificates; serves for good in the end |

The constants of a run, with their bounds, are in its `.cfg` and in the module that
it names.

Why the bounds are enough. The shared state of a pod spec is disturbed by two concurrent
requests already. In `secinfo_requests` the threshold is 2, so that two requests reach
it and pass the equality test from both sides; the theorems hold for every threshold.
`budget_serial` has the threshold of the code, 3, and three requests: the third meets
the goroutines left by the other two. Redis works there and no replica crashes, which
`DeliveredResultsReset` needs, and which `BlocksWithinBudget` does not: `BudgetIsKept`
proves it with both. In the scan three containers allow any of them to fail before,
between and after others. The retry policy uses the three attempts of the charts; up to
seven records on pages of two give empty, partly filled and full last pages. Two digests
let a tag move and come back. Expiration times of one and two ticks with a delay of one
make every order of expiry, store and answer happen. In `replica_life` the
configurations are one that can serve and eight that differ from it in a value or two,
the values 0 and -1 of a time among them; two failures let one process fail at its start
and the next be killed while it serves and stores; two attempts are one that may be
followed by another and one that may not (the theorems hold for every number). Three pod
specs whose keys would be equal if the key left out the init containers or the image are
what a key must tell apart.

The violation runs are disagreements between the code and what it says of itself;
each is a finding in `PROJECT.json` with the line and the quotation.

### Seen while modelling, not the subject of a run

* A dry run sends a patch all the same when the provider fails for a workload that has
  scan info: lines 149-151 of `handler.go` return the patch that deletes it before line
  155 looks at the flag, while line 69 says of dry run that "it handles request but
  doesn't mutate the workLoadResource podSpec". `AnswerError` has it.
  `DryRunAddsNothing` is what does hold.
* A registry that answers "not found" to an identity without access ends the search
  (`shouldContinueOnError`) although the next identity may have access.
* The error of `RetryAction` after the last try names one try more than were made,
  and the policy sleeps after the last try as well (`retrypolicy.go:126-134`). With
  no attempt configured the loop is not entered and the call succeeds without a run.
* Results that come from redis do not clear the count of timeouts (only results
  that arrive on the channel do, `azd_sec_info_provider.go:505`).
* The deferred report of `Handle` has the `response` of its own scope, which is not
  the one that the inner returns give back.
* The attempts of a token exchange share a request whose body can be read once
  (`acr_token_exchanger.go:116`): an attempt after one whose reply was lost fails with
  "bad body", unless net/http rewinds the body (it does when a connection that it had
  kept turns out closed before anything is written). It is part of `AcrToken`.
* `closeResponse` is deferred with the value that `resp` has at that moment, nil
  (`acr_token_exchanger.go:111`): it closes nothing, and responses are left to the
  garbage collector.
* A name server that fails is reported as a registry that does not exist
  (`isNoSuchHostErr`, `acr_token_exchanger.go:228-237`; a TODO there says so).
* In freecache an expiration below a second is none
  (`freecache_in_mem_cache_client.go:86`); no expiration in use there is that short.
  The conversion is part of `AcrToken`: an expiration of zero is none.
* The key of a pod spec leaves out its namespace, its service account and its pull
  secrets (`azd_sec_info_cache_client.go:308`), which decide whether its digests can be
  read: what one workload gets for want of access, another with access is answered for
  as long as it is stored.
* The pod spec is used before it is compared with nil
  (`azd_sec_info_provider.go:241`); the extractor never leaves it nil.
* The first of the supported resources is read without a test that there is one
  (`handler.go:292`).
* Ping succeeds when redis answers anything else than PONG without an error
  (`redis_cache_client.go:138`).

### Fairness

* `AzdSecInfo`: weak fairness of the handler's steps and of the goroutines' redis
  commands and sends: the Go scheduler runs what can run, the timer fires, and redis
  commands end (with an error if need be: the client has time limits). Nothing is
  assumed of `Compute`: registries and the Resource Graph may never answer. Nor of
  arrivals, expiry and crashes. `FairBudgetSpec` assumes the same.
* `ContainerScan`: weak fairness of the caller and of each goroutine. It supposes
  that look-ups return; where they do not it is the time limit of `AzdSecInfo` that
  answers.
* `Replica`: weak fairness of main, of the goroutine, of the rotator and of the
  webhook server: Kubernetes restarts a container that has ended (with a delay that is
  bounded), the Go scheduler runs what can run, and the two libraries do the work that
  the manager starts them for. Nothing is assumed of failures, except that there are
  finitely many, nor of calls. `ServesForGood` asks for a configuration that can serve:
  one that is readable and valid, with an identity, and with rotation or certificates.
* `ARGClient`: weak fairness of the call; it supposes that each run of the action
  and each page returns, with an error if need be.

`CHECK_DEADLOCK FALSE` is set in `argclient_pages`, where the modelled call simply
ends; elsewhere TLC looks for deadlocks.

## 4. What is proved

| module | theorem | for every |
|---|---|---|
| `AzdSecInfo_proofs` | `TypeCorrect`, `SendsAreSafe`, `StatusStaysBelowThreshold`, `AnswersComputed`, `BlocksAreRecorded`, `AnswersStand`, `ProviderImplementsContract` | set of requests, pod specs and replicas, threshold, concurrency, failures |
| | `RequestsAreAnswered`, `WorkersEnd`, `LateResultsAreStored` (liveness) | the same, under `FairSpec` |
| | `BudgetIsKept` | the same, requests of a pod spec one at a time |
| | `DeliveriesReset` (liveness) | the same, under `FairBudgetSpec`, where redis works and no replica crashes |
| `Admission_proofs` | `ErrorsLeaveNoScanInfo`, `OthersKept`, `JudgedByOwnResults`, `DryRunsAddNothing`, `OnlyUnextractedAreBlocked`, `DeniedByOwnContainers`, `AdmittedKeepsTheConstraint` | set of requests, kinds, pod specs, results and annotations; parameters |
| `VulnerabilityPolicy_proofs` | `TypeCorrect`, `ExactlyJudged`, `ViolatorsOnly`, `RelaxingIsSafe` | workload, finite set of findings, parameters |
| `ContainerScan_proofs` | `TypeCorrect`, `NoUnsafeSend`, `ContainersCovered`, `ImagesJudged`, `ScanNeverStuck`, `ScanIsBounded`, `ScanImplementsContract` | finite set of containers |
| | `NoGoroutineLeaks`, `ScanComesNearer` (liveness) | the same, under `FairSpec` |
| `ARGClient_proofs` | `TypeCorrect`, `AttemptsExhausted`, `WaitsAreBounded`, `LastRunTells`, `CallsAreBounded` | number of attempts, duration, set of clients |
| | `QueryIsRetried`, `AllRecordsOrNone`, `QueryNeverCircles` | page size, number and order of records, number of attempts |
| | `CallsComeNearer` (liveness) | the same, under `FairARGSpec` |
| `ARGDataProvider_proofs` | `TypeCorrect`, `RecordsTold`, `AnswersAreFresh`, `RecordsOfTheDigest` | set of images, digests and calls, lists of records, expiration times, delay |
| | `AskReturns` (liveness) | the same, if the call runs |
| `Tag2Digest_proofs` | `TypeCorrect`, `UnauthorizedAfterAll`, `MissingEndsTheSearch`, `RecentAnswers` | set of images, digests and calls, expiration time, delay |
| | `ResolveReturns` (liveness) | the same, if the call runs |
| `Replica_proofs` | `TypeCorrect`, `EndsNotItsOwn`, `TokensOfTheirRegistries`, `RetriesOfNetworkErrors`, `RecentTokens` | set of configurations, calls and registries, number of attempts and failures, delay |
| | `ServesInTheEnd` (liveness) | the same, under `FairSpec`, if the failures cease |

Assumptions: the `ASSUME`s of the modules, and

* for `BudgetIsKept` `MaxConcurrent = 1`, without which it is false
  (`budget_concurrent`);
* for `DeliveriesReset` `~RedisMayFail` and `~MayCrash`, without which a reset may be
  lost, as `DeliveredResultsReset` says;
* for `CallsAreBounded`, `QueryNeverCircles` and `CallsComeNearer` a number of attempts
  that is not negative;
* for `ServesInTheEnd` that the failures cease (`FailuresCease`);
* for liveness that each guard enables its step, stated as follows.

*Fairness in the theorems.* The theorems on liveness start from the fair specifications
that the runs check (`FairSpec`, `FairBudgetSpec`, `FairARGSpec`). The provers know
nothing of `ENABLED`, so one fact is a hypothesis: that each guard enables its step, in
`[]GuardsEnable` (`[]CallEnabled` in `ARGClient_proofs`). The guards are those of the
code: a handler that has not answered, a sender whose channel has room, a goroutine whose
channel is closed. TLC finds `GuardsEnable` invariant on the instances of the runs, by a
module that extends the MC module and the module of the proofs. The lemma
`FairnessSuffices` of each module then has: while the guard of a step holds for good, the
step is taken. `Tag2Digest` and `ARGDataProvider` state no fair specification; their
theorems suppose that conclusion of the call's steps, which `WeakFairness` derives from
`WF`. No theorem supposes fairness of what the specifications leave without:
workers may compute for ever, redis entries may expire and replicas crash at any time.

The arguments:

* *Channel discipline.* `ChannelDiscipline` is not inductive: a worker that is
  about to send could already have sent. `GoroutineInv` ties each goroutine to the
  handler that started it and its result to what it computed; with it a send is
  into an empty and open channel.
* *Count below the threshold.* The handler writes what it has read plus one, and
  only if that is not the threshold; the invariant says so of the number a handler
  is about to write, so that any interleaving of writers keeps it.
* *Answers computed.* `StoredAreComputed` carries the property through redis: each
  entry comes from a worker of the same pod spec, whose result never changes again
  (`OutcomesAreStable`).
* *Budget.* With one handler at a time for a pod spec, `Serial` says there is at
  most one active handler, and `BlocksCounted` that the blocks in a row are at most
  the count in redis. A left-over resetter only lowers the count to none, which
  ends the series.
* *Contract of a request.* Each step of a request maps to one of the contract's or
  to none. What it takes is that stored results were computed by a worker of the pod
  spec (`found` has them), that the count is below the threshold, and that a handler
  that gives up does so in the step that reads the count.
* *Every request is answered.* A handler's step leads to a later place of the handler;
  no step of anyone else moves it back, and at each place the handler's own step stays
  possible. A worker that is to send keeps its channel empty (`ChannelDiscipline`), and
  the setter waits for nobody. An answer stays (`AnswersStand`), because whoever could
  change it finds the handler at its end.
* *Results in time clear the count.* `OwedInv` says that while a count stands which
  results in time should clear, their resetter is still to read or to write it; it
  runs, and either the count is gone or a later timeout has been counted meanwhile.
* *Admission.* What redis holds under a key tells of the containers that the key is made
  of, and what the handler answers is a result of its own pod spec; the object that is
  judged has, under the key of the scan, what the handler put there or nothing, since
  every answer about an extracted workload, outside dry run, replaces or deletes it. An
  object that was answered with an error and still has scan info was therefore not
  extracted (`OnlyUnextractedAreBlocked`): the case of `admission_errors` is the only
  one. A decision stays that of the policy on that object until the next admission; what
  the policy names is in the scan info (`PolicyNames`) and thus a container of the pod
  spec.
* *Policy.* The containers of a workload are applicable all or none
  (`AllOrNoneApplicable`), a container is named exactly when it is applicable and
  violates (`Named`), and looser parameters count subsets (`RelaxedCounts`).
* *Staleness.* What a call holds, what redis stores and what was answered satisfy one
  inequality each: the age of a value and the time left to its entry come to no more
  than the expiration time and the delay. A tick adds one to the one and takes one
  from the other, a store starts with an age of at most the delay. For tags the age
  is the time since the digest was last current, which a push can only reset.
* *Identities.* `TriedInv` says for each place of a call in the chain which
  identities were passed, and with which errors; the errors that end the search are
  therefore the last ones.
* *Replica.* `ProcessInv` says where main, the goroutine and the channel may stand
  together: the channel of a rotator that has not run is open, so it is closed once; a
  webhook is registered only after the channel is closed, and then there are
  certificates. A configuration that serves was found valid, so that times are
  positive and entries of the memory count down. A step of the process leaves the calls
  alone or ends them all (`StepKinds`).
* *A replica serves in the end.* `ReadyInv` says that the rotator has run only while the
  manager runs, that the goroutine is there once main starts the manager, and that the
  channel is closed exactly when the rotator has run or there is no rotation. Thus a
  goroutine that waits for an open channel waits for a rotator that has not run yet.
  From any place where the last failure has left the process, main goes on to
  the manager, then the rotator, the goroutine and the webhook take their steps in
  this order; without failures nothing takes the process back. That the failures cease
  is all that is supposed of them. They do in the model, where they are counted up to
  `MaxFailures`, and the theorem holds of any environment whose failures end.
* *Scan.* What is in the channel and what was received name only goroutines that
  have ended, none of them twice (`SentInv`, `OnceInv`). A message is thus an
  injection from its position to its container: a goroutine that is still to send is
  not in its range, so the channel is not full (`Pigeonhole`), and once as many
  infos were received as there are containers, the injection is onto: every
  container is there and the channel is empty (`AllReceived`). The refinement
  follows: the answer's list, by container, is what was found. Until the answer no
  message is lost (`NoneLost`): as many are in the channel or received as goroutines
  have ended. So when all have ended and the channel is empty the caller has one for
  each container (`ScanNeverStuck`). A goroutine has at most four steps, the caller
  one for each container and one to answer: `StepsLeft` is at most 5n + 1 and each
  step makes it less.
* *Retry policy.* The waits add up to `duration * (2 + ... + (retryAttempts + 1))`;
  the invariant keeps that as an equation multiplied by two, and the number of runs as
  a function of the place in the loop.
* *Pages.* A step of a query is a step of the policy or leaves its variables alone
  (`QueryIsRetried`), so the policy's invariant holds of it. What was fetched so far
  is a prefix of the image's records up to the skip token. The token is absent
  when a run starts: a run is repeated only after its last page, and a page that
  fails ends the call. A step of a query leaves fewer records to appear, or as many
  and fewer places of the policy's loop, or as many of both and fewer records to
  fetch (`LessLeft`): a list that grows while it is paged through cannot keep a query
  going.
* *Look-ups return.* `ResolveReturns` and `AskReturns` follow a call down the chain of its
  places, each passed once. They are what the fairness of `ContainerScan`, that look-ups
  of digests and results return, rests on.

Only model-checked:

* `ScanAnswers` and `Terminates` as such. They follow from the theorems by an
  induction over time: what is left is a natural number, or a triple of them in
  lexicographic order, and comes to be less until the answer (`ScanComesNearer`,
  `CallsComeNearer`). No prover at hand does that induction: a rule for it
  has a formula for a parameter.
* That a number of failures that is bounded and never falls stays the same in the end,
  which is such an induction too, and that each guard enables its step.

## 5. Not modelled

* Text: log lines, messages, the query sent to the Resource Graph, JSON and
  annotations character by character. They are modelled by what they do.
* Metrics, traces, and the pings of the heartbeat: they change no state of the service.
* What a certificate is valid for, and TLS.
* Kubernetes clients, registries, redis, freecache, the Resource Graph, the rotator and
  the manager: external; modelled by what they may answer or do.
* Utilities of tests and of the deployment (`pkg/infra/utils/yamls.go`, `maps.go`).
* `misc/poc`, deployment scripts: not part of the service.
* Configuration values other than the expiration times, the heartbeat, the kind of the
  deployment, rotation and the identity: the models take the others as valid.

## 6. Plan

The order is by importance; 1 to 10 and 12 to 14 are done, and of 11 the theorems.

1. `AzdSecInfo`, `AzdSecInfoBudget`: the time limit and the count of timeouts.
2. Their theorems.
3. `VulnerabilityPolicy`, `Handler`, `Admission`: from request to decision.
4. `ContainerScan` against `ScanContract`.
5. `RetryPolicy`, `ARGClient`, `ARGDataProvider`.
6. `Tag2Digest`, `AcrToken`.
7. Theorems of `RetryPolicy` and `ARGClient`.
8. Theorems of `ContainerScan`, the refinement among them.
9. `RequestContract`, implemented by `AzdSecInfo`, checked and proved.
10. What redis tells one request of another: keys of pod specs in `Admission`. (Errors of
    one container that are stored for the pod spec are in `AzdSecInfo`, whose worker may
    end with an error that the next request is told.)
11. `FreshEnough` and `AnswersAreRecent` for all expiration times: proved. An abstract
    specification of the cached look-up, implemented by both `ARGDataProvider` and
    `Tag2Digest`, is left: their inequalities are the same, but their entries differ, and
    what it could promise beyond them is proved of each already.
12. Theorems of `Admission` and `VulnerabilityPolicy`.
13. `Replica`: main, server and certificates of a replica that is restarted, with the
    tokens that its memory keeps.
14. Theorems on liveness, with the guards of the fair steps; from the object to the
    decision of the policy.
15. Left: several replicas that share the secret of the certificates and rotate them
    while they serve.
