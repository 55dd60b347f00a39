---------------------------- MODULE RetryPolicy -----------------------------
(***************************************************************************)
(* RetryAction and RetryActionString (pkg/infra/retrypolicy), as used by   *)
(* the clients of redis, of the registries and of the Resource Graph: an   *)
(* action is run until it succeeds, until it fails with an error that the  *)
(* client does not want retried, or until it has been run often enough.    *)
(* Each client then tells its caller what the last error means.            *)
(***************************************************************************)
EXTENDS Integers, Sequences

CONSTANTS
  Clients,        \* the clients that call the policy
  retryAttempts,  \* RetryPolicyConfiguration.RetryAttempts
  duration        \* RetryPolicyConfiguration.RetryDurationInMS

\* The errors that the action of each client may fail with, and those among
\* them that shouldRetry accepts.
actionErrors ==
  [Get |-> {"redis.Nil", "network"},
   Set |-> {"network"},
   Ping |-> {"network"},
   Digest |-> {"ImageIsNotFoundErr", "UnauthorizedErr", "empty digest", "network"},
   QueryResources |-> {"empty result", "network"},
   Exchange |-> {"no such host", "network"}]

\* Defect: the query runs again after any error.
shouldRetryAll == actionErrors

shouldRetry ==
  [Get |-> {"network"},
   Set |-> {"network"},
   Ping |-> {"network"},
   Digest |-> {"empty digest", "network"},
   QueryResources |-> {"empty result"},
   Exchange |-> {"network"}]

\* What a caller of the client is told: an error has the cause of the last
\* one; the missing key of redis and the missing registry are errors of their
\* own, and no results of the Resource Graph are a result.
answer(client, err) ==
  CASE err = "nil" -> "success"
    [] client = "Get" /\ err = "redis.Nil" -> "MissingKeyCacheError"
    [] client = "Exchange" /\ err = "no such host" -> "RegistryIsNotFoundErr"
    [] client = "QueryResources" /\ err = "empty result" -> "no results"
    [] OTHER -> err

\* main reads these from the configuration and checks neither.
ASSUME RetryAssumption ==
  /\ Clients \subseteq DOMAIN actionErrors
  /\ retryAttempts \in Int
  /\ duration \in Nat

VARIABLES
  client,      \* the client under way
  pc,          \* "test" of the loop, "act", "sleep" or "returned"
  retryCount,
  err,         \* the error of the last run, "nil" if there is none
  runs,        \* how the runs ended so far
  slept        \* the time slept so far

vars == <<client, pc, retryCount, err, runs, slept>>

Init ==
  /\ client \in Clients
  /\ pc = "test"
  /\ retryCount = 1
  /\ err = "nil"
  /\ runs = <<>>
  /\ slept = 0

-----------------------------------------------------------------------------
\* Defect: the loop counts from zero, as loops of Go do.
EnterLoopOneMore ==
  /\ pc = "test"
  /\ retryCount - 1 <= retryAttempts
  /\ pc' = "act"
  /\ UNCHANGED <<client, retryCount, err, runs, slept>>

EnterLoop ==
  /\ pc = "test"
  /\ retryCount <= retryAttempts
  /\ pc' = "act"
  /\ UNCHANGED <<client, retryCount, err, runs, slept>>

\* Defect: a call whose attempts are used up is not ended.
GiveUpLater ==
  /\ pc = "test"
  /\ retryCount > retryAttempts + 1
  /\ pc' = "returned"
  /\ UNCHANGED <<client, retryCount, err, runs, slept>>

\* errors.Wrapf keeps the cause of the last error, and leaves nil nil.
GiveUp ==
  /\ pc = "test"
  /\ retryCount > retryAttempts
  /\ pc' = "returned"
  /\ UNCHANGED <<client, retryCount, err, runs, slept>>

\* Defect: errors of the action are retried the other way round.
ActionEndsRetryingOthers(e) ==
  /\ pc = "act"
  /\ err' = e
  /\ runs' = Append(runs, e)
  /\ pc' = IF e \in actionErrors[client] \ shouldRetry[client]
           THEN "sleep" ELSE "returned"
  /\ UNCHANGED <<client, retryCount, slept>>

ActionEnds(e) ==
  /\ pc = "act"
  /\ err' = e
  /\ runs' = Append(runs, e)
  /\ pc' = IF e \in shouldRetry[client] THEN "sleep" ELSE "returned"
  /\ UNCHANGED <<client, retryCount, slept>>

Ends == actionErrors[client] \cup {"nil"}

Act == \E e \in Ends : ActionEnds(e)

\* Defect: the wait doubles each time.
SleepDoubling ==
  /\ pc = "sleep"
  /\ retryCount' = retryCount + 1
  /\ slept' = slept + 2^retryCount' * duration
  /\ pc' = "test"
  /\ UNCHANGED <<client, err, runs>>

Sleep ==
  /\ pc = "sleep"
  /\ retryCount' = retryCount + 1
  /\ slept' = slept + retryCount' * duration
  /\ pc' = "test"
  /\ UNCHANGED <<client, err, runs>>

Next == EnterLoop \/ GiveUp \/ Act \/ Sleep

Spec == Init /\ [][Next]_vars

-----------------------------------------------------------------------------
(* Properties                                                              *)

TypeOK ==
  /\ client \in Clients
  /\ pc \in {"test", "act", "sleep", "returned"}
  /\ retryCount \in Nat \ {0}
  /\ err \in Ends
  /\ runs \in Seq(Ends)
  /\ slept \in Nat

\* "RetryAttempts is the number of attempts that the request should be
\* executed": never more, and fewer only when the last one was decisive.
Exhausted ==
  /\ Len(runs) <= retryAttempts
  /\ pc = "returned" /\ err \in shouldRetry[client] => Len(runs) = retryAttempts

\* Whether a key, an image or a registry is missing is what the last run said,
\* whatever the runs before it said; and the Resource Graph has no results for
\* an image only if it had none at every one of its tries.
AnswersTellTheLastRun ==
  pc = "returned" /\ runs # <<>> =>
    /\ answer(client, err) = answer(client, runs[Len(runs)])
    /\ answer(client, err) \in {"MissingKeyCacheError", "RegistryIsNotFoundErr"}
         => \A i \in 1..(Len(runs) - 1) : runs[i] = "network"
    /\ answer(client, err) = "no results" =>
         Len(runs) = retryAttempts /\ \A i \in DOMAIN runs : runs[i] = "empty result"

\* Every call of the policy ends, once its action always does.
Terminates == <>(pc = "returned")

\* The waits of a call, which its caller has a time limit for, come to at most
\* 2 + ... + (retryAttempts + 1) durations.
DelayBounded ==
  2 * slept <= duration * (retryAttempts * (retryAttempts + 3))
=============================================================================
