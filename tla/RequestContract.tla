-------------------------- MODULE RequestContract ---------------------------
(***************************************************************************)
(* What an admission request gets from AzdSecInfoProvider, whatever runs   *)
(* behind it: one answer, which is what a scan of its pod spec found, a    *)
(* block that is counted against the pod spec, the admission of a pod spec *)
(* against which all the timeouts that may block are counted, or an error. *)
(* Redis, channels, timers and goroutines are forgotten.                   *)
(***************************************************************************)
EXTENDS Integers

CONSTANTS
  Requests,
  PodSpecs,
  PodSpecOf,  \* the pod spec of each request
  Threshold   \* timeouts in a row, the last of which does not block

VARIABLES
  phase,   \* of each request: "idle", "asked", "answered" or "lost"
  answer,  \* what it was answered
  found,   \* of each pod spec: how scans of it ended
  count    \* of each pod spec: the timeouts counted against it

vars == <<phase, answer, found, count>>

Init ==
  /\ phase = [r \in Requests |-> "idle"]
  /\ answer = [r \in Requests |-> "none"]
  /\ found = [s \in PodSpecs |-> {}]
  /\ count = [s \in PodSpecs |-> 0]

Ask(r) ==
  /\ phase[r] = "idle"
  /\ phase' = [phase EXCEPT ![r] = "asked"]
  /\ UNCHANGED <<answer, found, count>>

\* A scan ends, for whoever has asked.
Find(s) ==
  /\ \E r \in Requests : PodSpecOf[r] = s /\ phase[r] # "idle"
  /\ \E outcome \in {"infos", "error"} :
       found' = [found EXCEPT ![s] = @ \cup {outcome}]
  /\ UNCHANGED <<phase, answer, count>>

Answer(r, a) ==
  /\ phase[r] = "asked"
  /\ phase' = [phase EXCEPT ![r] = "answered"]
  /\ answer' = [answer EXCEPT ![r] = a]

AnswerFound(r) ==
  /\ \/ "infos" \in found[PodSpecOf[r]] /\ Answer(r, "infos")
     \/ "error" \in found[PodSpecOf[r]]
          /\ \E a \in {"storedError", "scanError"} : Answer(r, a)
  /\ UNCHANGED <<found, count>>

\* The only answer that keeps the pod out of the cluster by itself.
Block(r) ==
  /\ Answer(r, "unscanned")
  /\ \E n \in 1 .. Threshold - 1 : count' = [count EXCEPT ![PodSpecOf[r]] = n]
  /\ UNCHANGED found

GiveUp(r) ==
  /\ count[PodSpecOf[r]] = Threshold - 1
  /\ Answer(r, "timeoutError")
  /\ UNCHANGED <<found, count>>

\* The timeout cannot be counted.
Fail(r) ==
  /\ Answer(r, "cacheError")
  /\ UNCHANGED <<found, count>>

\* The count is written once more, reset, or expires.
Recount(s) ==
  /\ \E n \in 0 .. Threshold - 1 : count' = [count EXCEPT ![s] = n]
  /\ UNCHANGED <<phase, answer, found>>

\* A replica ends with the requests that it serves.
Lose(R) ==
  /\ \A r \in R : phase[r] = "asked"
  /\ phase' = [r \in Requests |-> IF r \in R THEN "lost" ELSE phase[r]]
  /\ UNCHANGED <<answer, found, count>>

Next ==
  \/ \E r \in Requests :
       Ask(r) \/ AnswerFound(r) \/ Block(r) \/ GiveUp(r) \/ Fail(r)
  \/ \E s \in PodSpecs : Find(s) \/ Recount(s)
  \/ \E R \in SUBSET Requests : Lose(R)

Spec == Init /\ [][Next]_vars
=============================================================================
