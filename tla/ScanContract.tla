---------------------------- MODULE ScanContract ----------------------------
(***************************************************************************)
(* What the scan of a pod spec's containers promises                       *)
(* (AzdSecInfoProvider.getVulnSecInfoContainers): every container is       *)
(* looked up on its own; the answer tells of all of them, each by what its *)
(* own look-up found, or is the error of one of them.                      *)
(***************************************************************************)
CONSTANTS
  Containers,  \* the containers of a pod spec, init containers included
  Infos,       \* what a look-up may find
  Failed,      \* it ended with an error
  Pending      \* it has not ended

VARIABLES
  outcome,  \* what each container's look-up found
  answer,   \* "none", "results" or "error"
  results   \* of an answer with results: an info for each container

vars == <<outcome, answer, results>>

NoResults == <<>>

Init ==
  /\ outcome = [c \in Containers |-> Pending]
  /\ answer = "none"
  /\ results = NoResults

LookUp(c) ==
  /\ outcome[c] = Pending
  /\ \E o \in Infos \cup {Failed} : outcome' = [outcome EXCEPT ![c] = o]
  /\ UNCHANGED <<answer, results>>

AnswerAll ==
  /\ answer = "none"
  /\ \A c \in Containers : outcome[c] \in Infos
  /\ answer' = "results"
  /\ results' = outcome
  /\ UNCHANGED outcome

AnswerError ==
  /\ answer = "none"
  /\ \E c \in Containers : outcome[c] = Failed
  /\ answer' = "error"
  /\ UNCHANGED <<outcome, results>>

Next ==
  \/ \E c \in Containers : LookUp(c)
  \/ AnswerAll
  \/ AnswerError

Spec == Init /\ [][Next]_vars
=============================================================================
