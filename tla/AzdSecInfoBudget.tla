-------------------------- MODULE AzdSecInfoBudget --------------------------
(***************************************************************************)
(* What the timeout status in redis is for: a pod spec whose results keep  *)
(* coming too late is blocked Threshold - 1 times in a row and is then let *)
(* through, and a pod spec whose results did come starts afresh            *)
(* (docs/AzdSecInfoREADME.md, the scenarios table). Two history variables  *)
(* are added to AzdSecInfo to say so; no step of it is changed.            *)
(***************************************************************************)
EXTENDS AzdSecInfo

VARIABLES
  blocks,  \* timeouts that blocked, since redis last held no count
  owed     \* results were delivered and the count of timeouts still stands

budgetVars == <<vars, blocks, owed>>

Blocked(k) ==
  {r \in Requests : KeyOf[r] = k /\ response[r] # "unscanned"
                                 /\ response'[r] = "unscanned"}

Delivered(k) ==
  {r \in Requests : KeyOf[r] = k /\ pc[r] = "select" /\ response'[r] = "infos"}

BudgetTypeOK ==
  /\ blocks \in [Keys -> Nat]
  /\ owed \in [Keys -> BOOLEAN]

BudgetInit ==
  /\ Init
  /\ blocks = [k \in Keys |-> 0]
  /\ owed = [k \in Keys |-> FALSE]

BudgetNext ==
  /\ Next
  /\ blocks' = [k \in Keys |->
                  IF TimeOutStatus(k)' = 0 THEN 0
                  ELSE blocks[k] + Cardinality(Blocked(k))]
  \* Until the count is gone or a later timeout has been counted.
  /\ owed' = [k \in Keys |->
                /\ TimeOutStatus(k)' # 0
                /\ Blocked(k) = {}
                /\ owed[k] \/ Delivered(k) # {}]

BudgetSpec == BudgetInit /\ [][BudgetNext]_budgetVars

FairBudgetSpec == BudgetSpec /\ Fairness

-----------------------------------------------------------------------------
\* At most Threshold - 1 timeouts of a pod spec block before one is let
\* through ("if it is the first or second there is timeout for this podSpec -
\* return unscanned result ... Otherwise return an error and don't block the
\* request"), whatever redis, the goroutines left behind by earlier requests
\* and crashes do. It takes that the requests of the pod spec come one by one.
BlocksWithinBudget == \A k \in Keys : blocks[k] < Threshold

\* README, "Timeout NOT encountered in current run": "Reset timeout status in
\* cache". Results that a worker delivered in time clear the count, or a later
\* timeout has been counted since (redis works and no replica crashes).
DeliveredResultsReset == \A k \in Keys : owed[k] ~> ~owed[k]
=============================================================================
