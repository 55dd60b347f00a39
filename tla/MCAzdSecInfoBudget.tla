------------------------- MODULE MCAzdSecInfoBudget -------------------------
(* Instances of AzdSecInfoBudget for TLC.                                  *)
EXTENDS AzdSecInfoBudget, TLC

CONSTANTS r1, r2, r3, k1, p1

OneKey == [r \in Requests |-> k1]
OneReplica == [r \in Requests |-> p1]

\* Sound: all requests share one pod spec and one replica.
Symmetry == Permutations(Requests)
=============================================================================
