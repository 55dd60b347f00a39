---------------------------- MODULE MCAzdSecInfo ----------------------------
(* Instances of AzdSecInfo for TLC.                                        *)
EXTENDS AzdSecInfo

CONSTANTS r1, r2, k1, p1, p2

OneKey == [r \in Requests |-> k1]

\* A replica for each request.
TwoReplicas == [r \in Requests |-> IF r = r1 THEN p1 ELSE p2]
=============================================================================
