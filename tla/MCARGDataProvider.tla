------------------------- MODULE MCARGDataProvider --------------------------
(* Instances of ARGDataProvider for TLC.                                   *)
EXTENDS ARGDataProvider, TLC

CONSTANTS c1, c2, d1, d2, i1, i2, i3

SomeRecordLists == {<<>>, <<"Healthy">>, <<"Healthy", "Finding">>}

\* One image is in two repositories.
SharedDigest == [i \in Images |-> IF i = i3 THEN d2 ELSE d1]

\* i1 and i2 differ in nothing else.
Symmetry == Permutations(Calls) \cup Permutations({i1, i2})
=============================================================================
