---------------------------- MODULE MCTag2Digest ----------------------------
(* Instances of Tag2Digest for TLC.                                        *)
EXTENDS Tag2Digest, TLC

CONSTANTS c1, c2, i1, d1, d2

Symmetry == Permutations(Calls) \cup Permutations(Images) \cup Permutations(Digests)
=============================================================================
