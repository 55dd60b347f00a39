----------------------------- MODULE MCReplica ------------------------------
(* Instances of Replica for TLC.                                           *)
EXTENDS Replica

CONSTANTS c1, c2, r1, r2, none

\* A deployment that can serve, and others that differ from it.
Sound ==
  [readable |-> TRUE, IsLocalDevelopment |-> FALSE, EnableCertRotation |-> TRUE,
   MSIClientId |-> TRUE, CacheExpirationTime |-> 1, HeartbeatFrequency |-> 5]

SomeConfigurations ==
  {Sound,
   [Sound EXCEPT !.EnableCertRotation = FALSE],
   [Sound EXCEPT !.IsLocalDevelopment = TRUE, !.MSIClientId = FALSE],
   [Sound EXCEPT !.MSIClientId = FALSE],
   [Sound EXCEPT !.readable = FALSE]}
  \cup {[Sound EXCEPT !.CacheExpirationTime = n] : n \in {-1, 0}}
  \cup {[Sound EXCEPT !.HeartbeatFrequency = n] : n \in {-1, 0}}
=============================================================================
