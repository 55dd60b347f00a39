-------------------------- MODULE MCContainerScan ---------------------------
(* An instance of ContainerScan for TLC.                                   *)
EXTENDS ContainerScan

CONSTANTS c1, c2, c3
=============================================================================
