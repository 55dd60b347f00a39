---------------------------- MODULE MCARGClient -----------------------------
(* An instance of ARGClient for TLC: every client of the policy, and scans *)
(* of one to four pages.                                                   *)
EXTENDS ARGClient

CONSTANT MaxRecords

AllClients == DOMAIN actionErrors

SomeScans == {[i \in 1..n |-> i] : n \in 1..MaxRecords}
=============================================================================
