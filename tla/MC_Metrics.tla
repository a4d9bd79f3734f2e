----------------------------- MODULE MC_Metrics -----------------------------
(* Instances of ApiKeys and Metrics for TLC.                               *)
EXTENDS Metrics

\* Every scope that ranks, one that is no rank, and one that is empty.
SomeScopes == {"read", "write", "admin", "ops", ""}
=============================================================================
