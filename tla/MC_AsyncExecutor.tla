-------------------------- MODULE MC_AsyncExecutor --------------------------
(* Instances of AsyncExecutor for TLC; ids are interchangeable.            *)
EXTENDS AsyncExecutor, TLC

Symmetry == Permutations(Ids)
=============================================================================
