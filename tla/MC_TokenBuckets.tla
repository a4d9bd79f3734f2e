-------------------------- MODULE MC_TokenBuckets --------------------------
(* Instances of TokenBuckets for TLC; workers and keys are interchangeable.*)
EXTENDS TokenBuckets, TLC

Symmetry == Permutations(Workers) \cup Permutations(Keys)
=============================================================================
