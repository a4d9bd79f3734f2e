------------------------- MODULE MC_RateBucketRows -------------------------
(* Instances of RateBucketRows for TLC; workers are interchangeable.       *)
EXTENDS RateBucketRows, TLC

Symmetry == Permutations(Workers)
=============================================================================
