----------------------------- MODULE MCBuckets -----------------------------
(* Small instances of a bucket for TLC.                                    *)
EXTENDS Buckets, TLC

SafetySymmetry ==
  Permutations(Sites) \cup Permutations(Creators) \cup Permutations(Deleters)
=============================================================================
