--------------------------- MODULE MCCacheThreads ---------------------------
(* Instances of CacheThreads for TLC.                                       *)
EXTENDS CacheThreads, TLC

PtrSymmetry == Permutations(Ptrs)
BlockSymmetry == Permutations(Blocks)
Symmetry == PtrSymmetry \cup BlockSymmetry
=============================================================================
