-------------------------- MODULE MCCacheLifetime --------------------------
(* Instances of CacheLifetime for TLC.                                     *)
EXTENDS CacheLifetime, TLC

Symmetry == Permutations(Calls)
=============================================================================
