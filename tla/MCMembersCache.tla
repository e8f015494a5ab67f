--------------------------- MODULE MCMembersCache ---------------------------
(* Instances of MembersCache for TLC.                                      *)
EXTENDS MembersCache, TLC

Symmetry == Permutations(Readers) \cup Permutations(Changers)
=============================================================================
