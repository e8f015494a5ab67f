------------------------- MODULE MCPermissionCache -------------------------
(* Instances of PermissionCache for TLC.                                   *)
EXTENDS PermissionCache, TLC

\* The founder is not interchangeable with the others.
Symmetry == Permutations(Users \ {Founder}) \cup Permutations(Reads) \cup Permutations(Writes)
=============================================================================
