--------------------------- MODULE MCAccessTokens ---------------------------
(* An instance of AccessTokens for TLC.                                    *)
EXTENDS AccessTokens, TLC

Symmetry == Permutations(Tokens) \cup Permutations(Families) \cup Permutations(Reqs)
=============================================================================
