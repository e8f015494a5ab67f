--------------------------- MODULE MCRateLimiter ---------------------------
(* An instance of RateLimiter for TLC.                                     *)
EXTENDS RateLimiter, TLC

\* A long window after a short one, as the stages of the login.
MCWindow == <<2, 4>>
MCCount == <<1, 2>>

Symmetry == Permutations(Calls)
=============================================================================
