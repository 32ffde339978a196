--------------------------- MODULE MCRateLimiter ----------------------------
(***************************************************************************)
(* RateLimiter for TLC; the addresses are interchangeable.                 *)
(***************************************************************************)
EXTENDS RateLimiter, TLC

Symmetry == Permutations(IPs)
=============================================================================
