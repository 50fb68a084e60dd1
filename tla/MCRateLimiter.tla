---------------------------- MODULE MCRateLimiter ----------------------------
(* RateLimiter with interchangeable calls.                                 *)
EXTENDS RateLimiter, TLC

CallSymmetry == Permutations(Calls)
=============================================================================
