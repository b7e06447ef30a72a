---------------------------- MODULE MCRateLimiter ----------------------------
(***************************************************************************)
(* RateLimiter on a small instance with one limiter type.                  *)
(***************************************************************************)
EXTENDS RateLimiter, TLC

CONSTANTS r1, r2, ip1, api

MCBurst == [lt \in LimiterTypes |-> 2]
MCRate  == [lt \in LimiterTypes |-> 1]

Symmetry == Permutations(Requests)
=============================================================================
