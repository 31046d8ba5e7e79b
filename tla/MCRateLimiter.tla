--------------------------- MODULE MCRateLimiter ----------------------------
(* Two threads, two addresses, a minute of two ticks.                         *)
EXTENDS RateLimiter, TLC

CONSTANTS t1, t2, a1, a2
MCSymmetry == Permutations({t1, t2})
=============================================================================
