----------------------------- MODULE MCRateLimit -----------------------------
(* A small instance of RateLimit for TLC: two ticks to a second, so that a    *)
(* bucket holds fractions of a token.                                         *)
EXTENDS RateLimitInv, TLC

CONSTANTS k1, k2

Interchangeable == Permutations(Key)
=============================================================================
