---------------------------- MODULE MCRateLimiter ----------------------------
(* Two clients for TLC.                                                    *)
EXTENDS RateLimiter, TLC

CONSTANTS k1, k2

Clients == Permutations(Key)
=============================================================================
