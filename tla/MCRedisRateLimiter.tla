--------------------------- MODULE MCRedisRateLimiter ---------------------------
(***************************************************************************)
(* Instance of RedisRateLimiter for TLC: requests are interchangeable.     *)
(***************************************************************************)
EXTENDS RedisRateLimiter, TLC

CONSTANTS q1, q2, q3, k1, h1

Symmetry == Permutations(Requests)
=============================================================================
