---------------------------- MODULE MCRateLimiter ----------------------------
(* Instances of RateLimiter for TLC. *)
EXTENDS RateLimiter, TLC

CONSTANTS key1, key2, addr1, addr2

Clients == Permutations({key1, key2}) \cup Permutations({addr1, addr2})
=============================================================================
