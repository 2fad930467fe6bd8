--------------------------- MODULE MCRateLimiter ---------------------------
(* RateLimiter for TLC.                                                     *)
EXTENDS RateLimiter, TLC

CONSTANTS c1, c2

TwoClients == {c1, c2}
ClientSymmetry == Permutations(Clients)
============================================================================
