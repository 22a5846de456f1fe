---------------------------- MODULE MCRateLimiter ----------------------------
(* Calls are interchangeable.                                              *)
EXTENDS RateLimiter, TLC

Symmetry == Permutations(Call)
=============================================================================
