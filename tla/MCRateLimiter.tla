-------------------------- MODULE MCRateLimiter --------------------------
(* RateLimiter on a small instance. *)
EXTENDS RateLimiter, TLC

CONSTANTS g1, g2

TwoGoroutines == {g1, g2}
NoneOrTwo == {0, 2}
Symmetry == Permutations(Goroutines)
==========================================================================
