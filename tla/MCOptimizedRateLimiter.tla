---------------------- MODULE MCOptimizedRateLimiter ----------------------
(* OptimizedRateLimiter on a small instance. *)
EXTENDS OptimizedRateLimiter, TLC

CONSTANTS g1, g2

TwoGoroutines == {g1, g2}
OneOrTwo == {1, 2}
Symmetry == Permutations(Goroutines)
==========================================================================
