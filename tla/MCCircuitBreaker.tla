------------------------- MODULE MCCircuitBreaker -------------------------
(* Both circuit breakers on a small instance. *)
EXTENDS OptimizedCircuitBreaker, TLC

CONSTANTS g1, g2

TwoGoroutines == {g1, g2}
===========================================================================
