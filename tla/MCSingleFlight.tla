-------------------------- MODULE MCSingleFlight --------------------------
(* SingleFlight on a small instance. *)
EXTENDS SingleFlight, TLC

CONSTANTS c1, c2, c3, k1, k2, x1, x2

ThreeCallers == {c1, c2, c3}
TwoKeys == {k1, k2}
TwoCalls == {x1, x2}
===========================================================================
