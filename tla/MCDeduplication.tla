------------------------- MODULE MCDeduplication -------------------------
(* Deduplication on a small instance. *)
EXTENDS Deduplication, TLC

CONSTANTS c1, c2, c3, k1, k2, e1, e2, e3

ThreeCallers == {c1, c2, c3}
TwoKeys == {k1, k2}
ThreeEntries == {e1, e2, e3}
==========================================================================
