--------------------------- MODULE MCHTTPCache ---------------------------
(* HTTPCache on a small instance. *)
EXTENDS HTTPCache, TLC

CONSTANTS g1, g2, k1

TwoGoroutines == {g1, g2}
OneKey == {k1}

Says(name, value) == [name |-> name, value |-> value]

Symmetry == Permutations(TwoGoroutines)

\* No headers; no-store; a max-age, given twice, with a stale window; a max-age
\* that is not a number, so that Expires counts; a max-age of 0 before an Expires.
SomeResponses == {
  [cacheControl |-> <<>>, expires |-> None],
  [cacheControl |-> <<Says("no-store", None)>>, expires |-> 2],
  [cacheControl |-> <<Says("max-age", 3), Says("stale-while-revalidate", 2), Says("max-age", 1)>>,
   expires |-> None],
  [cacheControl |-> <<Says("max-age", None)>>, expires |-> 2],
  [cacheControl |-> <<Says("max-age", 0)>>, expires |-> 3]}
==========================================================================
