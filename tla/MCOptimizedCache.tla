------------------------- MODULE MCOptimizedCache -------------------------
(* OptimizedCache on a small instance. *)
EXTENDS OptimizedCache, TLC

CONSTANTS g1, g2, k1, k2, k3, k4, a1, a2, b1, c1, d1

TwoGoroutines == {g1, g2}
FourKeys == {k1, k2, k3, k4}
FiveEntries == {a1, a2, b1, c1, d1}
FirstKeyTwice == a1 :> k1 @@ a2 :> k1 @@ b1 :> k2 @@ c1 :> k3 @@ d1 :> k4

\* Goroutines, the two entries of k1, and the other keys, each with its entry,
\* may be renamed.
EntryOf == k2 :> b1 @@ k3 :> c1 @@ k4 :> d1
Renamed(p) == p @@ [e \in {b1, c1, d1} |-> EntryOf[p[FirstKeyTwice[e]]]]
Symmetry ==
  Permutations(Goroutines) \union Permutations({a1, a2})
    \union {Renamed(p) : p \in Permutations({k2, k3, k4})}

\* What the collector has taken back does not tell states apart.
View ==
  LET Kept(ptr) == [e \in Entries |-> IF Free(e) THEN None ELSE ptr[e]] IN
  <<[shard EXCEPT !.next = Kept(@), !.prev = Kept(@)], expired \intersect Stored(shard),
    hotPromoted, pc, entry, strayed, leaked>>

\* What the list looks like once a Get has strayed is not explored.
UpToTheFirstStray == ~strayed
===========================================================================
