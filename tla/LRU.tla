--------------------------------- MODULE LRU ---------------------------------
(***************************************************************************)
(* What a cache with LRU eviction promises: entries are stored, one per    *)
(* key, in the order of their last use; an entry that is added or used is  *)
(* the newest; the entry evicted, for lack of room or before, is the       *)
(* oldest; nothing else changes the order.                                 *)
(*                                                                         *)
(* A cache that loses track of the order has promised nothing from then    *)
(* on.  OptimizedCache is shown to implement this.                         *)
(***************************************************************************)
EXTENDS Naturals, FiniteSets

CONSTANTS
  Entries,
  KeyOf,     \* KeyOf[e]: the key of entry e
  Capacity   \* with so many entries stored, a new one does not come for nothing

VARIABLES
  stored,    \* the entries stored
  newer,     \* the pairs of stored entries of which the first was used later
  lost       \* whether the order has been lost

vars == <<stored, newer, lost>>

Init ==
  /\ stored = {}
  /\ newer = {}
  /\ lost = FALSE

Among(S) == newer \intersect (S \X S)

\* The oldest entry, as a set; empty if nothing is stored.
Oldest == {x \in stored : \A y \in stored \ {x} : <<y, x>> \in newer}

Keep(S) ==
  /\ stored' = S
  /\ newer' = Among(S)

InFront(e, S) ==
  /\ stored' = S \union {e}
  /\ newer' = Among(S) \union ({e} \X S)

Use(e) ==
  /\ e \in stored
  /\ InFront(e, stored \ {e})

\* The entry of the same key goes, whether or not another one is evicted.
Add(e) ==
  /\ e \notin stored
  /\ \E evicted \in {{}, Oldest} :
       /\ Cardinality(stored) >= Capacity => evicted = Oldest
       /\ InFront(e, {x \in stored \ evicted : KeyOf[x] # KeyOf[e]})

Remove(e) ==
  /\ e \in stored
  /\ Keep(stored \ {e})

Clear == Keep({})

Lose ==
  /\ lost' = TRUE
  /\ stored' = {}
  /\ newer' = {}

Next ==
  /\ ~lost
  /\ \/ /\ Clear \/ \E e \in Entries : Use(e) \/ Add(e) \/ Remove(e)
        /\ UNCHANGED lost
     \/ Lose

Spec == Init /\ [][Next]_vars
=============================================================================
