----------------------------- MODULE CacheUsers -----------------------------
(***************************************************************************)
(* What the modules on caches have in common: goroutines that share a      *)
(* cache and hold an entry of it between two steps of an operation.        *)
(***************************************************************************)
CONSTANTS
  Goroutines,  \* goroutines sharing the cache
  Keys,        \* cache keys of one shard
  None         \* nil

VARIABLES
  pc,     \* pc[g]: the next step of goroutine g
  entry   \* entry[g]: the entry g has got, or is about to store

At(g, label) == pc[g] = label
Goto(g, label) == pc' = [pc EXCEPT ![g] = label]
=============================================================================
