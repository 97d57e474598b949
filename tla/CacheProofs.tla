----------------------------- MODULE CacheProofs -----------------------------
(***************************************************************************)
(* What holds of the caches for any number of goroutines, keys, entries    *)
(* and responses.                                                          *)
(*                                                                         *)
(* OptimizedCache, after any number of strayed Gets: its types, an entry's *)
(* place under its own key, and that only Set fills the store.  As long as *)
(* no Get strays: the LRU list is made of the stored entries, size counts  *)
(* them and the leaks, and the shard is a cache with LRU eviction.         *)
(*                                                                         *)
(* HTTPCache, whatever the clock does between two steps: no expired entry  *)
(* answers a Get, an entry lives as long as its headers say and no fresh   *)
(* one is lost but as said, and only Gets race at the map.                 *)
(*                                                                         *)
(* Each theorem is about one of the two, OptSpec or Spec; what they share  *)
(* are the names of CacheUsers.                                            *)
(***************************************************************************)
EXTENDS OptimizedCache, HTTPCache, FiniteSetTheorems, WellFoundedInduction, TLAPS

-----------------------------------------------------------------------------
(* OptimizedCache.                                                         *)

\* What every operation on a shard preserves.
Sound(s) ==
  /\ s \in ShardType
  /\ \A k \in Keys : s.store[k] # None => KeyOf[s.store[k]] = k

\* The operations below change the store in no other way than said.

LEMMA RemoveLRUSound ==
  ASSUME NEW s, Sound(s), NEW e \in Entries
  PROVE  Sound(RemoveLRU(s, e)) /\ RemoveLRU(s, e).store = s.store
<1> DEFINE Relink(ptr, from, to) ==
             [x \in Entries |-> IF x = e THEN None ELSE IF x = from THEN to ELSE ptr[x]]
<1>1. s \in ShardType
  BY DEF Sound
<1>2. s.next \in Pointers /\ s.prev \in Pointers
  BY <1>1 DEF ShardType
<1>3. s.next[e] \in Entries \union {None} /\ s.prev[e] \in Entries \union {None}
  BY <1>2 DEF Pointers
<1>4. /\ Relink(s.next, s.prev[e], s.next[e]) \in Pointers
      /\ Relink(s.prev, s.next[e], s.prev[e]) \in Pointers
  BY <1>2, <1>3 DEF Pointers
<1>5. RemoveLRU(s, e) =
        [s EXCEPT !.head = IF s.prev[e] = None THEN s.next[e] ELSE @,
                  !.tail = IF s.next[e] = None THEN s.prev[e] ELSE @,
                  !.next = Relink(s.next, s.prev[e], s.next[e]),
                  !.prev = Relink(s.prev, s.next[e], s.prev[e])]
  BY DEF RemoveLRU
<1> HIDE DEF Relink
<1>6. RemoveLRU(s, e) \in ShardType /\ RemoveLRU(s, e).store = s.store
  BY <1>1, <1>3, <1>4, <1>5 DEF ShardType
<1> QED BY <1>6 DEF Sound

LEMMA AddToLRUSound ==
  ASSUME NEW s, Sound(s), NEW e \in Entries
  PROVE  Sound(AddToLRU(s, e)) /\ AddToLRU(s, e).store = s.store
<1>1. s \in ShardType
  BY DEF Sound
<1>2. s.next \in Pointers /\ s.prev \in Pointers /\ s.head \in Entries \union {None}
  BY <1>1 DEF ShardType
<1>3. CASE s.head = None
  <2>1. AddToLRU(s, e) = [s EXCEPT !.head = e, !.tail = e]
    BY <1>3 DEF AddToLRU
  <2> QED BY <1>1, <2>1 DEF Sound, ShardType
<1>4. CASE s.head # None
  <2> DEFINE next == [s.next EXCEPT ![e] = s.head]
             prev == [s.prev EXCEPT ![s.head] = e]
  <2>1. next \in Pointers /\ prev \in Pointers
    BY <1>2, <1>4 DEF Pointers
  <2>2. AddToLRU(s, e) = [s EXCEPT !.head = e, !.next = next, !.prev = prev]
    BY <1>1, <1>4 DEF AddToLRU, ShardType
  <2> HIDE DEF next, prev
  <2>3. AddToLRU(s, e) \in ShardType /\ AddToLRU(s, e).store = s.store
    BY <1>1, <2>1, <2>2 DEF ShardType
  <2> QED BY <2>3 DEF Sound
<1> QED BY <1>3, <1>4

LEMMA ForgetSound ==
  ASSUME NEW s, Sound(s), NEW k \in Keys
  PROVE  Sound(Forget(s, k)) /\ Forget(s, k).store = [s.store EXCEPT ![k] = None]
BY SMTT(30) DEF Sound, Forget, ShardType, Pointers

LEMMA ResizeSound ==
  ASSUME NEW s, Sound(s), NEW n \in Int
  PROVE  Sound(Resize(s, n)) /\ Resize(s, n).store = s.store
BY SMTT(30) DEF Sound, Resize, ShardType, Pointers

\* The store before and after an operation that only takes entries out.
Shrinks(s, t) == \A k \in Keys : t.store[k] \in {s.store[k], None}

LEMMA EvictLRUSound ==
  ASSUME NEW s, Sound(s)
  PROVE  Sound(EvictLRU(s)) /\ Shrinks(s, EvictLRU(s))
<1>1. CASE s.tail = None
  BY <1>1 DEF EvictLRU, Shrinks
<1>2. CASE s.tail # None
  <2>1. s.tail \in Entries /\ KeyOf[s.tail] \in Keys /\ s.store \in [Keys -> Entries \union {None}]
    BY <1>2, ConfigAssumption DEF Sound, ShardType
  <2> DEFINE f == Forget(s, KeyOf[s.tail])
             r == RemoveLRU(f, s.tail)
  <2>2. Sound(f) /\ f.store = [s.store EXCEPT ![KeyOf[s.tail]] = None]
    BY <2>1, ForgetSound
  <2>3. Sound(r) /\ r.store = f.store
    BY <2>1, <2>2, RemoveLRUSound
  <2>4. Sound(Resize(r, -1)) /\ Resize(r, -1).store = r.store
    BY <2>3, ResizeSound
  <2>5. EvictLRU(s) = Resize(r, -1)
    BY <1>2 DEF EvictLRU
  <2> HIDE DEF f, r
  <2> QED BY <2>1, <2>2, <2>3, <2>4, <2>5 DEF Shrinks
<1> QED BY <1>1, <1>2

LEMMA MakeRoomSound ==
  ASSUME NEW s, Sound(s)
  PROVE  Sound(MakeRoom(s)) /\ Shrinks(s, MakeRoom(s))
BY EvictLRUSound DEF MakeRoom, Shrinks

LEMMA RemoveExistingSound ==
  ASSUME NEW s, Sound(s), NEW k \in Keys
  PROVE  Sound(RemoveExisting(s, k)) /\ RemoveExisting(s, k).store = s.store
<1>1. CASE s.store[k] = None
  BY <1>1 DEF RemoveExisting
<1>2. CASE s.store[k] # None
  <2>1. s.store[k] \in Entries
    BY <1>2 DEF Sound, ShardType
  <2> DEFINE r == RemoveLRU(s, s.store[k])
  <2>2. Sound(r) /\ r.store = s.store
    BY <2>1, RemoveLRUSound
  <2>3. Sound(Resize(r, -1)) /\ Resize(r, -1).store = r.store
    BY <2>2, ResizeSound
  <2> QED BY <1>2, <2>2, <2>3 DEF RemoveExisting
<1> QED BY <1>1, <1>2

LEMMA StoreSound ==
  ASSUME NEW s, Sound(s), NEW e \in Entries
  PROVE  /\ Sound(Store(s, e))
         /\ \A k \in Keys : Store(s, e).store[k] \in {s.store[k], e}
<1> DEFINE t == [s EXCEPT !.store[KeyOf[e]] = e]
<1>1. KeyOf[e] \in Keys
  BY ConfigAssumption
<1>2. Sound(t) /\ t.store = [s.store EXCEPT ![KeyOf[e]] = e]
  BY <1>1, SMTT(30) DEF Sound, ShardType, Pointers
<1>3. Sound(AddToLRU(t, e)) /\ AddToLRU(t, e).store = t.store
  BY <1>2, AddToLRUSound
<1>4. Sound(Store(s, e)) /\ Store(s, e).store = t.store
  BY <1>3, ResizeSound DEF Store
<1>5. s.store \in [Keys -> Entries \union {None}]
  BY DEF Sound, ShardType
<1> HIDE DEF t
<1> QED BY <1>1, <1>2, <1>4, <1>5

LEMMA AllocateSound ==
  ASSUME NEW s, Sound(s), NEW e \in Entries
  PROVE  Sound(Allocate(s, e)) /\ Allocate(s, e).store = s.store
<1> DEFINE next == [s.next EXCEPT ![e] = None]
           prev == [s.prev EXCEPT ![e] = None]
<1>1. s \in ShardType
  BY DEF Sound
<1>2. next \in Pointers /\ prev \in Pointers
  BY <1>1 DEF ShardType, Pointers
<1>3. Allocate(s, e) = [s EXCEPT !.next = next, !.prev = prev]
  BY <1>1 DEF Allocate, ShardType
<1> HIDE DEF next, prev
<1>4. Allocate(s, e) \in ShardType /\ Allocate(s, e).store = s.store
  BY <1>1, <1>2, <1>3 DEF ShardType
<1> QED BY <1>4 DEF Sound

-----------------------------------------------------------------------------

\* What an action does to the shard: it stays sound, and no action but Set puts
\* an entry into the store, and Set only one that nothing refers to.
Fills(s, t) ==
  \A k \in Keys : t.store[k] \notin {None, s.store[k]} => Free(t.store[k])

LEMMA ShrinkingFillsNothing ==
  ASSUME NEW s, NEW t, Shrinks(s, t)
  PROVE  Fills(s, t)
BY DEF Shrinks, Fills

LEMMA SetSound ==
  ASSUME OptTypeOK, NEW g \in Goroutines, NEW e \in Entries, Set(g, e)
  PROVE  Sound(shard') /\ Fills(shard, shard')
<1> DEFINE a == Allocate(shard, e)
           r == MakeRoom(a)
           x == RemoveExisting(r, KeyOf[e])
<1>1. Sound(shard) /\ KeyOf[e] \in Keys
  BY ConfigAssumption DEF OptTypeOK, Sound
<1>2. Sound(a) /\ a.store = shard.store
  BY <1>1, AllocateSound
<1>3. Sound(r) /\ Shrinks(a, r)
  BY <1>2, MakeRoomSound
<1>4. Sound(x) /\ x.store = r.store
  BY <1>1, <1>3, RemoveExistingSound
<1>5. shard' = Store(x, e) /\ Free(e)
  BY DEF Set
<1> HIDE DEF a, r, x
<1>6. Sound(shard') /\ \A k \in Keys : shard'.store[k] \in {x.store[k], e}
  BY <1>4, <1>5, StoreSound
<1> QED BY <1>2, <1>3, <1>4, <1>5, <1>6 DEF Shrinks, Fills

LEMMA DeleteSound ==
  ASSUME OptTypeOK, NEW g \in Goroutines, NEW k \in Keys, OptDelete(g, k)
  PROVE  Sound(shard') /\ Fills(shard, shard')
<1> DEFINE f == Forget(shard, k)
           r == RemoveLRU(f, shard.store[k])
<1>1. Sound(shard) /\ shard.store[k] \in Entries
  BY DEF OptDelete, OptTypeOK, Sound, ShardType
<1>2. Sound(f) /\ f.store = [shard.store EXCEPT ![k] = None]
  BY <1>1, ForgetSound
<1>3. Sound(r) /\ r.store = f.store
  BY <1>1, <1>2, RemoveLRUSound
<1>4. shard' = Resize(r, -1)
  BY DEF OptDelete
<1> HIDE DEF f, r
<1>5. Sound(shard') /\ shard'.store = r.store
  BY <1>3, <1>4, ResizeSound
<1>6. shard.store \in [Keys -> Entries \union {None}]
  BY <1>1 DEF Sound, ShardType
<1>7. Shrinks(shard, shard')
  BY <1>2, <1>3, <1>5, <1>6 DEF Shrinks
<1> QED BY <1>5, <1>7, ShrinkingFillsNothing

LEMMA ClearSound ==
  ASSUME OptTypeOK, NEW g \in Goroutines, OptClear(g)
  PROVE  Sound(shard') /\ Fills(shard, shard')
<1>1. shard \in ShardType
  BY DEF OptTypeOK
<1> DEFINE empty == [k \in Keys |-> None]
<1>2. empty \in [Keys -> Entries \union {None}] /\ \A k \in Keys : empty[k] = None
  OBVIOUS
<1>3. shard' = [shard EXCEPT !.store = empty, !.head = None, !.tail = None, !.size = 0]
  BY DEF OptClear
<1> HIDE DEF empty
<1>4. shard'.store = empty
  BY <1>1, <1>3 DEF ShardType
<1>5. shard' \in ShardType
  <2> DEFINE s == [shard EXCEPT !.store = empty, !.head = None, !.tail = None]
  <2>1. s \in ShardType
    BY <1>1, <1>2 DEF ShardType
  <2>2. shard' = [s EXCEPT !.size = 0]
    BY <1>3
  <2> HIDE DEF s
  <2> QED BY <2>1, <2>2 DEF ShardType
<1> QED BY <1>2, <1>4, <1>5 DEF Sound, Fills

LEMMA DropExpiredSound ==
  ASSUME OptTypeOK, NEW g \in Goroutines, DropExpired(g)
  PROVE  Sound(shard') /\ Fills(shard, shard')
<1> DEFINE e == entry[g]
           f == Forget(shard, KeyOf[e])
<1>1. Sound(shard) /\ e \in Entries /\ KeyOf[e] \in Keys
  BY ConfigAssumption DEF DropExpired, At, OptTypeOK, Sound
<1>2. shard' = RemoveLRU(f, e)
  BY DEF DropExpired
<1> HIDE DEF e
<1>3. Sound(f) /\ f.store = [shard.store EXCEPT ![KeyOf[e]] = None]
  BY <1>1, ForgetSound
<1> HIDE DEF f
<1>4. Sound(shard') /\ shard'.store = f.store
  BY <1>1, <1>2, <1>3, RemoveLRUSound
<1>5. shard.store \in [Keys -> Entries \union {None}]
  BY <1>1 DEF Sound, ShardType
<1>6. Shrinks(shard, shard')
  BY <1>1, <1>3, <1>4, <1>5 DEF Shrinks
<1> QED BY <1>4, <1>6, ShrinkingFillsNothing

LEMMA PromoteSound ==
  ASSUME OptTypeOK, NEW g \in Goroutines, Promote(g)
  PROVE  Sound(shard') /\ Fills(shard, shard')
<1> DEFINE e == entry[g]
           r == RemoveLRU(shard, e)
<1>1. Sound(shard) /\ e \in Entries
  BY DEF Promote, At, OptTypeOK, Sound
<1>2. shard' = AddToLRU(r, e)
  BY DEF Promote
<1> HIDE DEF e
<1>3. Sound(r) /\ r.store = shard.store
  BY <1>1, RemoveLRUSound
<1> HIDE DEF r
<1>4. Sound(shard') /\ shard'.store = shard.store
  BY <1>1, <1>2, <1>3, AddToLRUSound
<1> QED BY <1>4 DEF Fills

\* A step that leaves the shard alone.
LEMMA SameShard ==
  ASSUME OptTypeOK, UNCHANGED shard
  PROVE  Sound(shard') /\ Fills(shard, shard')
BY DEF OptTypeOK, Sound, Fills

LEMMA StepSound ==
  ASSUME OptTypeOK, [OptNext]_optVars
  PROVE  OptTypeOK' /\ Fills(shard, shard')
<1> USE DEF At
<1>1. ASSUME NEW g \in Goroutines, NEW k \in Keys, OptDelete(g, k)
      PROVE  OptTypeOK' /\ Fills(shard, shard')
  BY <1>1, DeleteSound DEF OptDelete, OptTypeOK, Sound
<1>2. ASSUME NEW g \in Goroutines, NEW k \in Keys, OptLookup(g, k)
      PROVE  OptTypeOK' /\ Fills(shard, shard')
  <2>1. shard.store[k] \in Entries
    BY <1>2 DEF OptLookup, OptTypeOK, ShardType
  <2> QED BY <1>2, <2>1, SameShard, ConfigAssumption
          DEF OptLookup, Enter, Goto, OptTypeOK, OptLabels
<1>3. ASSUME NEW g \in Goroutines, NEW e \in Entries, Set(g, e)
      PROVE  OptTypeOK' /\ Fills(shard, shard')
  BY <1>3, SetSound DEF Set, OptTypeOK, Sound
<1>4. ASSUME NEW g \in Goroutines, OptClear(g)
      PROVE  OptTypeOK' /\ Fills(shard, shard')
  BY <1>4, ClearSound DEF OptClear, OptTypeOK, Sound
<1>5. ASSUME NEW g \in Goroutines, DropExpired(g)
      PROVE  OptTypeOK' /\ Fills(shard, shard')
  <2>1. Sound(shard') /\ Fills(shard, shard')
    BY <1>5, DropExpiredSound
  <2>2. /\ pc' = [pc EXCEPT ![g] = "idle"] /\ entry' = [entry EXCEPT ![g] = None]
        /\ strayed' \in BOOLEAN /\ leaked' = leaked + 1 /\ UNCHANGED <<expired, hotPromoted>>
    BY <1>5 DEF DropExpired, Revisit, Return, Enter, Goto
  <2> QED BY <2>1, <2>2 DEF OptTypeOK, Sound, OptLabels
<1>6. ASSUME NEW g \in Goroutines, ClaimPromotion(g)
      PROVE  OptTypeOK' /\ Fills(shard, shard')
  BY <1>6, SameShard DEF ClaimPromotion, Return, Enter, Goto, OptTypeOK, OptLabels
<1>7. ASSUME NEW g \in Goroutines, Promote(g)
      PROVE  OptTypeOK' /\ Fills(shard, shard')
  BY <1>7, PromoteSound DEF Promote, Revisit, Goto, OptTypeOK, Sound, OptLabels
<1>8. ASSUME NEW g \in Goroutines, EndPromotion(g)
      PROVE  OptTypeOK' /\ Fills(shard, shard')
  BY <1>8, SameShard DEF EndPromotion, Return, Enter, Goto, OptTypeOK, OptLabels
<1>9. ASSUME NEW e \in Entries, Expire(e)
      PROVE  OptTypeOK' /\ Fills(shard, shard')
  BY <1>9, SameShard DEF Expire, OptTypeOK
<1>10. CASE UNCHANGED optVars
  BY <1>10, SameShard DEF optVars, OptTypeOK
<1> QED BY <1>1, <1>2, <1>3, <1>4, <1>5, <1>6, <1>7, <1>8, <1>9, <1>10 DEF OptNext

-----------------------------------------------------------------------------

\* Races or not, an entry is stored under its own key, and a goroutine that is
\* to come back with the write lock holds an entry.
THEOREM TypeCorrect == OptSpec => []OptTypeOK
<1>1. ASSUME OptInit PROVE OptTypeOK
  <2>1. [e \in Entries |-> None] \in Pointers
    BY DEF Pointers
  <2>2. shard \in ShardType /\ \A k \in Keys : shard.store[k] = None
    BY <1>1, <2>1 DEF OptInit, EmptyShard, ShardType
  <2> QED BY <1>1, <2>2 DEF OptInit, OptTypeOK, OptLabels
<1>2. OptTypeOK /\ [OptNext]_optVars => OptTypeOK'
  BY StepSound
<1> QED BY <1>1, <1>2, PTL DEF OptSpec

\* Races or not, only Set fills the store: no promotion and no clean-up brings
\* back what was deleted, evicted, cleared or found expired.
THEOREM NothingResurrected == OptSpec => NoResurrection
<1>1. OptTypeOK /\ [OptNext]_optVars
        => [\A k \in Keys :
              shard'.store[k] \notin {None, shard.store[k]} => Free(shard'.store[k])]_optVars
  BY StepSound DEF Fills
<1> QED BY <1>1, TypeCorrect, PTL DEF OptSpec, NoResurrection

-----------------------------------------------------------------------------
(* The LRU list.  The argument is about a list with given members: RemoveLRU *)
(* of a member takes it out, AddToLRU of an unlinked entry puts it in.  Each *)
(* operation on a shard changes the map and the members of the list alike.   *)

\* The entries of S, linked by next and prev from head to tail, each of them
\* reached from the head.
HasList(s, S) ==
  /\ s.head = None <=> S = {}
  /\ s.tail = None <=> S = {}
  /\ S # {} => s.head \in S /\ s.tail \in S
  /\ \A e \in S :
       /\ s.prev[e] = None <=> e = s.head
       /\ s.next[e] = None <=> e = s.tail
       /\ s.next[e] # None => s.next[e] \in S /\ s.prev[s.next[e]] = e
       /\ s.prev[e] # None => s.prev[e] \in S /\ s.next[s.prev[e]] = e
  /\ \A T \in SUBSET S :
       s.head \in T /\ (\A e \in T : s.next[e] \in T \union {None}) => T = S

\* What removing an entry from a list does to its links, and adding one in front.
Unlinks(s, e, r) ==
  /\ r.head = IF s.prev[e] = None THEN s.next[e] ELSE s.head
  /\ r.tail = IF s.next[e] = None THEN s.prev[e] ELSE s.tail
  /\ \A x \in Entries :
       /\ r.next[x] = IF x = e THEN None
                      ELSE IF x = s.prev[e] THEN s.next[e] ELSE s.next[x]
       /\ r.prev[x] = IF x = e THEN None
                      ELSE IF x = s.next[e] THEN s.prev[e] ELSE s.prev[x]

LinksFirst(s, e, r) ==
  /\ s.next[e] = None /\ s.prev[e] = None
  /\ r.head = e
  /\ r.tail = IF s.head = None THEN e ELSE s.tail
  /\ \A x \in Entries :
       /\ r.next[x] = IF x = e THEN s.head ELSE s.next[x]
       /\ r.prev[x] = IF x = s.head THEN e ELSE s.prev[x]

\* Members that hold the head, and the successor of each of them, are all.
LEMMA ReachedFromHead ==
  ASSUME NEW S, NEW s,
         HasList(s, S), NEW T, T \subseteq S, s.head \in T,
         \A e \in T : s.next[e] \in T \union {None}
  PROVE  T = S
BY DEF HasList

\* A list has no cycle at a single entry.
LEMMA NoSelfLoop ==
  ASSUME NEW S \in SUBSET Entries, NEW s,
         HasList(s, S), NEW e \in S
  PROVE  s.next[e] # e /\ s.prev[e] # e
<1> SUFFICES ASSUME s.next[e] = e \/ s.prev[e] = e PROVE FALSE
  OBVIOUS
<1>1. e # None
  BY ConfigAssumption
<1>2. s.next[e] = e /\ s.prev[e] = e
  BY <1>1 DEF HasList
<1>3. s.head \in S \ {e}
  BY <1>1, <1>2 DEF HasList
<1>4. \A x \in S \ {e} : s.next[x] \in (S \ {e}) \union {None}
  BY <1>2 DEF HasList
<1>5. S \ {e} = S
  BY <1>3, <1>4, ReachedFromHead
<1> QED BY <1>5

LEMMA RemovalFromList ==
  ASSUME NEW S \in SUBSET Entries, NEW s,
         HasList(s, S), NEW e \in S,
         NEW r, Unlinks(s, e, r)
  PROVE  HasList(r, S \ {e})
<1> USE DEF Unlinks
<1> DEFINE R == S \ {e}
           before == s.prev[e]
           after == s.next[e]
<1>1. before # e /\ after # e /\ None \notin S
  BY NoSelfLoop, ConfigAssumption
<1>2. /\ before # None => before \in R /\ s.next[before] = e
      /\ after # None => after \in R /\ s.prev[after] = e
      /\ before = None <=> e = s.head
      /\ after = None <=> e = s.tail
  BY <1>1 DEF HasList
<1>3. ASSUME before = None, after = None PROVE R = {}
  <2> DEFINE T == {e}
  <2>1. T \subseteq S /\ s.head \in T /\ \A x \in T : s.next[x] \in T \union {None}
    BY <1>2, <1>3
  <2> HIDE DEF T
  <2>2. T = S
    BY <2>1, ReachedFromHead
  <2> QED BY <2>2 DEF T
<1>4. s.head \in S /\ s.tail \in S
  BY DEF HasList
<1>5. /\ r.head = None <=> R = {}
      /\ r.tail = None <=> R = {}
      /\ R # {} => r.head \in R /\ r.tail \in R
  BY <1>1, <1>2, <1>3, <1>4
<1>6. ASSUME NEW x \in R
      PROVE  /\ r.prev[x] = None <=> x = r.head
             /\ r.next[x] = None <=> x = r.tail
             /\ r.next[x] # None => r.next[x] \in R /\ r.prev[r.next[x]] = x
             /\ r.prev[x] # None => r.prev[x] \in R /\ r.next[r.prev[x]] = x
  <2>1. /\ s.prev[x] = None <=> x = s.head
        /\ s.next[x] = None <=> x = s.tail
        /\ s.next[x] # None => s.next[x] \in S /\ s.prev[s.next[x]] = x
        /\ s.prev[x] # None => s.prev[x] \in S /\ s.next[s.prev[x]] = x
    BY DEF HasList
  <2>2. s.next[x] = e => x = before
    BY <1>1, <2>1
  <2>3. s.prev[x] = e => x = after
    BY <1>1, <2>1
  <2>4. r.next[x] = (IF x = before THEN after ELSE s.next[x])
    OBVIOUS
  <2>5. r.prev[x] = (IF x = after THEN before ELSE s.prev[x])
    OBVIOUS
  <2>6. r.prev[x] = None <=> x = r.head
    BY <1>1, <1>2, <2>1, <2>3, <2>5
  <2>7. r.next[x] = None <=> x = r.tail
    BY <1>1, <1>2, <2>1, <2>2, <2>4
  <2>8. r.next[x] # None => r.next[x] \in R /\ r.prev[r.next[x]] = x
    <3>1. CASE x = before
      BY <3>1, <1>1, <1>2, <2>4
    <3>2. CASE x # before
      <4> SUFFICES ASSUME s.next[x] # None PROVE s.next[x] \in R /\ r.prev[s.next[x]] = x
        BY <3>2, <2>4
      <4>1. s.next[x] \in R /\ s.prev[s.next[x]] = x
        BY <3>2, <2>1, <2>2
      <4>2. s.next[x] # after
        BY <3>2, <4>1, <1>1, <1>2
      <4> QED BY <4>1, <4>2
    <3> QED BY <3>1, <3>2
  <2>9. r.prev[x] # None => r.prev[x] \in R /\ r.next[r.prev[x]] = x
    <3>1. CASE x = after
      BY <3>1, <1>1, <1>2, <2>5
    <3>2. CASE x # after
      <4> SUFFICES ASSUME s.prev[x] # None PROVE s.prev[x] \in R /\ r.next[s.prev[x]] = x
        BY <3>2, <2>5
      <4>1. s.prev[x] \in R /\ s.next[s.prev[x]] = x
        BY <3>2, <2>1, <2>3
      <4>2. s.prev[x] # before
        BY <3>2, <4>1, <1>1, <1>2
      <4> QED BY <4>1, <4>2
    <3> QED BY <3>1, <3>2
  <2> QED BY <2>6, <2>7, <2>8, <2>9
<1>7. ASSUME NEW T \in SUBSET R, r.head \in T,
             \A x \in T : r.next[x] \in T \union {None}
      PROVE  T = R
  <2>1. \A x \in T : x # e /\ (x # before => s.next[x] \in T \union {None})
    BY <1>7
  <2>2. CASE before = None \/ before \in T
    <3>1. after \in T \union {None}
      BY <1>7, <1>1, <2>2
    <3>2. s.head \in T \union {e}
      BY <1>7, <1>2, <2>2
    <3> DEFINE U == T \union {e}
    <3>3. U \subseteq S /\ s.head \in U /\ e \in U
      BY <1>7, <3>2
    <3>4. \A x \in U : s.next[x] \in U \union {None}
      BY <1>1, <1>2, <1>7, <2>1, <2>2, <3>1
    <3> HIDE DEF U
    <3>5. U = S
      BY <3>3, <3>4, ReachedFromHead
    <3> QED BY <1>7, <3>5 DEF U
  <2>3. CASE before # None /\ before \notin T
    <3>1. s.head \in T /\ \A x \in T : s.next[x] \in T \union {None}
      BY <1>7, <2>1, <2>3
    <3> QED BY <3>1 DEF HasList
  <2> QED BY <2>2, <2>3
<1> HIDE DEF R, before, after
<1>8. HasList(r, R)
  BY <1>5, <1>6, <1>7 DEF HasList
<1> QED BY <1>8 DEF R

LEMMA AdditionToList ==
  ASSUME NEW S \in SUBSET Entries, NEW s,
         HasList(s, S), NEW e \in Entries, e \notin S,
         NEW r, LinksFirst(s, e, r)
  PROVE  HasList(r, S \union {e})
<1> USE DEF LinksFirst
<1> DEFINE R == S \union {e}
<1>1. None \notin R
  BY ConfigAssumption
<1>2. r.tail \in R
  BY DEF HasList
<1>3. ASSUME NEW x \in R
      PROVE  /\ r.prev[x] = None <=> x = e
             /\ r.next[x] = None <=> x = r.tail
             /\ r.next[x] # None => r.next[x] \in R /\ r.prev[r.next[x]] = x
             /\ r.prev[x] # None => r.prev[x] \in R /\ r.next[r.prev[x]] = x
  <2>1. CASE x = e
    BY <2>1, <1>1 DEF HasList
  <2>2. CASE x \in S
    <3>1. /\ s.prev[x] = None <=> x = s.head
          /\ s.next[x] = None <=> x = s.tail
          /\ s.next[x] # None => s.next[x] \in S /\ s.prev[s.next[x]] = x
          /\ s.prev[x] # None => s.prev[x] \in S /\ s.next[s.prev[x]] = x
          /\ s.head \in S
      BY <2>2 DEF HasList
    <3>2. r.next[x] = s.next[x] /\ r.prev[x] = IF x = s.head THEN e ELSE s.prev[x]
      BY <2>2
    <3>3. s.next[x] # None => s.next[x] # s.head
      BY <2>2, <3>1, <1>1 DEF HasList
    <3>4. s.next[x] # None => r.prev[s.next[x]] = x
      BY <3>1, <3>3
    <3>5. s.prev[x] # None => r.next[s.prev[x]] = x
      BY <3>1
    <3> QED BY <2>2, <1>1, <3>1, <3>2, <3>4, <3>5
  <2> QED BY <2>1, <2>2
<1>4. ASSUME NEW T \in SUBSET R, e \in T,
             \A x \in T : r.next[x] \in T \union {None}
      PROVE  T = R
  <2>1. CASE s.head = None
    BY <2>1, <1>4 DEF HasList
  <2>2. CASE s.head # None
    <3> DEFINE U == T \ {e}
    <3>1. s.head \in S
      BY <2>2 DEF HasList
    <3>2. s.head \in U
      BY <1>4, <2>2, <3>1
    <3>3. ASSUME NEW x \in U PROVE s.next[x] \in U \union {None}
      <4>1. s.next[x] \in T \union {None}
        BY <1>4
      <4>2. s.next[x] \in S \union {None}
        BY DEF HasList
      <4> QED BY <4>1, <4>2, <1>1
    <3>4. U = S
      BY <3>2, <3>3 DEF HasList
    <3> QED BY <1>4, <3>4
  <2> QED BY <2>1, <2>2
<1> HIDE DEF R
<1>5. R # {} /\ e \in R
  BY DEF R
<1>6. HasList(r, R)
  BY <1>1, <1>2, <1>3, <1>4, <1>5 DEF HasList
<1> QED BY <1>6 DEF R

-----------------------------------------------------------------------------
(* The operations on a shard, on its list. *)

Unlinked(s, e) == s.next[e] = None /\ s.prev[e] = None

\* The parts of a shard but the store.
SameList(s, t) ==
  /\ t.head = s.head /\ t.tail = s.tail /\ t.size = s.size
  /\ t.next = s.next /\ t.prev = s.prev

LEMMA ForgetList ==
  ASSUME NEW s, Sound(s), NEW k \in Keys
  PROVE  SameList(s, Forget(s, k))
BY DEF Sound, ShardType, Forget, SameList

LEMMA ResizeList ==
  ASSUME NEW s, Sound(s), NEW n \in Int
  PROVE  SameList(s, [Resize(s, n) EXCEPT !.size = s.size])
         /\ Resize(s, n).size = s.size + n
BY DEF Sound, ShardType, Resize, SameList

LEMMA RemoveLRUFields ==
  ASSUME NEW s, Sound(s), NEW e \in Entries, NEW r, r = RemoveLRU(s, e)
  PROVE  r.size = s.size /\ Unlinks(s, e, r)
<1> DEFINE Relink(ptr, from, to) ==
             [x \in Entries |-> IF x = e THEN None ELSE IF x = from THEN to ELSE ptr[x]]
           next == Relink(s.next, s.prev[e], s.next[e])
           prev == Relink(s.prev, s.next[e], s.prev[e])
<1>1. \A x \in Entries :
        /\ next[x] = IF x = e THEN None ELSE IF x = s.prev[e] THEN s.next[e] ELSE s.next[x]
        /\ prev[x] = IF x = e THEN None ELSE IF x = s.next[e] THEN s.prev[e] ELSE s.prev[x]
  OBVIOUS
<1>2. r = [s EXCEPT !.head = IF s.prev[e] = None THEN s.next[e] ELSE @,
                    !.tail = IF s.next[e] = None THEN s.prev[e] ELSE @,
                    !.next = next, !.prev = prev]
  BY DEF RemoveLRU
<1> HIDE DEF next, prev
<1>3. /\ r.size = s.size /\ r.next = next /\ r.prev = prev
      /\ r.head = (IF s.prev[e] = None THEN s.next[e] ELSE s.head)
      /\ r.tail = (IF s.next[e] = None THEN s.prev[e] ELSE s.tail)
  BY <1>2 DEF Sound, ShardType
<1> QED BY <1>1, <1>3 DEF Unlinks

LEMMA RemoveLRUList ==
  ASSUME NEW s, Sound(s), NEW S \in SUBSET Entries, HasList(s, S), NEW e \in S,
         NEW r, r = RemoveLRU(s, e)
  PROVE  /\ HasList(r, S \ {e})
         /\ r.size = s.size
         /\ Unlinked(r, e)
         /\ \A x \in Entries \ S : Unlinked(s, x) => Unlinked(r, x)
<1>1. r.size = s.size /\ Unlinks(s, e, r)
  BY RemoveLRUFields
<1>2. HasList(r, S \ {e})
  BY <1>1, RemovalFromList
<1>3. s.next[e] \in S \union {None} /\ s.prev[e] \in S \union {None}
  BY DEF HasList
<1>4. \A x \in Entries \ S : Unlinked(s, x) => Unlinked(r, x)
  BY <1>1, <1>3, ConfigAssumption DEF Unlinked, Unlinks
<1> QED BY <1>1, <1>2, <1>4 DEF Unlinked, Unlinks

\* addToLRU puts an entry before the head, whatever else the shard holds.
LEMMA AddToLRUFields ==
  ASSUME NEW s, Sound(s), NEW e \in Entries, Unlinked(s, e), s.head # e, NEW r, r = AddToLRU(s, e)
  PROVE  r.size = s.size /\ LinksFirst(s, e, r)
<1>1. CASE s.head = None
  <2>1. r = [s EXCEPT !.head = e, !.tail = e]
    BY <1>1 DEF AddToLRU
  <2> QED BY <1>1, <2>1, ConfigAssumption DEF Sound, ShardType, Unlinked, LinksFirst
<1>2. CASE s.head # None
  <2> DEFINE next == [s.next EXCEPT ![e] = s.head]
             prev == [s.prev EXCEPT ![s.head] = e]
  <2>1. r = [s EXCEPT !.head = e, !.next = next, !.prev = prev]
    BY <1>2 DEF AddToLRU, Sound, ShardType
  <2>2. /\ \A x \in Entries : next[x] = IF x = e THEN s.head ELSE s.next[x]
        /\ \A x \in Entries : prev[x] = IF x = s.head THEN e ELSE s.prev[x]
    BY DEF Sound, ShardType, Pointers
  <2> HIDE DEF next, prev
  <2> QED BY <1>2, <2>1, <2>2 DEF Sound, ShardType, LinksFirst, Unlinked
<1> QED BY <1>1, <1>2

LEMMA AddToLRUList ==
  ASSUME NEW s, Sound(s), NEW S \in SUBSET Entries, HasList(s, S),
         NEW e \in Entries, e \notin S, Unlinked(s, e), NEW r, r = AddToLRU(s, e)
  PROVE  HasList(r, S \union {e}) /\ r.size = s.size
<1>1. s.head # e
  BY ConfigAssumption DEF HasList
<1>2. r.size = s.size /\ LinksFirst(s, e, r)
  BY <1>1, AddToLRUFields
<1> QED BY <1>2, AdditionToList

\* A stored entry is the one under its key.
LEMMA StoredUnderKey ==
  ASSUME NEW s, Sound(s)
  PROVE  /\ Stored(s) \subseteq Entries
         /\ \A e : e \in Stored(s) <=> e \in Entries /\ s.store[KeyOf[e]] = e
BY ConfigAssumption DEF Sound, ShardType, Stored

\* A stored entry is forgotten together with its key.
LEMMA ForgetStored ==
  ASSUME NEW s, Sound(s), NEW e \in Stored(s), NEW f, f = Forget(s, KeyOf[e])
  PROVE  Sound(f) /\ SameList(s, f) /\ Stored(f) = Stored(s) \ {e}
<1>1. e \in Entries /\ KeyOf[e] \in Keys /\ s.store[KeyOf[e]] = e
  BY StoredUnderKey, ConfigAssumption
<1>2. Sound(f) /\ SameList(s, f) /\ f.store = [s.store EXCEPT ![KeyOf[e]] = None]
  BY <1>1, ForgetSound, ForgetList
<1>3. s.store \in [Keys -> Entries \union {None}]
  BY DEF Sound, ShardType
<1>4. \A k \in Keys : f.store[k] = IF k = KeyOf[e] THEN None ELSE s.store[k]
  BY <1>2, <1>3
<1>5. \A k \in Keys : s.store[k] = e => k = KeyOf[e]
  BY <1>1, ConfigAssumption DEF Sound
<1> QED BY <1>1, <1>2, <1>4, <1>5 DEF Stored

\* A list of S, and a size that counts S and n entries more.
Counted(s, S, n) ==
  /\ HasList(s, S)
  /\ IsFiniteSet(S)
  /\ s.size = Cardinality(S) + n

\* Whether a shard has a list of S is a matter of the ends and the links alone.
LEMMA SameLinks ==
  ASSUME NEW s, NEW t, NEW S, HasList(s, S),
         t.head = s.head, t.tail = s.tail, t.next = s.next, t.prev = s.prev
  PROVE  HasList(t, S)
BY DEF HasList

LEMMA SameCount ==
  ASSUME NEW s, NEW t, SameList(s, t), NEW S, NEW n, Counted(s, S, n)
  PROVE  Counted(t, S, n) /\ \A x : Unlinked(s, x) <=> Unlinked(t, x)
BY DEF SameList, Counted, HasList, Unlinked

LEMMA TakeOut ==
  ASSUME NEW s, Sound(s), NEW S \in SUBSET Entries, NEW n \in Nat, Counted(s, S, n),
         NEW e \in S, NEW r, r = Resize(RemoveLRU(s, e), -1)
  PROVE  /\ Sound(r) /\ r.store = s.store
         /\ Counted(r, S \ {e}, n)
         /\ Cardinality(S \ {e}) = Cardinality(S) - 1
         /\ \A x \in Entries \ S : Unlinked(s, x) => Unlinked(r, x)
<1> DEFINE q == RemoveLRU(s, e)
<1>1. HasList(s, S) /\ IsFiniteSet(S) /\ s.size = Cardinality(S) + n
  BY DEF Counted
<1>2. Sound(q) /\ q.store = s.store
  BY RemoveLRUSound
<1>3. /\ HasList(q, S \ {e}) /\ q.size = s.size
      /\ \A x \in Entries \ S : Unlinked(s, x) => Unlinked(q, x)
  BY <1>1, RemoveLRUList
<1> HIDE DEF q
<1>4. Sound(r) /\ r.store = s.store
  BY <1>2, ResizeSound DEF q
<1>5. /\ r.head = q.head /\ r.tail = q.tail /\ r.next = q.next /\ r.prev = q.prev
      /\ r.size = q.size - 1
  BY <1>2 DEF Resize, Sound, ShardType, q
<1>6. HasList(r, S \ {e}) /\ \A x : Unlinked(q, x) <=> Unlinked(r, x)
  BY <1>3, <1>5 DEF HasList, Unlinked
<1>7. /\ IsFiniteSet(S \ {e}) /\ Cardinality(S \ {e}) = Cardinality(S) - 1
      /\ Cardinality(S) \in Nat
  BY <1>1, FS_RemoveElement, FS_CardinalityType
<1> QED BY <1>1, <1>3, <1>4, <1>5, <1>6, <1>7 DEF Counted

\* Both at once: an entry leaves the map and the list.
LEMMA ForgetAndTakeOut ==
  ASSUME NEW s, Sound(s), NEW n \in Nat, Counted(s, Stored(s), n), NEW e \in Stored(s),
         NEW r, r = Resize(RemoveLRU(Forget(s, KeyOf[e]), e), -1)
  PROVE  /\ Sound(r)
         /\ Stored(r) = Stored(s) \ {e}
         /\ Counted(r, Stored(r), n)
         /\ Cardinality(Stored(r)) = Cardinality(Stored(s)) - 1
         /\ \A x \in Entries \ Stored(s) : Unlinked(s, x) => Unlinked(r, x)
<1> DEFINE f == Forget(s, KeyOf[e])
           S == Stored(s)
<1>1. Sound(f) /\ SameList(s, f) /\ Stored(f) = S \ {e} /\ S \subseteq Entries
  BY ForgetStored, StoredUnderKey
<1>2. Counted(f, S, n) /\ \A x : Unlinked(s, x) <=> Unlinked(f, x)
  BY <1>1, SameCount
<1> HIDE DEF f, S
<1>3. e \in S /\ r = Resize(RemoveLRU(f, e), -1)
  BY DEF f, S
<1>4. /\ Sound(r) /\ r.store = f.store
      /\ Counted(r, S \ {e}, n)
      /\ Cardinality(S \ {e}) = Cardinality(S) - 1
      /\ \A x \in Entries \ S : Unlinked(f, x) => Unlinked(r, x)
  BY <1>1, <1>2, <1>3, TakeOut
<1>5. Stored(r) = S \ {e}
  BY <1>1, <1>4 DEF Stored
<1> QED BY <1>2, <1>4, <1>5 DEF S

LEMMA MakeRoomCounted ==
  ASSUME NEW s, Sound(s), NEW n \in Nat, Counted(s, Stored(s), n),
         NEW r, r = MakeRoom(s)
  PROVE  /\ Sound(r)
         /\ Stored(r) \subseteq Stored(s)
         /\ Counted(r, Stored(r), n)
         /\ \/ Cardinality(Stored(r)) < Cardinality(Stored(s))
            \/ Stored(r) = {}
            \/ r = s /\ s.size < Threshold
         /\ \A x \in Entries \ Stored(s) : Unlinked(s, x) => Unlinked(r, x)
<1>1. Threshold \in Int /\ s.size \in Int
  BY ConfigAssumption DEF Threshold, Sound, ShardType
<1>2. CASE s.size < Threshold
  BY <1>1, <1>2 DEF MakeRoom
<1>3. CASE s.size >= Threshold /\ s.tail = None
  <2>1. r = s /\ Stored(s) = {}
    BY <1>1, <1>3 DEF MakeRoom, EvictLRU, Counted, HasList
  <2> QED BY <2>1
<1>4. CASE s.size >= Threshold /\ s.tail # None
  <2>1. s.tail \in Stored(s)
    BY <1>4 DEF Counted, HasList
  <2>2. r = Resize(RemoveLRU(Forget(s, KeyOf[s.tail]), s.tail), -1)
    BY <1>1, <1>4 DEF MakeRoom, EvictLRU
  <2>3. IsFiniteSet(Stored(s)) /\ Cardinality(Stored(s)) \in Nat
    BY FS_CardinalityType DEF Counted
  <2> QED BY <2>1, <2>2, <2>3, ForgetAndTakeOut
<1> QED BY <1>1, <1>2, <1>3, <1>4

LEMMA StoreCounted ==
  ASSUME NEW s, Sound(s), NEW S \in SUBSET Entries, NEW n \in Nat, Counted(s, S, n),
         NEW e \in Entries, e \notin S, Unlinked(s, e), S = Stored(s) \ {s.store[KeyOf[e]]},
         NEW r, r = Store(s, e)
  PROVE  /\ Sound(r)
         /\ Stored(r) = S \union {e}
         /\ Counted(r, Stored(r), n)
         /\ Cardinality(Stored(r)) = Cardinality(S) + 1
<1> DEFINE t == [s EXCEPT !.store[KeyOf[e]] = e]
           a == AddToLRU(t, e)
<1>1. KeyOf[e] \in Keys /\ e # None
  BY ConfigAssumption
<1>2. Sound(t) /\ t.store = [s.store EXCEPT ![KeyOf[e]] = e]
  BY <1>1, SMTT(30) DEF Sound, ShardType, Pointers
<1>3. SameList(s, t)
  BY DEF SameList, Sound, ShardType
<1> HIDE DEF t
<1>4. Counted(t, S, n) /\ Unlinked(t, e)
  BY <1>3, SameCount
<1>5. HasList(a, S \union {e}) /\ a.size = t.size
  BY <1>2, <1>4, AddToLRUList DEF Counted
<1>6. Sound(a) /\ a.store = t.store /\ r = Resize(a, 1)
  BY <1>2, AddToLRUSound DEF Store, t
<1> HIDE DEF a
<1>7. Sound(r) /\ r.store = a.store
  BY <1>6, ResizeSound
<1>8. /\ r.head = a.head /\ r.tail = a.tail /\ r.next = a.next /\ r.prev = a.prev
      /\ r.size = a.size + 1
  BY <1>6 DEF Resize, Sound, ShardType
<1>9. HasList(r, S \union {e})
  BY <1>5, <1>8, SameLinks
<1>10. Stored(r) = S \union {e}
  <2>1. s.store \in [Keys -> Entries \union {None}]
    BY DEF Sound, ShardType
  <2>2. \A k \in Keys : r.store[k] = IF k = KeyOf[e] THEN e ELSE s.store[k]
    BY <1>2, <1>6, <1>7, <2>1
  <2>3. \A k \in Keys \ {KeyOf[e]} : s.store[k] = s.store[KeyOf[e]] => s.store[k] = None
    BY <1>1 DEF Sound
  <2> QED BY <1>1, <2>2, <2>3 DEF Stored
<1>11. /\ IsFiniteSet(S \union {e}) /\ Cardinality(S \union {e}) = Cardinality(S) + 1
       /\ Cardinality(S) \in Nat
  BY FS_AddElement, FS_CardinalityType DEF Counted
<1>12. r.size = Cardinality(S) + n + 1
  BY <1>4, <1>5, <1>8 DEF Counted
<1> QED BY <1>7, <1>9, <1>10, <1>11, <1>12 DEF Counted

\* Set allocates an entry that is linked to nothing.
LEMMA AllocateFields ==
  ASSUME NEW s, Sound(s), NEW e \in Entries, NEW a, a = Allocate(s, e)
  PROVE  /\ a.head = s.head /\ a.tail = s.tail /\ a.size = s.size
         /\ \A x \in Entries : /\ a.next[x] = IF x = e THEN None ELSE s.next[x]
                               /\ a.prev[x] = IF x = e THEN None ELSE s.prev[x]
<1> DEFINE next == [s.next EXCEPT ![e] = None]
           prev == [s.prev EXCEPT ![e] = None]
<1>1. /\ \A x \in Entries : next[x] = IF x = e THEN None ELSE s.next[x]
      /\ \A x \in Entries : prev[x] = IF x = e THEN None ELSE s.prev[x]
  BY DEF Sound, ShardType, Pointers
<1>2. a = [s EXCEPT !.next = next, !.prev = prev]
  BY DEF Allocate, Sound, ShardType
<1> HIDE DEF next, prev
<1> QED BY <1>1, <1>2 DEF Sound, ShardType

LEMMA AllocateCounted ==
  ASSUME NEW s, Sound(s), NEW n, Counted(s, Stored(s), n),
         NEW e \in Entries \ Stored(s), NEW a, a = Allocate(s, e)
  PROVE  Stored(a) = Stored(s) /\ Counted(a, Stored(a), n) /\ Unlinked(a, e)
<1>1. Stored(s) \subseteq Entries
  BY StoredUnderKey
<1>2. Stored(a) = Stored(s)
  BY AllocateSound DEF Stored
<1>3. /\ a.head = s.head /\ a.tail = s.tail /\ a.size = s.size
      /\ \A x \in Entries : /\ a.next[x] = IF x = e THEN None ELSE s.next[x]
                            /\ a.prev[x] = IF x = e THEN None ELSE s.prev[x]
  BY AllocateFields
<1>4. /\ \A x \in Stored(s) : a.next[x] = s.next[x] /\ a.prev[x] = s.prev[x]
      /\ Unlinked(a, e)
  BY <1>1, <1>3 DEF Unlinked
<1> DEFINE S == Stored(s)
<1>5. HasList(s, S)
  BY DEF Counted
<1> HIDE DEF S
<1>6. \A x \in S : a.next[x] = s.next[x] /\ a.prev[x] = s.prev[x]
  BY <1>4 DEF S
<1>7. HasList(a, S)
  <2>1. \A x \in S : /\ a.prev[x] = None <=> x = a.head
                     /\ a.next[x] = None <=> x = a.tail
                     /\ a.next[x] # None => a.next[x] \in S /\ a.prev[a.next[x]] = x
                     /\ a.prev[x] # None => a.prev[x] \in S /\ a.next[a.prev[x]] = x
    BY <1>3, <1>5, <1>6 DEF HasList
  <2>2. ASSUME NEW T \in SUBSET S, a.head \in T,
               \A x \in T : a.next[x] \in T \union {None}
        PROVE  T = S
    <3>1. s.head \in T /\ \A x \in T : s.next[x] \in T \union {None}
      BY <1>3, <1>6, <2>2
    <3> QED BY <1>5, <3>1, ReachedFromHead
  <2>3. /\ a.head = None <=> S = {}
        /\ a.tail = None <=> S = {}
        /\ S # {} => a.head \in S /\ a.tail \in S
    BY <1>3, <1>5 DEF HasList
  <2> QED BY <2>1, <2>2, <2>3 DEF HasList
<1> QED BY <1>2, <1>3, <1>4, <1>7 DEF Counted, S

-----------------------------------------------------------------------------

\* The number of entries that the threshold lets a shard keep: at least one.
Room == IF Threshold = 0 THEN 1 ELSE Threshold

\* A shard in order, but for n leaked entries.
InOrder(s, n) ==
  /\ Counted(s, Stored(s), n)
  /\ Cardinality(Stored(s)) <= Room

LEMMA RoomType == Room \in Nat \ {0} /\ Threshold \in Nat /\ Threshold <= Room
BY ConfigAssumption DEF Room, Threshold

LEMMA SetInOrder ==
  ASSUME OptTypeOK, InOrder(shard, leaked), NEW g \in Goroutines, NEW e \in Entries, Set(g, e)
  PROVE  InOrder(shard', leaked')
<1> DEFINE n == leaked
           k == KeyOf[e]
           a == Allocate(shard, e)
           r == MakeRoom(a)
           x == RemoveExisting(r, k)
           S == Stored(r) \ {r.store[k]}
<1>1. Sound(shard) /\ n \in Nat /\ k \in Keys
  BY ConfigAssumption DEF OptTypeOK, Sound
<1>2. Counted(shard, Stored(shard), n) /\ Cardinality(Stored(shard)) <= Room
  BY DEF InOrder
<1>3. e \notin Stored(shard)
  BY DEF Set, Free, Roots
<1>4. shard' = Store(x, e) /\ leaked' = n
  BY DEF Set
<1> HIDE DEF n, k
<1>5. /\ Sound(a) /\ Stored(a) = Stored(shard)
      /\ Counted(a, Stored(a), n) /\ Unlinked(a, e)
  BY <1>1, <1>2, <1>3, AllocateSound, AllocateCounted
<1> HIDE DEF a
<1>6. /\ Sound(r) /\ Stored(r) \subseteq Stored(a) /\ Counted(r, Stored(r), n)
      /\ \/ Cardinality(Stored(r)) < Cardinality(Stored(a))
         \/ Stored(r) = {}
         \/ r = a /\ a.size < Threshold
      /\ Unlinked(r, e)
  BY <1>1, <1>3, <1>5, MakeRoomCounted
<1>7. /\ IsFiniteSet(Stored(r)) /\ Cardinality(Stored(r)) \in Nat
      /\ r.size = Cardinality(Stored(r)) + n
      /\ IsFiniteSet(Stored(a)) /\ Cardinality(Stored(a)) \in Nat
  BY <1>5, <1>6, FS_CardinalityType DEF Counted
<1>8. Cardinality(Stored(r)) < Room
  <2>1. CASE Cardinality(Stored(r)) < Cardinality(Stored(a))
    BY <2>1, <1>2, <1>5, <1>7, RoomType
  <2>2. CASE Stored(r) = {}
    BY <2>2, RoomType, FS_EmptySet
  <2>3. CASE r = a /\ a.size < Threshold
    BY <2>3, <1>1, <1>7, RoomType
  <2> QED BY <1>6, <2>1, <2>2, <2>3
<1>9. Stored(r) \subseteq Entries /\ e \notin Stored(r)
  BY <1>3, <1>5, <1>6, StoredUnderKey
<1> HIDE DEF r
<1>10. /\ Sound(x) /\ x.store = r.store
       /\ Counted(x, S, n) /\ Cardinality(S) <= Cardinality(Stored(r))
       /\ Unlinked(x, e)
  <2>1. CASE r.store[k] = None
    <3>1. S = Stored(r)
      BY <2>1 DEF Stored
    <3>2. x = r
      BY <2>1 DEF RemoveExisting
    <3> HIDE DEF S, x
    <3> QED BY <3>1, <3>2, <1>6, <1>7
  <2>2. CASE r.store[k] # None
    <3> DEFINE old == r.store[k]
               R == Stored(r)
    <3>1. old \in R /\ R \in SUBSET Entries /\ Counted(r, R, n) /\ S = R \ {old}
      BY <1>1, <1>6, <1>9, <2>2 DEF Stored
    <3>2. x = Resize(RemoveLRU(r, old), -1)
      BY <2>2 DEF RemoveExisting
    <3> HIDE DEF x, old, R, S
    <3>3. /\ Sound(x) /\ x.store = r.store /\ Counted(x, S, n)
          /\ Cardinality(S) = Cardinality(R) - 1
          /\ \A y \in Entries \ R : Unlinked(r, y) => Unlinked(x, y)
      BY <1>1, <1>6, <3>1, <3>2, TakeOut
    <3> QED BY <1>6, <1>7, <1>9, <3>3 DEF R
  <2> QED BY <2>1, <2>2
<1>11. S \subseteq Entries /\ e \notin S /\ S = Stored(x) \ {x.store[KeyOf[e]]}
  BY <1>9, <1>10 DEF Stored, k
<1> HIDE DEF S, x
<1>12. /\ Counted(shard', Stored(shard'), n)
       /\ Cardinality(Stored(shard')) = Cardinality(S) + 1
  BY <1>1, <1>4, <1>10, <1>11, StoreCounted
<1>13. Cardinality(S) \in Nat
  BY <1>10, FS_CardinalityType DEF Counted
<1>14. Cardinality(S) + 1 <= Room
  BY <1>7, <1>8, <1>10, <1>13, RoomType
<1> QED BY <1>4, <1>12, <1>14 DEF InOrder

LEMMA DeleteInOrder ==
  ASSUME OptTypeOK, InOrder(shard, leaked), NEW g \in Goroutines, NEW k \in Keys, OptDelete(g, k)
  PROVE  InOrder(shard', leaked')
<1> DEFINE e == shard.store[k]
<1>1. Sound(shard) /\ leaked \in Nat
  BY DEF OptTypeOK, Sound
<1>2. Counted(shard, Stored(shard), leaked) /\ Cardinality(Stored(shard)) <= Room
  BY DEF InOrder
<1>3. e \in Stored(shard) /\ KeyOf[e] = k
  BY <1>1 DEF OptDelete, Stored, Sound
<1>4. shard' = Resize(RemoveLRU(Forget(shard, k), e), -1) /\ leaked' = leaked
  BY DEF OptDelete
<1> HIDE DEF e
<1>5. /\ Counted(shard', Stored(shard'), leaked)
      /\ Cardinality(Stored(shard')) = Cardinality(Stored(shard)) - 1
  BY <1>1, <1>2, <1>3, <1>4, ForgetAndTakeOut
<1>6. Cardinality(Stored(shard)) \in Nat
  BY <1>2, FS_CardinalityType DEF Counted
<1> QED BY <1>2, <1>4, <1>5, <1>6, RoomType DEF InOrder

\* What was subtracted from the store is not from size: one leaked entry more.
LEMMA DropExpiredInOrder ==
  ASSUME OptTypeOK, InOrder(shard, leaked), NEW g \in Goroutines, DropExpired(g),
         entry[g] \in Stored(shard)
  PROVE  InOrder(shard', leaked')
<1> DEFINE e == entry[g]
           f == Forget(shard, KeyOf[e])
           S == Stored(shard)
<1>1. Sound(shard) /\ leaked \in Nat /\ e \in S /\ S \in SUBSET Entries
  BY StoredUnderKey DEF OptTypeOK, Sound
<1>2. Counted(shard, S, leaked) /\ Cardinality(S) <= Room
  BY DEF InOrder
<1>3. shard' = RemoveLRU(f, e) /\ leaked' = leaked + 1
  BY DEF DropExpired
<1>4. Sound(f) /\ SameList(shard, f) /\ Stored(f) = S \ {e}
  BY <1>1, ForgetStored
<1> HIDE DEF e, f, S
<1>5. Counted(f, S, leaked)
  BY <1>2, <1>4, SameCount
<1>6. HasList(shard', S \ {e}) /\ shard'.size = f.size /\ shard'.store = f.store
  BY <1>1, <1>3, <1>4, <1>5, RemoveLRUList, RemoveLRUSound DEF Counted
<1>7. /\ IsFiniteSet(S \ {e}) /\ Cardinality(S \ {e}) = Cardinality(S) - 1
      /\ Cardinality(S) \in Nat
  BY <1>1, <1>2, FS_RemoveElement, FS_CardinalityType DEF Counted
<1>8. Stored(shard') = S \ {e}
  BY <1>4, <1>6 DEF Stored
<1>9. shard'.size = Cardinality(S \ {e}) + leaked'
  BY <1>1, <1>3, <1>5, <1>6, <1>7 DEF Counted
<1>10. Cardinality(S \ {e}) <= Room
  BY <1>2, <1>7, RoomType
<1> QED BY <1>6, <1>7, <1>8, <1>9, <1>10 DEF InOrder, Counted

LEMMA PromoteInOrder ==
  ASSUME OptTypeOK, InOrder(shard, leaked), NEW g \in Goroutines, Promote(g),
         entry[g] \in Stored(shard)
  PROVE  InOrder(shard', leaked')
<1> DEFINE e == entry[g]
           r == RemoveLRU(shard, e)
           S == Stored(shard)
<1>1. Sound(shard) /\ e \in S /\ S \in SUBSET Entries
  BY StoredUnderKey DEF OptTypeOK, Sound
<1>2. Counted(shard, S, leaked) /\ Cardinality(S) <= Room
  BY DEF InOrder
<1>3. shard' = AddToLRU(r, e) /\ leaked' = leaked
  BY DEF Promote
<1> HIDE DEF e, S
<1>4. /\ HasList(r, S \ {e}) /\ r.size = shard.size /\ Unlinked(r, e)
      /\ Sound(r) /\ r.store = shard.store
  BY <1>1, <1>2, RemoveLRUList, RemoveLRUSound DEF Counted
<1> HIDE DEF r
<1>5. /\ HasList(shard', (S \ {e}) \union {e}) /\ shard'.size = r.size
      /\ shard'.store = r.store
  <2>1. e \notin S \ {e} /\ S \ {e} \in SUBSET Entries
    BY <1>1
  <2>2. shard'.store = r.store
    BY <1>1, <1>3, <1>4, AddToLRUSound
  <2> QED BY <1>1, <1>3, <1>4, <2>1, <2>2, AddToLRUList
<1>6. (S \ {e}) \union {e} = S
  BY <1>1
<1>7. Stored(shard') = S
  BY <1>4, <1>5 DEF Stored, S
<1>8. Counted(shard', S, leaked')
  BY <1>2, <1>3, <1>4, <1>5, <1>6 DEF Counted
<1> QED BY <1>2, <1>7, <1>8 DEF InOrder

\* An empty shard, whatever the entries' pointers are.
LEMMA EmptyInOrder ==
  ASSUME NEW s, \A k \in Keys : s.store[k] = None,
         s.head = None, s.tail = None, s.size = 0
  PROVE  InOrder(s, 0)
<1>1. Stored(s) = {}
  BY DEF Stored
<1>2. IsFiniteSet({}) /\ Cardinality({}) = 0
  BY FS_EmptySet
<1>3. HasList(s, {})
  BY DEF HasList
<1> QED BY <1>1, <1>2, <1>3, RoomType DEF InOrder, Counted

LEMMA ClearInOrder ==
  ASSUME OptTypeOK, NEW g \in Goroutines, OptClear(g)
  PROVE  InOrder(shard', leaked')
<1> DEFINE empty == [k \in Keys |-> None]
<1>1. \A k \in Keys : empty[k] = None
  OBVIOUS
<1>2. shard' = [shard EXCEPT !.store = empty, !.head = None, !.tail = None, !.size = 0]
  BY DEF OptClear
<1> HIDE DEF empty
<1>3. /\ shard'.store = empty /\ shard'.head = None /\ shard'.tail = None
      /\ shard'.size = 0
  BY <1>2 DEF OptTypeOK, ShardType
<1>4. InOrder(shard', 0)
  BY <1>1, <1>3, EmptyInOrder
<1> QED BY <1>4 DEF OptClear

-----------------------------------------------------------------------------

\* The inductive invariant: what a Get that strays may break, and no other step.
Unstrayed == ~strayed => InOrder(shard, leaked)

LEMMA StepInOrder ==
  ASSUME OptTypeOK, Unstrayed, [OptNext]_optVars
  PROVE  Unstrayed'
<1> SUFFICES ASSUME ~strayed' PROVE InOrder(shard', leaked')
  BY DEF Unstrayed, InOrder, Counted, HasList, Stored
<1>1. ASSUME NEW g \in Goroutines, NEW k \in Keys, OptDelete(g, k)
      PROVE  InOrder(shard', leaked')
  BY <1>1, DeleteInOrder DEF OptDelete, Unstrayed
<1>2. ASSUME NEW g \in Goroutines, NEW k \in Keys, OptLookup(g, k)
      PROVE  InOrder(shard', leaked')
  BY <1>2 DEF OptLookup, Unstrayed
<1>3. ASSUME NEW g \in Goroutines, NEW e \in Entries, Set(g, e)
      PROVE  InOrder(shard', leaked')
  BY <1>3, SetInOrder DEF Set, Unstrayed
<1>4. ASSUME NEW g \in Goroutines, OptClear(g)
      PROVE  InOrder(shard', leaked')
  BY <1>4, ClearInOrder
<1>5. ASSUME NEW g \in Goroutines, DropExpired(g)
      PROVE  InOrder(shard', leaked')
  <2>1. ~strayed /\ entry[g] \in Stored(shard)
    BY <1>5 DEF DropExpired, Revisit
  <2> QED BY <1>5, <2>1, DropExpiredInOrder DEF Unstrayed
<1>6. ASSUME NEW g \in Goroutines, ClaimPromotion(g)
      PROVE  InOrder(shard', leaked')
  BY <1>6 DEF ClaimPromotion, Unstrayed
<1>7. ASSUME NEW g \in Goroutines, Promote(g)
      PROVE  InOrder(shard', leaked')
  <2>1. ~strayed /\ entry[g] \in Stored(shard)
    BY <1>7 DEF Promote, Revisit
  <2> QED BY <1>7, <2>1, PromoteInOrder DEF Unstrayed
<1>8. ASSUME NEW g \in Goroutines, EndPromotion(g)
      PROVE  InOrder(shard', leaked')
  BY <1>8 DEF EndPromotion, Unstrayed
<1>9. ASSUME NEW e \in Entries, Expire(e)
      PROVE  InOrder(shard', leaked')
  BY <1>9 DEF Expire, Unstrayed
<1>10. CASE UNCHANGED optVars
  BY <1>10 DEF optVars, Unstrayed
<1> QED BY <1>1, <1>2, <1>3, <1>4, <1>5, <1>6, <1>7, <1>8, <1>9, <1>10 DEF OptNext

LEMMA UnstrayedInOrder == OptSpec => []Unstrayed
<1>1. ASSUME OptInit PROVE Unstrayed
  <2> DEFINE empty == [k \in Keys |-> None]
             free == [e \in Entries |-> None]
  <2>1. \A k \in Keys : empty[k] = None
    OBVIOUS
  <2>2. shard = [store |-> empty, head |-> None, tail |-> None, size |-> 0,
                 next |-> free, prev |-> free]
        /\ leaked = 0
    BY <1>1 DEF OptInit, EmptyShard
  <2> HIDE DEF empty, free
  <2> QED BY <2>1, <2>2, EmptyInOrder DEF Unstrayed
<1>2. OptTypeOK /\ Unstrayed /\ [OptNext]_optVars => Unstrayed'
  BY StepInOrder
<1> QED BY <1>1, <1>2, TypeCorrect, PTL DEF OptSpec

\* As long as every Get that comes back with the write lock finds its entry
\* still stored, removeLRU, addToLRU and evictLRU keep the LRU list equal to the
\* map: each stored entry is linked once, and reached from the head.
THEOREM ListIsTheStore == OptSpec => []ListIsStore
<1>1. Unstrayed => ListIsStore
  <2> SUFFICES ASSUME HasList(shard, Stored(shard)) PROVE Linked /\ Reached
    BY DEF Unstrayed, InOrder, Counted, ListIsStore
  <2>1. Linked
    BY DEF HasList, Linked
  <2>2. Reached
    BY DEF HasList, Reached
  <2> QED BY <2>1, <2>2
<1> QED BY <1>1, UnstrayedInOrder, PTL

\* As long as no Get strays, Set, Delete and evictLRU keep size the number of
\* stored entries and of those that Get dropped, and no more entries are stored
\* than the eviction threshold allows.
THEOREM SizeDriftsByLeaks == OptSpec => []SizeDrift
<1>1. Unstrayed => SizeDrift
  BY DEF Unstrayed, InOrder, Counted, SizeDrift, Room
<1> QED BY <1>1, UnstrayedInOrder, PTL

-----------------------------------------------------------------------------
(* OptimizedCache: the list is the order of use.  A position in the list   *)
(* would have to be computed by recursion; that one entry is before        *)
(* another is said with the sets closed under next instead.                *)

\* Who is in T stays in T when following next.
Closed(s, T) == \A x \in T : s.next[x] \in T \union {None}

\* Of the entries of S, the pairs of which the first is nearer the front: in
\* every part of S that is closed under next and has the first, the second is.
Before(s, S) ==
  {p \in S \X S : p[1] # p[2] /\ \A T \in SUBSET S : p[1] \in T /\ Closed(s, T) => p[2] \in T}

\* What a relation says of the members of S.
Pairs(R, S) == R \intersect (S \X S)

LEMMA BeforeMeans ==
  ASSUME NEW s, NEW S
  PROVE  /\ Before(s, S) \subseteq S \X S
         /\ \A x, y \in S :
              <<x, y>> \in Before(s, S) <=>
                x # y /\ \A T \in SUBSET S : x \in T /\ Closed(s, T) => y \in T
BY DEF Before

LEMMA SamePairs ==
  ASSUME NEW S, NEW A, NEW B, A \subseteq S \X S, B \subseteq S \X S,
         \A x, y \in S : <<x, y>> \in A <=> <<x, y>> \in B
  PROVE  A = B
<1>1. \A p \in S \X S : p \in A <=> p \in B
  <2> TAKE p \in S \X S
  <2>1. PICK x \in S, y \in S : p = <<x, y>>
    OBVIOUS
  <2> QED BY <2>1
<1> QED BY <1>1

LEMMA SameOrder ==
  ASSUME NEW s, NEW t, NEW S, \A x \in S : t.next[x] = s.next[x]
  PROVE  Before(t, S) = Before(s, S)
<1> DEFINE A == Before(t, S)
           B == Before(s, S)
<1>1. \A T \in SUBSET S : Closed(s, T) <=> Closed(t, T)
  BY DEF Closed
<1>2. A \subseteq S \X S /\ B \subseteq S \X S
  BY BeforeMeans
<1>3. \A x, y \in S : <<x, y>> \in A <=> <<x, y>> \in B
  BY <1>1, BeforeMeans
<1> HIDE DEF A, B
<1>4. A = B
  BY <1>2, <1>3, SamePairs
<1> QED BY <1>4 DEF A, B

\* removeLRU takes an entry out of the order and leaves the others in theirs.
LEMMA RemovedFromOrder ==
  ASSUME NEW S \in SUBSET Entries, NEW s, HasList(s, S), NEW e \in S,
         NEW r, Unlinks(s, e, r)
  PROVE  Before(r, S \ {e}) = Pairs(Before(s, S), S \ {e})
<1> DEFINE R == S \ {e}
           before == s.prev[e]
<1>1. before # e /\ s.next[e] # e /\ None \notin S
  BY NoSelfLoop, ConfigAssumption
<1>2. \A x \in R : r.next[x] = IF x = before THEN s.next[e] ELSE s.next[x]
  BY DEF Unlinks
<1>3. /\ before \in S => s.next[before] = e
      /\ \A x \in R : s.next[x] = e => x = before
  BY <1>1 DEF HasList
<1> HIDE DEF before
<1>4. ASSUME NEW x \in R, NEW y \in R, <<x, y>> \in Before(s, S)
      PROVE  <<x, y>> \in Before(r, R)
  <2> SUFFICES ASSUME NEW T \in SUBSET R, x \in T, Closed(r, T) PROVE y \in T
    BY <1>4, BeforeMeans
  <2> DEFINE U == IF before \in T THEN T \union {e} ELSE T
  <2>1. U \in SUBSET S /\ x \in U
    OBVIOUS
  <2>2. Closed(s, U)
    <3>1. ASSUME NEW z \in T PROVE s.next[z] \in U \union {None}
      <4>1. r.next[z] \in T \union {None} /\ z \in R
        BY DEF Closed
      <4>2. CASE z = before
        BY <4>2, <1>3
      <4>3. CASE z # before
        BY <4>1, <4>3, <1>2
      <4> QED BY <4>2, <4>3
    <3>2. ASSUME before \in T PROVE s.next[e] \in U \union {None}
      <4>1. r.next[before] \in T \union {None} /\ before \in R
        BY <3>2 DEF Closed
      <4> QED BY <4>1, <1>2
    <3> QED BY <3>1, <3>2 DEF Closed
  <2>3. y \in U
    BY <1>4, <2>1, <2>2, BeforeMeans
  <2> QED BY <2>3
<1>5. ASSUME NEW x \in R, NEW y \in R, <<x, y>> \in Before(r, R)
      PROVE  <<x, y>> \in Before(s, S)
  <2>1. x # y
    BY <1>5, BeforeMeans
  <2> SUFFICES ASSUME NEW T \in SUBSET S, x \in T, Closed(s, T) PROVE y \in T
    BY <2>1, BeforeMeans
  <2> DEFINE U == T \ {e}
  <2>2. U \in SUBSET R /\ x \in U
    OBVIOUS
  <2>3. Closed(r, U)
    <3> SUFFICES ASSUME NEW z \in U PROVE r.next[z] \in U \union {None}
      BY DEF Closed
    <3>1. s.next[z] \in T \union {None} /\ z \in R
      BY DEF Closed
    <3>2. CASE z = before
      <4>1. e \in T
        BY <3>1, <3>2, <1>1, <1>3
      <4>2. s.next[e] \in T \union {None}
        BY <4>1 DEF Closed
      <4> QED BY <3>1, <3>2, <4>2, <1>1, <1>2
    <3>3. CASE z # before
      BY <3>1, <3>3, <1>2, <1>3
    <3> QED BY <3>2, <3>3
  <2>4. y \in U
    BY <1>5, <2>2, <2>3, BeforeMeans
  <2> QED BY <2>4
<1> DEFINE A == Before(r, R)
           B == Pairs(Before(s, S), R)
<1>6. A \subseteq R \X R /\ B \subseteq R \X R
  BY BeforeMeans DEF Pairs
<1>7. \A x, y \in R : <<x, y>> \in A <=> <<x, y>> \in B
  BY <1>4, <1>5 DEF Pairs
<1> HIDE DEF A, B
<1>8. A = B
  BY <1>6, <1>7, SamePairs
<1> QED BY <1>8 DEF A, B

\* addToLRU puts an entry in front of all others.
LEMMA AddedInFront ==
  ASSUME NEW S \in SUBSET Entries, NEW s, HasList(s, S), NEW e \in Entries, e \notin S,
         NEW r, LinksFirst(s, e, r)
  PROVE  Before(r, S \union {e}) = Pairs(Before(s, S), S) \union ({e} \X S)
<1> DEFINE R == S \union {e}
<1>1. None \notin R
  BY ConfigAssumption
<1>2. r.next[e] = s.head /\ \A x \in S : r.next[x] = s.next[x]
  BY DEF LinksFirst
<1>3. \A x \in S : s.next[x] \in S \union {None}
  BY DEF HasList
<1>4. ASSUME NEW x \in S, NEW y \in S
      PROVE  <<x, y>> \in Before(s, S) <=> <<x, y>> \in Before(r, R)
  <2>1. ASSUME <<x, y>> \in Before(s, S), NEW T \in SUBSET R, x \in T, Closed(r, T)
        PROVE  y \in T
    <3> DEFINE U == T \intersect S
    <3>1. U \in SUBSET S /\ x \in U
      BY <2>1
    <3>2. Closed(s, U)
      BY <2>1, <1>2, <1>3 DEF Closed
    <3>3. y \in U
      BY <2>1, <3>1, <3>2, BeforeMeans
    <3> QED BY <3>3
  <2>2. ASSUME <<x, y>> \in Before(r, R), NEW T \in SUBSET S, x \in T, Closed(s, T)
        PROVE  y \in T
    <3>1. T \in SUBSET R /\ Closed(r, T)
      BY <2>2, <1>2 DEF Closed
    <3> QED BY <2>2, <3>1, BeforeMeans
  <2>3. <<x, y>> \in Before(s, S) => <<x, y>> \in Before(r, R)
    BY <2>1, BeforeMeans
  <2>4. <<x, y>> \in Before(r, R) => <<x, y>> \in Before(s, S)
    BY <2>2, BeforeMeans
  <2> QED BY <2>3, <2>4
<1>5. ASSUME NEW y \in S PROVE <<e, y>> \in Before(r, R)
  <2> SUFFICES ASSUME NEW T \in SUBSET R, e \in T, Closed(r, T) PROVE y \in T
    BY BeforeMeans
  <2> DEFINE U == T \intersect S
  <2>1. s.head \in S
    BY DEF HasList
  <2>2. U \subseteq S /\ s.head \in U
    BY <1>1, <1>2, <2>1 DEF Closed
  <2>3. \A x \in U : s.next[x] \in U \union {None}
    BY <1>2, <1>3 DEF Closed
  <2> HIDE DEF U
  <2>4. U = S
    BY <2>2, <2>3, ReachedFromHead
  <2> QED BY <2>4 DEF U
<1>6. ASSUME NEW x \in R PROVE <<x, e>> \notin Before(r, R)
  <2> SUFFICES ASSUME <<x, e>> \in Before(r, R) PROVE FALSE
    OBVIOUS
  <2>1. x \in S /\ S \in SUBSET R
    BY BeforeMeans
  <2>2. Closed(r, S)
    BY <1>2, <1>3 DEF Closed
  <2>3. e \in S
    BY <2>1, <2>2, BeforeMeans
  <2> QED BY <2>3
<1> DEFINE A == Before(r, R)
           B == Pairs(Before(s, S), S) \union ({e} \X S)
<1>7. A \subseteq R \X R /\ B \subseteq R \X R
  BY BeforeMeans DEF Pairs
<1>8. \A x, y \in R : <<x, y>> \in A <=> <<x, y>> \in B
  <2> TAKE x, y \in R
  <2>1. CASE y = e
    BY <2>1, <1>6 DEF Pairs
  <2>2. CASE x = e /\ y \in S
    BY <2>2, <1>5 DEF Pairs
  <2>3. CASE x \in S /\ y \in S
    BY <2>3, <1>4 DEF Pairs
  <2> QED BY <2>1, <2>2, <2>3
<1> HIDE DEF A, B
<1>9. A = B
  BY <1>7, <1>8, SamePairs
<1> QED BY <1>9 DEF A, B

\* Who follows next from any stored entry comes to the tail: next cannot map a
\* finite set to itself, one to one, and miss no member of it, for then prev would
\* lead from the head to all the rest and never into the set.
LEMMA ClosedHoldsTail ==
  ASSUME NEW S \in SUBSET Entries, NEW s, HasList(s, S), IsFiniteSet(S),
         NEW T \in SUBSET S, T # {}, Closed(s, T)
  PROVE  s.tail \in T
<1> SUFFICES ASSUME s.tail \notin T PROVE FALSE
  OBVIOUS
<1>1. None \notin S
  BY ConfigAssumption
<1>2. \A x \in T : s.next[x] \in T /\ s.prev[s.next[x]] = x
  BY <1>1 DEF HasList, Closed
<1> DEFINE f == [x \in T |-> s.next[x]]
<1>3. f \in [T -> T] /\ \A x, y \in T : f[x] = f[y] => x = y
  BY <1>2
<1>4. f \in Injection(T, T) /\ IsFiniteSet(T)
  BY <1>3, FS_Subset DEF Injection, IsInjective
<1>5. f \in Surjection(T, T)
  BY <1>4, FS_Injection
<1>6. \A y \in T : s.prev[y] \in T
  <2> TAKE y \in T
  <2>1. PICK x \in T : f[x] = y
    BY <1>5 DEF Surjection
  <2> QED BY <1>2, <2>1
<1> HIDE DEF f
<1> DEFINE C == S \ T
<1>7. C \subseteq S /\ s.head \in C
  <2>1. s.head \in S /\ s.tail \in S
    BY DEF HasList
  <2>2. s.head \notin T
    BY <2>1, ReachedFromHead DEF Closed
  <2> QED BY <2>1, <2>2
<1>8. \A x \in C : s.next[x] \in C \union {None}
  BY <1>6 DEF HasList
<1> HIDE DEF C
<1>9. C = S
  BY <1>7, <1>8, ReachedFromHead
<1> QED BY <1>9 DEF C

\* The entry behind all others is the tail, which is what evictLRU removes.
LEMMA TailIsOldest ==
  ASSUME NEW S \in SUBSET Entries, NEW s, HasList(s, S), IsFiniteSet(S)
  PROVE  {x \in S : \A y \in S \ {x} : <<y, x>> \in Before(s, S)}
           = IF s.tail = None THEN {} ELSE {s.tail}
<1>1. CASE s.tail = None
  BY <1>1 DEF HasList
<1>2. CASE s.tail # None
  <2>1. s.tail \in S /\ s.next[s.tail] = None
    BY <1>2 DEF HasList
  <2>2. \A y \in S \ {s.tail} : <<y, s.tail>> \in Before(s, S)
    BY <2>1, ClosedHoldsTail, BeforeMeans
  <2>3. ASSUME NEW x \in S, <<s.tail, x>> \in Before(s, S)
        PROVE  FALSE
    <3> DEFINE T == {s.tail}
    <3>1. T \in SUBSET S /\ s.tail \in T /\ Closed(s, T)
      BY <2>1 DEF Closed
    <3>2. x # s.tail /\ x \in T
      BY <2>1, <2>3, <3>1, BeforeMeans
    <3> QED BY <3>2
  <2>4. \A x \in S : (\A y \in S \ {x} : <<y, x>> \in Before(s, S)) <=> x = s.tail
    BY <2>1, <2>2, <2>3
  <2> QED BY <1>2, <2>1, <2>4
<1> QED BY <1>1, <1>2

-----------------------------------------------------------------------------

\* The order that the model states.
LEMMA AheadIsBefore ==
  ASSUME NEW s
  PROVE  Ahead(s) = Before(s, Stored(s))
BY DEF Ahead, Before, Closed

\* The same two lemmas of what removeLRU and addToLRU return, and of the shards
\* that differ from it in nothing but store and size.
LEMMA TakeOutOrder ==
  ASSUME NEW s, Sound(s), NEW S \in SUBSET Entries, HasList(s, S), NEW e \in S,
         NEW r, r.next = RemoveLRU(s, e).next
  PROVE  Before(r, S \ {e}) = Pairs(Before(s, S), S \ {e})
<1> DEFINE q == RemoveLRU(s, e)
<1>1. Before(q, S \ {e}) = Pairs(Before(s, S), S \ {e})
  BY RemoveLRUFields, RemovedFromOrder
<1> HIDE DEF q
<1>2. r.next = q.next
  BY DEF q
<1> QED BY <1>1, <1>2, SameOrder

LEMMA PutInFrontOrder ==
  ASSUME NEW s, Sound(s), NEW S \in SUBSET Entries, HasList(s, S),
         NEW e \in Entries, e \notin S, Unlinked(s, e),
         NEW r, r.next = AddToLRU(s, e).next
  PROVE  Before(r, S \union {e}) = Pairs(Before(s, S), S) \union ({e} \X S)
<1> DEFINE q == AddToLRU(s, e)
<1>1. s.head # e
  BY ConfigAssumption DEF HasList
<1>2. Before(q, S \union {e}) = Pairs(Before(s, S), S) \union ({e} \X S)
  BY <1>1, AddToLRUFields, AddedInFront
<1> HIDE DEF q
<1>3. r.next = q.next
  BY DEF q
<1> QED BY <1>2, <1>3, SameOrder

LEMMA ForgetAndTakeOutOrder ==
  ASSUME NEW s, Sound(s), HasList(s, Stored(s)), NEW e \in Stored(s),
         NEW r, r.next = RemoveLRU(Forget(s, KeyOf[e]), e).next
  PROVE  Before(r, Stored(s) \ {e}) = Pairs(Before(s, Stored(s)), Stored(s) \ {e})
<1> DEFINE f == Forget(s, KeyOf[e])
           S == Stored(s)
<1>1. Sound(f) /\ SameList(s, f) /\ S \in SUBSET Entries
  BY ForgetStored, StoredUnderKey
<1>2. HasList(f, S) /\ f.next = s.next
  BY <1>1, SameLinks DEF SameList
<1> HIDE DEF f, S
<1>3. e \in S /\ r.next = RemoveLRU(f, e).next
  BY DEF f, S
<1>4. Before(r, S \ {e}) = Pairs(Before(f, S), S \ {e})
  BY <1>1, <1>2, <1>3, TakeOutOrder
<1>5. Before(f, S) = Before(s, S)
  BY <1>2, SameOrder
<1> QED BY <1>4, <1>5 DEF S

LEMMA PairsOfPairs ==
  ASSUME NEW R, NEW A, NEW B \in SUBSET A
  PROVE  Pairs(Pairs(R, A), B) = Pairs(R, B)
BY DEF Pairs

\* What evictLRU removes, as a set.
OldestOf(s) == IF s.tail = None THEN {} ELSE {s.tail}

\* A shard that is full, and may be one that is not, loses its oldest entry.
LEMMA MakeRoomOrder ==
  ASSUME NEW s, Sound(s), NEW n \in Nat, Counted(s, Stored(s), n),
         NEW r, r = MakeRoom(s)
  PROVE  \E evicted \in {{}, OldestOf(s)} :
           /\ Cardinality(Stored(s)) >= Threshold => evicted = OldestOf(s)
           /\ Stored(r) = Stored(s) \ evicted
           /\ Before(r, Stored(r)) = Pairs(Before(s, Stored(s)), Stored(r))
<1> DEFINE S == Stored(s)
<1>1. /\ Threshold \in Int /\ s.size \in Int
      /\ HasList(s, S) /\ s.size = Cardinality(S) + n /\ Cardinality(S) \in Nat
  BY ConfigAssumption, FS_CardinalityType DEF Threshold, Sound, ShardType, Counted
<1>2. CASE s.size < Threshold \/ s.tail = None
  <2>1. r = s
    BY <1>1, <1>2 DEF MakeRoom, EvictLRU
  <2>2. Cardinality(S) >= Threshold => {} = OldestOf(s)
    BY <1>1, <1>2 DEF OldestOf
  <2>3. Before(s, S) = Pairs(Before(s, S), S)
    BY BeforeMeans DEF Pairs
  <2> HIDE DEF S
  <2>4. S = S \ {}
    OBVIOUS
  <2> QED BY <2>1, <2>2, <2>3, <2>4 DEF S
<1>3. CASE s.size >= Threshold /\ s.tail # None
  <2>1. s.tail \in S
    BY <1>1, <1>3 DEF HasList
  <2>2. r = Resize(RemoveLRU(Forget(s, KeyOf[s.tail]), s.tail), -1)
    BY <1>1, <1>3 DEF MakeRoom, EvictLRU
  <2>3. Stored(r) = S \ {s.tail}
    BY <2>1, <2>2, ForgetAndTakeOut
  <2>4. r.next = RemoveLRU(Forget(s, KeyOf[s.tail]), s.tail).next
    <3> DEFINE q == RemoveLRU(Forget(s, KeyOf[s.tail]), s.tail)
    <3>1. r = [q EXCEPT !.size = @ - 1]
      BY <2>2 DEF Resize
    <3>2. Sound(q)
      BY <2>1, StoredUnderKey, ForgetStored, RemoveLRUSound
    <3> HIDE DEF q
    <3>3. r.next = q.next
      BY <3>1, <3>2 DEF Sound, ShardType
    <3> QED BY <3>3 DEF q
  <2>5. Before(r, S \ {s.tail}) = Pairs(Before(s, S), S \ {s.tail})
    BY <1>1, <2>1, <2>4, ForgetAndTakeOutOrder
  <2> HIDE DEF S
  <2>6. OldestOf(s) = {s.tail}
    BY <1>3 DEF OldestOf
  <2> QED BY <2>3, <2>5, <2>6 DEF S
<1> QED BY <1>1, <1>2, <1>3

LEMMA ResizeNext ==
  ASSUME NEW s, Sound(s), NEW n \in Int
  PROVE  Resize(s, n).next = s.next
BY DEF Resize, Sound, ShardType

\* Set: the entry of the key goes, the new one comes to the front.
LEMMA SetOrder ==
  ASSUME OptTypeOK, InOrder(shard, leaked), NEW g \in Goroutines, NEW e \in Entries, Set(g, e)
  PROVE  \E evicted \in {{}, OldestOf(shard)}, kept \in SUBSET Entries :
           /\ kept = {y \in Stored(shard) \ evicted : KeyOf[y] # KeyOf[e]}
           /\ Cardinality(Stored(shard)) >= Threshold => evicted = OldestOf(shard)
           /\ Stored(shard') = kept \union {e}
           /\ Ahead(shard') = Pairs(Ahead(shard), kept) \union ({e} \X kept)
<1> DEFINE n == leaked
           k == KeyOf[e]
           a == Allocate(shard, e)
           r == MakeRoom(a)
           x == RemoveExisting(r, k)
           O == Stored(shard)
           R == Stored(r)
           S == R \ {r.store[k]}
<1>1. Sound(shard) /\ n \in Nat /\ k \in Keys
  BY ConfigAssumption DEF OptTypeOK, Sound
<1>2. Counted(shard, O, n) /\ O \subseteq Entries
  BY <1>1, StoredUnderKey DEF InOrder
<1>3. e \notin O
  BY DEF Set, Free, Roots
<1>4. shard' = Store(x, e)
  BY DEF Set
<1>5. /\ Sound(a) /\ Stored(a) = O /\ Counted(a, O, n) /\ Unlinked(a, e)
      /\ a.tail = shard.tail /\ \A y \in O : a.next[y] = shard.next[y]
  BY <1>1, <1>2, <1>3, AllocateSound, AllocateCounted, AllocateFields
<1>6. Before(a, O) = Before(shard, O) /\ OldestOf(a) = OldestOf(shard)
  BY <1>5, SameOrder DEF OldestOf
<1>7. /\ Sound(r) /\ R \subseteq O /\ Counted(r, R, n) /\ Unlinked(r, e)
  BY <1>1, <1>2, <1>3, <1>5, MakeRoomCounted
<1>8. PICK evicted \in {{}, OldestOf(shard)} :
        /\ Cardinality(O) >= Threshold => evicted = OldestOf(shard)
        /\ R = O \ evicted
        /\ Before(r, R) = Pairs(Before(a, O), R)
  BY <1>1, <1>5, <1>6, MakeRoomOrder
<1> HIDE DEF n, k, a
<1>9. S = {y \in R : KeyOf[y] # k} /\ S \subseteq R
  <2>1. \A y \in R : y \in Entries /\ r.store[KeyOf[y]] = y
    BY <1>7, StoredUnderKey
  <2>2. r.store[k] \in R => KeyOf[r.store[k]] = k
    BY <1>1, <1>7, <2>1, ConfigAssumption DEF Sound
  <2> QED BY <2>1, <2>2
<1>10. r.store[k] = None \/ r.store[k] \in R
  BY <1>1 DEF Stored
<1>11. None \notin R
  BY <1>2, <1>7, ConfigAssumption
<1> HIDE DEF r, R, O
<1>12. /\ Sound(x) /\ x.store = r.store
       /\ HasList(x, S) /\ Unlinked(x, e)
       /\ Before(x, S) = Pairs(Before(r, R), S)
  <2>1. CASE r.store[k] = None
    <3>1. S = R /\ x = r
      BY <2>1, <1>11 DEF RemoveExisting
    <3>2. Before(r, R) = Pairs(Before(r, R), R)
      BY BeforeMeans DEF Pairs
    <3> HIDE DEF S, x
    <3> QED BY <3>1, <3>2, <1>7 DEF Counted
  <2>2. CASE r.store[k] # None
    <3> DEFINE old == r.store[k]
    <3>1. old \in R /\ R \in SUBSET Entries /\ HasList(r, R) /\ S = R \ {old}
      BY <1>2, <1>7, <1>10, <2>2 DEF Counted
    <3>2. x = Resize(RemoveLRU(r, old), -1)
      BY <2>2 DEF RemoveExisting
    <3> HIDE DEF x, S, old
    <3>3. /\ Sound(x) /\ x.store = r.store /\ Counted(x, S, n)
          /\ \A y \in Entries \ R : Unlinked(r, y) => Unlinked(x, y)
      BY <1>1, <1>7, <3>1, <3>2, TakeOut
    <3>4. Sound(RemoveLRU(r, old))
      BY <1>7, <3>1, RemoveLRUSound
    <3>5. x.next = RemoveLRU(r, old).next
      BY <3>2, <3>4, ResizeNext
    <3>6. Before(x, S) = Pairs(Before(r, R), S)
      BY <1>7, <3>1, <3>5, TakeOutOrder
    <3> QED BY <1>3, <1>7, <3>3, <3>6 DEF Counted
  <2> QED BY <2>1, <2>2
<1> HIDE DEF S, x
<1>13. S \in SUBSET Entries /\ e \notin S
  BY <1>2, <1>3, <1>7, <1>9
<1>14. /\ Stored(shard') = S \union {e}
       /\ Before(shard', S \union {e}) = Pairs(Before(x, S), S) \union ({e} \X S)
  <2> DEFINE t == [x EXCEPT !.store[k] = e]
  <2>1. Sound(t) /\ t.store = [x.store EXCEPT ![k] = e] /\ SameList(x, t)
    BY <1>1, <1>12, ConfigAssumption, SMTT(30) DEF Sound, ShardType, Pointers, SameList, k
  <2>2. shard' = Resize(AddToLRU(t, e), 1)
    BY <1>4 DEF Store, k
  <2> HIDE DEF t
  <2>3. HasList(t, S) /\ Unlinked(t, e) /\ t.next = x.next
    BY <1>12, <2>1, SameLinks DEF SameList, Unlinked
  <2>4. Sound(AddToLRU(t, e)) /\ AddToLRU(t, e).store = t.store
    BY <2>1, AddToLRUSound
  <2>5. shard'.next = AddToLRU(t, e).next /\ shard'.store = t.store
    BY <2>2, <2>4, ResizeNext, ResizeSound
  <2>6. Before(shard', S \union {e}) = Pairs(Before(t, S), S) \union ({e} \X S)
    BY <1>13, <2>1, <2>3, <2>5, PutInFrontOrder
  <2>7. Before(t, S) = Before(x, S)
    BY <2>3, SameOrder
  <2>8. Stored(shard') = S \union {e}
    <3>1. x.store \in [Keys -> Entries \union {None}]
      BY <1>12 DEF Sound, ShardType
    <3>2. \A j \in Keys : shard'.store[j] = IF j = k THEN e ELSE r.store[j]
      BY <1>1, <1>12, <2>1, <2>5, <3>1
    <3>3. S = {r.store[j] : j \in Keys \ {k}} \ {None}
      <4>1. R = {r.store[j] : j \in Keys} \ {None}
        BY DEF R, Stored
      <4>2. \A j \in Keys : r.store[j] # None => KeyOf[r.store[j]] = j
        BY <1>7 DEF Sound
      <4> QED BY <1>1, <1>9, <4>1, <4>2
    <3>4. e # None
      BY ConfigAssumption
    <3> QED BY <1>1, <3>2, <3>3, <3>4 DEF Stored
  <2> QED BY <2>6, <2>7, <2>8
<1>15. Pairs(Before(x, S), S) = Pairs(Before(shard, O), S)
  BY <1>6, <1>7, <1>8, <1>9, <1>12, PairsOfPairs
<1>16. S = {y \in O \ evicted : KeyOf[y] # KeyOf[e]}
  BY <1>8, <1>9 DEF k
<1>17. /\ Ahead(shard) = Before(shard, O)
       /\ Ahead(shard') = Before(shard', S \union {e})
  BY <1>14, AheadIsBefore DEF O
<1> QED BY <1>8, <1>13, <1>14, <1>15, <1>16, <1>17 DEF O

\* Delete and the lazy removal of an expired entry take one entry out.
LEMMA DeleteOrder ==
  ASSUME OptTypeOK, InOrder(shard, leaked), NEW g \in Goroutines, NEW k \in Keys, OptDelete(g, k)
  PROVE  \E e \in Stored(shard) :
           /\ Stored(shard') = Stored(shard) \ {e}
           /\ Ahead(shard') = Pairs(Ahead(shard), Stored(shard) \ {e})
<1> DEFINE e == shard.store[k]
           q == RemoveLRU(Forget(shard, k), e)
<1>1. Sound(shard) /\ leaked \in Nat /\ Counted(shard, Stored(shard), leaked)
  BY DEF OptTypeOK, Sound, InOrder
<1>2. e \in Stored(shard) /\ KeyOf[e] = k
  BY <1>1 DEF OptDelete, Stored, Sound
<1>3. shard' = Resize(q, -1)
  BY DEF OptDelete
<1>4. Sound(q)
  BY <1>1, <1>2, StoredUnderKey, ForgetStored, RemoveLRUSound
<1>5. shard'.next = q.next
  BY <1>3, <1>4, ResizeNext
<1> HIDE DEF e
<1>6. Stored(shard') = Stored(shard) \ {e}
  BY <1>1, <1>2, <1>3, ForgetAndTakeOut
<1>7. Before(shard', Stored(shard) \ {e}) = Pairs(Before(shard, Stored(shard)), Stored(shard) \ {e})
  BY <1>1, <1>2, <1>5, ForgetAndTakeOutOrder DEF Counted
<1> QED BY <1>2, <1>6, <1>7, AheadIsBefore

LEMMA DropExpiredOrder ==
  ASSUME OptTypeOK, InOrder(shard, leaked), NEW g \in Goroutines, DropExpired(g),
         entry[g] \in Stored(shard)
  PROVE  \E e \in Stored(shard) :
           /\ Stored(shard') = Stored(shard) \ {e}
           /\ Ahead(shard') = Pairs(Ahead(shard), Stored(shard) \ {e})
<1> DEFINE e == entry[g]
           f == Forget(shard, KeyOf[e])
<1>1. Sound(shard) /\ Counted(shard, Stored(shard), leaked) /\ e \in Entries
  BY StoredUnderKey DEF OptTypeOK, Sound, InOrder
<1>2. shard' = RemoveLRU(f, e)
  BY DEF DropExpired
<1>3. Before(shard', Stored(shard) \ {e}) = Pairs(Before(shard, Stored(shard)), Stored(shard) \ {e})
  BY <1>1, <1>2, ForgetAndTakeOutOrder DEF Counted
<1> HIDE DEF e
<1>4. e \in Stored(shard)
  BY DEF e
<1>5. Sound(f) /\ Stored(f) = Stored(shard) \ {e}
  BY <1>1, <1>4, ForgetStored
<1> HIDE DEF f
<1>6. shard'.store = f.store
  BY <1>1, <1>2, <1>5, RemoveLRUSound
<1>7. Stored(shard') = Stored(shard) \ {e}
  BY <1>5, <1>6 DEF Stored
<1> QED BY <1>3, <1>4, <1>7, AheadIsBefore

\* A promotion brings an entry to the front.
LEMMA PromoteOrder ==
  ASSUME OptTypeOK, InOrder(shard, leaked), NEW g \in Goroutines, Promote(g),
         entry[g] \in Stored(shard)
  PROVE  \E e \in Stored(shard) :
           /\ Stored(shard') = Stored(shard)
           /\ Ahead(shard') = Pairs(Ahead(shard), Stored(shard) \ {e})
                                \union ({e} \X (Stored(shard) \ {e}))
<1> DEFINE e == entry[g]
           r == RemoveLRU(shard, e)
           S == Stored(shard)
           T == S \ {e}
<1>1. Sound(shard) /\ HasList(shard, S) /\ S \in SUBSET Entries /\ e \in S
  BY StoredUnderKey DEF OptTypeOK, Sound, InOrder, Counted
<1>2. shard' = AddToLRU(r, e)
  BY DEF Promote
<1> HIDE DEF e, S
<1>3. HasList(r, T) /\ Unlinked(r, e) /\ Sound(r) /\ r.store = shard.store
  BY <1>1, RemoveLRUList, RemoveLRUSound
<1>4. Before(r, T) = Pairs(Before(shard, S), T)
  BY <1>1, TakeOutOrder
<1> HIDE DEF r
<1>5. T \in SUBSET Entries /\ e \notin T /\ T \union {e} = S /\ e \in Entries
  BY <1>1
<1> HIDE DEF T
<1>6. Before(shard', T \union {e}) = Pairs(Before(r, T), T) \union ({e} \X T)
  BY <1>2, <1>3, <1>5, PutInFrontOrder
<1>7. Pairs(Before(r, T), T) = Pairs(Before(shard, S), T)
  BY <1>4, PairsOfPairs
<1>8. shard'.store = shard.store
  BY <1>2, <1>3, <1>5, AddToLRUSound
<1>9. Stored(shard') = S
  BY <1>8 DEF Stored, S
<1>10. Ahead(shard') = Before(shard', S) /\ Ahead(shard) = Before(shard, S)
  BY <1>9, AheadIsBefore DEF S
<1> QED BY <1>1, <1>5, <1>6, <1>7, <1>9, <1>10 DEF S, T

LEMMA EmptyOrder ==
  ASSUME NEW s, Stored(s) = {}
  PROVE  Ahead(s) = {}
BY DEF Ahead

\* Every step is a step of the abstract cache, or none that it sees; the step that
\* brings the first stray loses the order.
LEMMA OrderStep ==
  ASSUME OptTypeOK, Unstrayed, [OptNext]_optVars
  PROVE  [Recency!Next]_Recency!vars
<1> DEFINE O == Stored(shard)
           N == Stored(shard')
<1>1. strayed \in BOOLEAN /\ (strayed => strayed')
  BY DEF OptTypeOK, OptNext, optVars, OptDelete, OptLookup, Set, OptClear, DropExpired,
         ClaimPromotion, Promote, EndPromotion, Expire, Revisit
<1>2. CASE strayed
  BY <1>1, <1>2 DEF Recency!vars
<1>3. CASE ~strayed /\ strayed'
  BY <1>3 DEF Recency!Next, Recency!Lose
<1>4. CASE ~strayed /\ ~strayed'
  <2>1. InOrder(shard, leaked) /\ O \subseteq Entries
    BY <1>4, StoredUnderKey DEF Unstrayed, OptTypeOK, Sound
  <2>2. /\ Stored(shard)' = N /\ Ahead(shard)' = Ahead(shard')
        /\ strayed = FALSE /\ strayed' = FALSE
    BY <1>1, <1>4 DEF Stored, Ahead
  <2>3. ASSUME NEW S, N = S, Ahead(shard') = Pairs(Ahead(shard), S) PROVE Recency!Keep(S)
    BY <2>2, <2>3 DEF Recency!Keep, Recency!Among, Pairs
  <2>4. ASSUME NEW e, NEW S, N = S \union {e},
               Ahead(shard') = Pairs(Ahead(shard), S) \union ({e} \X S)
        PROVE  Recency!InFront(e, S)
    BY <2>2, <2>4 DEF Recency!InFront, Recency!Among, Pairs
  <2>5. ASSUME NEW e \in O, N = O \ {e}, Ahead(shard') = Pairs(Ahead(shard), O \ {e})
        PROVE  Recency!Next
    <3>1. Recency!Keep(O \ {e})
      BY <2>3, <2>5
    <3>2. e \in Entries
      BY <2>1
    <3> QED BY <2>2, <2>5, <3>1, <3>2 DEF Recency!Next, Recency!Remove
  <2>6. ASSUME NEW g \in Goroutines, NEW k \in Keys, OptDelete(g, k) PROVE Recency!Next
    BY <2>1, <2>5, <2>6, DeleteOrder
  <2>7. ASSUME NEW g \in Goroutines, DropExpired(g) PROVE Recency!Next
    <3>1. entry[g] \in O
      BY <1>4, <2>7 DEF DropExpired, Revisit
    <3> QED BY <2>1, <2>5, <2>7, <3>1, DropExpiredOrder
  <2>8. ASSUME NEW g \in Goroutines, Promote(g) PROVE Recency!Next
    <3>1. entry[g] \in O
      BY <1>4, <2>8 DEF Promote, Revisit
    <3>2. PICK e \in O :
            /\ N = O
            /\ Ahead(shard') = Pairs(Ahead(shard), O \ {e}) \union ({e} \X (O \ {e}))
      BY <2>1, <2>8, <3>1, PromoteOrder
    <3>3. N = (O \ {e}) \union {e} /\ e \in Entries
      BY <2>1, <3>2
    <3>4. Recency!InFront(e, O \ {e})
      BY <2>4, <3>2, <3>3
    <3> QED BY <2>2, <3>3, <3>4 DEF Recency!Next, Recency!Use
  <2>9. ASSUME NEW g \in Goroutines, OptClear(g) PROVE Recency!Next
    <3>1. N = {}
      <4> DEFINE empty == [k \in Keys |-> None]
      <4>1. shard'.store = empty
        BY <2>9 DEF OptClear, OptTypeOK, ShardType
      <4> QED BY <4>1 DEF Stored
    <3>2. Ahead(shard') = {}
      BY <3>1, EmptyOrder
    <3>3. Recency!Keep({})
      BY <2>3, <3>1, <3>2 DEF Pairs
    <3> QED BY <2>2, <3>3 DEF Recency!Next, Recency!Clear
  <2>10. ASSUME NEW g \in Goroutines, NEW e \in Entries, Set(g, e) PROVE Recency!Next
    <3>1. e \notin O
      BY <2>10 DEF Set, Free, Roots
    <3>2. PICK evicted \in {{}, OldestOf(shard)}, kept \in SUBSET Entries :
            /\ kept = {y \in O \ evicted : KeyOf[y] # KeyOf[e]}
            /\ Cardinality(O) >= Threshold => evicted = OldestOf(shard)
            /\ N = kept \union {e}
            /\ Ahead(shard') = Pairs(Ahead(shard), kept) \union ({e} \X kept)
      BY <2>1, <2>10, SetOrder
    <3>3. Recency!Oldest = OldestOf(shard)
      <4>1. HasList(shard, O) /\ IsFiniteSet(O)
        BY <2>1 DEF InOrder, Counted
      <4>2. {x \in O : \A y \in O \ {x} : <<y, x>> \in Ahead(shard)} = OldestOf(shard)
        BY <2>1, <4>1, TailIsOldest, AheadIsBefore DEF OldestOf
      <4> QED BY <2>2, <4>2 DEF Recency!Oldest
    <3>4. Recency!InFront(e, kept)
      BY <2>4, <3>2
    <3>5. Recency!Cardinality(O) = Cardinality(O)
      BY DEF Recency!Cardinality, Cardinality
    <3>6. Recency!Add(e)
      BY <2>2, <3>1, <3>2, <3>3, <3>4, <3>5 DEF Recency!Add
    <3> QED BY <2>2, <3>6 DEF Recency!Next
  <2>11. ASSUME NEW g \in Goroutines,
                OptClear(g) \/ DropExpired(g) \/ Promote(g)
                  \/ (\E k \in Keys : OptDelete(g, k)) \/ (\E e \in Entries : Set(g, e))
         PROVE  Recency!Next
    BY <2>6, <2>7, <2>8, <2>9, <2>10, <2>11
  <2>12. ASSUME NEW g \in Goroutines,
                ClaimPromotion(g) \/ EndPromotion(g) \/ \E k \in Keys : OptLookup(g, k)
         PROVE  UNCHANGED shard
    BY <2>12 DEF ClaimPromotion, EndPromotion, OptLookup
  <2>13. ASSUME (\E e \in Entries : Expire(e)) \/ UNCHANGED optVars
         PROVE  UNCHANGED shard
    BY <2>13 DEF Expire, optVars
  <2>14. ASSUME UNCHANGED shard PROVE UNCHANGED Recency!vars
    BY <2>2, <2>14 DEF Recency!vars
  <2> QED BY <2>11, <2>12, <2>13, <2>14 DEF OptNext
<1> QED BY <1>1, <1>2, <1>3, <1>4

\* "LRU eviction": until the first Get comes back for an entry that is no longer
\* stored, removeLRU, addToLRU and evictLRU keep the linked list in the order of
\* last use, and an entry evicted is the one used longest ago.
THEOREM ShardEvictsOldest == OptSpec => EvictsOldest
<1>1. ASSUME OptInit PROVE Recency!Init
  <2> DEFINE empty == [k \in Keys |-> None]
             free == [e \in Entries |-> None]
  <2>1. shard = [store |-> empty, head |-> None, tail |-> None, size |-> 0,
                 next |-> free, prev |-> free]
    BY <1>1 DEF OptInit, EmptyShard
  <2>2. \A k \in Keys : empty[k] = None
    OBVIOUS
  <2> HIDE DEF empty, free
  <2>3. Stored(shard) = {}
    BY <2>1, <2>2 DEF Stored
  <2>4. Ahead(shard) = {} /\ ~strayed
    BY <1>1, <2>3, EmptyOrder DEF OptInit
  <2> QED BY <1>1, <2>3, <2>4 DEF Recency!Init, OptInit
<1>2. OptTypeOK /\ Unstrayed /\ [OptNext]_optVars => [Recency!Next]_Recency!vars
  BY OrderStep
<1> QED BY <1>1, <1>2, TypeCorrect, UnstrayedInOrder, PTL DEF OptSpec, EvictsOldest, Recency!Spec

-----------------------------------------------------------------------------
(* HTTPCache: the headers.  Max is defined by CHOOSE: that the parts of a  *)
(* header have a last one needs a minimal element, of a set of naturals.   *)

\* The order of the naturals.
Less == {p \in Nat \X Nat : p[1] < p[2]}

LEMMA LessIsWellFounded == IsWellFoundedOn(Less, Nat)
<1>1. Less = OpToRel(<, Nat)
  BY DEF Less, OpToRel
<1> QED BY <1>1, NatLessThanWellFounded

\* The last of some positions of a sequence is one of them.
LEMMA LastPosition ==
  ASSUME NEW n \in Nat, NEW S, S \subseteq 1..n, S # {}
  PROVE  Max(S) \in S
<1> DEFINE T == {n - i : i \in S}
<1>1. T \subseteq Nat
  <2>1. \A i \in S : i \in 1..n
    OBVIOUS
  <2>2. \A i \in S : n - i \in Nat
    BY <2>1
  <2> QED BY <2>2
<1>2. T # {}
  OBVIOUS
<1>3. PICK t \in T : \A u \in T : ~ (<<u, t>> \in Less)
  BY <1>1, <1>2, LessIsWellFounded, WFMin
<1>4. \A u, v \in Nat : <<u, v>> \in Less <=> u < v
  BY DEF Less
<1>5. PICK m \in S : t = n - m
  OBVIOUS
<1>6. \A i \in S : m >= i
  <2> TAKE i \in S
  <2>1. n - i \in T /\ n - m \in T
    OBVIOUS
  <2>2. ~ (n - i < n - m)
    <3> HIDE DEF T
    <3> QED BY <1>1, <1>3, <1>4, <1>5, <2>1
  <2>3. i \in 1..n /\ m \in 1..n
    OBVIOUS
  <2> QED BY <2>2, <2>3
<1> QED BY <1>5, <1>6 DEF Max

\* What a directive is set to is a number, or nothing.
LEMMA DirectiveType ==
  ASSUME NEW cacheControl \in Seq(Part), NEW name
  PROVE  Directive(cacheControl, name) \in Int \union {None}
<1> DEFINE Parts == {i \in DOMAIN cacheControl :
                       cacheControl[i].name = name /\ cacheControl[i].value # None}
<1>1. \A i \in DOMAIN cacheControl : cacheControl[i] \in Part
  OBVIOUS
<1>2. CASE Parts = {}
  BY <1>2 DEF Directive
<1>3. CASE Parts # {}
  <2>1. Max(Parts) \in Parts
    <3>1. Parts \subseteq 1..Len(cacheControl) /\ Len(cacheControl) \in Nat
      OBVIOUS
    <3> HIDE DEF Parts
    <3> QED BY <1>3, <3>1, LastPosition
  <2>2. cacheControl[Max(Parts)].value \in Int \union {None}
    BY <1>1, <2>1 DEF Part
  <2>3. Directive(cacheControl, name) = cacheControl[Max(Parts)].value
    BY <1>3 DEF Directive
  <2> QED BY <2>2, <2>3
<1> QED BY <1>2, <1>3

LEMMA ExpiryType ==
  ASSUME NEW r \in Responses, NEW at \in Int
  PROVE  CacheExpiry(r, at) \in Int \union {None}
<1>1. r.cacheControl \in Seq(Part) /\ r.expires \in Int \union {None}
  BY CacheAssumption DEF Response
<1>2. Directive(r.cacheControl, "max-age") \in Int \union {None}
  BY <1>1, DirectiveType
<1> QED BY <1>1, <1>2 DEF CacheExpiry

LEMMA CacheEntryType ==
  ASSUME NEW r \in Responses, NEW at \in 0..MaxTime
  PROVE  /\ CacheEntry(r, at) \in EntryType
         /\ CacheEntry(r, at) # None
<1>1. r.cacheControl \in Seq(Part)
  BY CacheAssumption DEF Response
<1>2. /\ CacheExpiry(r, at) \in Int \union {None}
      /\ Directive(r.cacheControl, "stale-while-revalidate") \in Int \union {None}
  BY <1>1, ExpiryType, DirectiveType, CacheAssumption
<1>3. CacheEntry(r, at) \in EntryType
  BY <1>2 DEF CacheEntry, EntryType
<1> QED BY <1>3, CacheAssumption

-----------------------------------------------------------------------------
(* HTTPCache: what makes its invariants inductive.                         *)

\* A goroutine that holds the lock to write is alone at the map.
Exclusion ==
  \A g, h \in Goroutines :
    g # h /\ pc[g] \in Writing \ {"drop"} => pc[h] \notin Reading \union Writing

\* No instant that was noted is ahead of the clock, and none was noted out of order.
ReadingsInv ==
  /\ \A g \in Goroutines : began[g] <= now /\ (entry[g] # None => entry[g].received <= now)
  /\ \A k \in Keys :
       store[k] # None => store[k].received <= store[k].stored /\ store[k].stored <= now

\* What a Get knows of the entry it has found.
GetInv ==
  \A g \in Goroutines :
    /\ pc[g] \in {"check", "served", "servedStale"} => began[g] <= entry[g].expiresAt
    /\ At(g, "drop") => store[key[g]] = None \/ Expired(store[key[g]])
    /\ pc[g] \in {"lockLateDelete", "lateDelete"} => entry[g] # None /\ entry[g].expiresAt < now

\* What a Set knows of the lifetime of the entry it stores: for a provider,
\* expiresAt - ttl is the instant at which the lifetime was computed.
SetInvOf(g) ==
  LET e == entry[g] IN
    /\ pc[g] \in {"default", "until"} => mode # "TTLOnly"
    /\ At(g, "default") => Due(e) = e.received + TTL
    /\ At(g, "until") => e.expiresAt - Due(e) \in 0..(now - e.received)
    /\ pc[g] \in {"lockPut", "put"} =>
         IF mode = "TTLOnly"
           THEN ttl[g] = TTL
           ELSE LET computed == e.expiresAt - ttl[g]
                IN  /\ computed \in e.received..now
                    /\ e.expiresAt - Due(e) \in 0..(computed - e.received)

SetInv == \A g \in Goroutines : SetInvOf(g)

\* The inductive invariant.
IInv ==
  /\ TypeOK /\ RacesOnlyInGets /\ Exclusion
  /\ ReadingsInv /\ GetInv /\ SetInv /\ LifetimeKept

\* Storing an entry sets its deadline and notes when it went into the map.
LEMMA StampType ==
  ASSUME NEW e \in EntryType, NEW lifetime \in Int, now \in 0..MaxTime
  PROVE  /\ Stamp(e, lifetime) \in EntryType
         /\ Stamp(e, lifetime).expiresAt = now + lifetime
         /\ Stamp(e, lifetime).stored = now
         /\ Stamp(e, lifetime).received = e.received
         /\ Stamp(e, lifetime).response = e.response
<1>1. now + lifetime \in Int
  BY CacheAssumption
<1> QED BY <1>1 DEF Stamp, EntryType

LEMMA NextTypeOK ==
  ASSUME TypeOK, [Next]_vars
  PROVE  TypeOK'
<1> USE CacheAssumption DEF TypeOK, Labels, Reading, Writing, Goto, At, local
<1>1. CASE UNCHANGED vars
  BY <1>1 DEF vars
<1>2. CASE Tick
  BY <1>2 DEF Tick
<1>3. CASE Fatal
  BY <1>3 DEF Fatal
<1>4. ASSUME NEW g \in Goroutines, NEW k \in Keys, NEW label \in Labels,
             Call(g, k, label), label \in {"rlock", "lockDelete", "lockClear"}
      PROVE  TypeOK'
  BY <1>4 DEF Call
<1>5. ASSUME NEW g \in Goroutines, Step(g)
      PROVE  TypeOK'
  <2>1. CASE Get(g)
    BY <2>1, <1>4 DEF Get
  <2>2. CASE RLock(g)
    BY <2>2 DEF RLock
  <2>3. CASE Lookup(g)
    BY <2>3 DEF Lookup
  <2>4. CASE Drop(g)
    BY <2>4 DEF Drop
  <2>5. CASE Check(g)
    BY <2>5 DEF Check
  <2>6. CASE Receive(g)
    <3>1. CASE End(g)
      BY <2>6, <3>1 DEF Receive, End
    <3>2. ASSUME NEW r \in Responses,
                 entry' = [entry EXCEPT ![g] = CacheEntry(r, now)],
                 ttl' = [ttl EXCEPT ![g] = TTL],
                 began' = [began EXCEPT ![g] = 0],
                 pc' = [pc EXCEPT ![g] = IF mode = "TTLOnly" THEN "lockPut"
                                         ELSE IF CacheExpiry(r, now) = None THEN "default"
                                         ELSE "until"],
                 UNCHANGED key
          PROVE  TypeOK'
      <4>1. CacheEntry(r, now) \in EntryType /\ CacheEntry(r, now) # None
        BY CacheEntryType
      <4> QED BY <2>6, <3>2, <4>1 DEF Receive
    <3> QED BY <2>6, <3>1, <3>2 DEF Receive
  <2>7. CASE DefaultDeadline(g)
    <3>1. [entry[g] EXCEPT !.expiresAt = now + TTL] \in EntryType
      BY <2>7 DEF DefaultDeadline, EntryType
    <3> QED BY <2>7, <3>1 DEF DefaultDeadline
  <2>8. CASE Until(g)
    BY <2>8 DEF Until, EntryType
  <2>9. CASE Put(g)
    <3>1. entry[g] \in EntryType
      BY <2>9 DEF Put
    <3>2. key[g] \in Keys /\ ttl[g] \in Int
      OBVIOUS
    <3>3. Stamp(entry[g], ttl[g]) \in EntryType
      BY <3>1, <3>2, StampType
    <3>4. store' \in [Keys -> EntryType \union {None}]
      BY <2>9, <3>2, <3>3 DEF Put
    <3> QED BY <2>9, <3>4 DEF Put, End
  <2>10. CASE Invalidate(g)
    BY <2>10, <1>4 DEF Invalidate
  <2>11. CASE Delete(g)
    BY <2>11 DEF Delete, End
  <2>12. CASE CallClear(g)
    BY <2>12, <1>4 DEF CallClear
  <2>13. CASE Clear(g)
    BY <2>13 DEF Clear, End
  <2>14. CASE Lock(g)
    BY <2>14 DEF Lock
  <2> QED BY <1>5, <2>1, <2>2, <2>3, <2>4, <2>5, <2>6, <2>7, <2>8, <2>9, <2>10, <2>11,
             <2>12, <2>13, <2>14 DEF Step
<1> QED BY <1>1, <1>2, <1>3, <1>5 DEF Next

\* A goroutine may move to the map if the others there allow it.
LEMMA ExclusionMoves ==
  ASSUME TypeOK, Exclusion, NEW g \in Goroutines, NEW label, Goto(g, label),
         \/ label \notin Reading \union Writing
         \/ /\ label \in {"get", "drop"}
            /\ \A h \in Goroutines : h # g => pc[h] \notin Writing \ {"drop"}
         \/ \A h \in Goroutines : h # g => pc[h] \notin Reading \union Writing
  PROVE  Exclusion'
<1>1. \A h \in Goroutines : pc'[h] = IF h = g THEN label ELSE pc[h]
  BY DEF Goto, TypeOK
<1> QED BY <1>1 DEF Exclusion, Reading, Writing

LEMMA NextExclusion ==
  ASSUME TypeOK, Exclusion, [Next]_vars
  PROVE  Exclusion'
<1> USE DEF At
<1>1. CASE UNCHANGED pc
  BY <1>1 DEF Exclusion
<1>2. ASSUME NEW g \in Goroutines, Step(g)
      PROVE  Exclusion'
  <2>1. ASSUME NEW label \in Labels, Goto(g, label), label \notin Reading \union Writing
        PROVE  Exclusion'
    BY <2>1, ExclusionMoves
  <2>2. CASE Get(g) \/ Invalidate(g) \/ CallClear(g)
    BY <2>1, <2>2 DEF Get, Invalidate, CallClear, Call, Labels, Reading, Writing
  <2>3. CASE RLock(g)
    <3>1. Goto(g, "get") /\ \A h \in Goroutines : pc[h] \notin Writing \ {"drop"}
      BY <2>3 DEF RLock, MayRLock, Writers, Holders
    <3> QED BY <3>1, ExclusionMoves
  <2>4. CASE Lookup(g)
    <3>1. \A h \in Goroutines : h # g => pc[h] \notin Writing \ {"drop"}
      BY <2>4 DEF Lookup, Exclusion, Reading, Writing
    <3>2. CASE Goto(g, "drop")
      BY <3>1, <3>2, ExclusionMoves
    <3>3. CASE Goto(g, "miss") \/ Goto(g, "served") \/ Goto(g, "check")
      BY <2>1, <3>3 DEF Labels, Reading, Writing
    <3> QED BY <2>4, <3>2, <3>3 DEF Lookup
  <2>5. CASE Drop(g) \/ DefaultDeadline(g) \/ Until(g) \/ Put(g) \/ Delete(g) \/ Clear(g)
    <3>1. Goto(g, "miss") \/ Goto(g, "until") \/ Goto(g, "lockPut") \/ Goto(g, "idle")
      BY <2>5 DEF Drop, DefaultDeadline, Until, Put, Delete, Clear, End
    <3> QED BY <2>1, <3>1 DEF Labels, Reading, Writing
  <2>6. CASE Check(g)
    <3>1. Goto(g, "served") \/ Goto(g, "servedStale") \/ Goto(g, "lockLateDelete")
      BY <2>6 DEF Check
    <3> QED BY <2>1, <3>1 DEF Labels, Reading, Writing
  <2>7. CASE Receive(g)
    <3>1. Goto(g, "idle") \/ Goto(g, "lockPut") \/ Goto(g, "default") \/ Goto(g, "until")
      BY <2>7 DEF Receive, End
    <3> QED BY <2>1, <3>1 DEF Labels, Reading, Writing
  <2>8. CASE Lock(g)
    <3>1. \A h \in Goroutines : pc[h] \notin Reading \union Writing
      BY <2>8 DEF Lock, MayLock, Readers, Writers, Holders, Reading, Writing
    <3>2. PICK label \in Labels : Goto(g, label)
      BY <2>8 DEF Lock, Labels, Reading, Writing
    <3> QED BY <3>1, <3>2, ExclusionMoves
  <2> QED BY <1>2, <2>2, <2>3, <2>4, <2>5, <2>6, <2>7, <2>8 DEF Step
<1> QED BY <1>1, <1>2 DEF Next, Tick, Fatal, vars

\* What the lock does not keep apart are Gets, one of which drops an entry.
LEMMA NextRaces ==
  ASSUME TypeOK, Exclusion, RacesOnlyInGets, [Next]_vars
  PROVE  RacesOnlyInGets'
<1>1. Exclusion'
  BY NextExclusion
<1>2. (\A g, h \in Goroutines : Racing(g, h) => At(g, "drop") /\ pc[h] \in {"get", "drop"})'
  BY <1>1 DEF Exclusion, Racing, At, Reading, Writing
<1>3. (crashed => \E g, h \in Goroutines : Racing(g, h))'
  <2>1. CASE UNCHANGED vars
    BY <2>1 DEF vars, RacesOnlyInGets, Racing
  <2>2. CASE Fatal
    BY <2>2 DEF Fatal, Racing
  <2>3. CASE ~crashed /\ Tick
    BY <2>3 DEF Tick
  <2>4. ASSUME NEW g \in Goroutines, ~crashed, Step(g)
        PROVE  ~crashed'
    BY <2>4 DEF Step, Get, Invalidate, CallClear, Call, RLock, Lookup, Drop, Check, Receive,
                DefaultDeadline, Until, Put, Delete, Clear, Lock
  <2> QED BY <2>1, <2>2, <2>3, <2>4 DEF Next
<1> QED BY <1>2, <1>3 DEF RacesOnlyInGets

\* A step of one goroutine leaves the others, the clock and the mode alone.
LEMMA StepFrame ==
  ASSUME TypeOK, NEW g \in Goroutines, Step(g)
  PROVE  /\ \A h \in Goroutines \ {g} :
              /\ pc'[h] = pc[h] /\ key'[h] = key[h] /\ began'[h] = began[h]
              /\ entry'[h] = entry[h] /\ ttl'[h] = ttl[h]
         /\ mode' = mode /\ now' = now
<1> USE DEF Goto, local
<1>1. /\ DOMAIN pc = Goroutines /\ DOMAIN key = Goroutines /\ DOMAIN began = Goroutines
      /\ DOMAIN entry = Goroutines /\ DOMAIN ttl = Goroutines
  BY DEF TypeOK
<1>2. CASE Get(g) \/ Invalidate(g) \/ CallClear(g)
  BY <1>1, <1>2 DEF Get, Invalidate, CallClear, Call
<1>3. CASE RLock(g) \/ Drop(g) \/ Check(g) \/ Lock(g)
  BY <1>1, <1>3 DEF RLock, Drop, Check, Lock
<1>4. CASE Lookup(g)
  BY <1>1, <1>4 DEF Lookup
<1>5. CASE Receive(g)
  BY <1>1, <1>5 DEF Receive, End
<1>6. CASE DefaultDeadline(g) \/ Until(g)
  BY <1>1, <1>6 DEF DefaultDeadline, Until
<1>7. CASE Put(g) \/ Delete(g) \/ Clear(g)
  BY <1>1, <1>7 DEF Put, Delete, Clear, End
<1> QED BY <1>2, <1>3, <1>4, <1>5, <1>6, <1>7 DEF Step

\* What a step makes of the map.
LEMMA StoreSteps ==
  ASSUME TypeOK, NEW g \in Goroutines, Step(g), NEW k \in Keys
  PROVE  \/ store'[k] = store[k]
         \/ store'[k] = None
         \/ At(g, "put") /\ k = key[g] /\ store'[k] = Stamp(entry[g], ttl[g])
<1>1. DOMAIN store = Keys
  BY DEF TypeOK
<1>2. CASE Put(g)
  BY <1>1, <1>2 DEF Put
<1>3. CASE Drop(g) \/ Delete(g) \/ Clear(g)
  BY <1>1, <1>3 DEF Drop, Delete, Clear
<1>4. CASE UNCHANGED store
  BY <1>4
<1> QED BY <1>2, <1>3, <1>4 DEF Step, Get, Invalidate, CallClear, Call, RLock, Lookup, Check,
           Receive, DefaultDeadline, Until, Lock

\* Where a step takes the goroutine from, and what becomes of the entry it holds.
LEMMA EntrySteps ==
  ASSUME TypeOK, NEW g \in Goroutines, Step(g)
  PROVE  \/ entry'[g] = entry[g]
         \/ entry'[g] = None
         \/ /\ At(g, "get") /\ entry'[g] = store[key[g]]
            /\ store[key[g]] # None /\ ~Expired(store[key[g]])
         \/ /\ At(g, "miss")
            /\ \E r \in Responses : entry'[g] = CacheEntry(r, now)
         \/ At(g, "default") /\ entry'[g] = [entry[g] EXCEPT !.expiresAt = now + TTL]
<1> USE DEF local
<1>1. DOMAIN entry = Goroutines
  BY DEF TypeOK
<1>2. CASE Get(g) \/ Invalidate(g) \/ CallClear(g)
  BY <1>1, <1>2 DEF Get, Invalidate, CallClear, Call
<1>3. CASE UNCHANGED entry
  BY <1>3
<1>4. CASE Lookup(g)
  BY <1>1, <1>4 DEF Lookup
<1>5. CASE Receive(g)
  BY <1>1, <1>5 DEF Receive, End
<1>6. CASE DefaultDeadline(g)
  BY <1>1, <1>6 DEF DefaultDeadline
<1>7. CASE Put(g) \/ Delete(g) \/ Clear(g)
  BY <1>1, <1>7 DEF Put, Delete, Clear, End
<1> QED BY <1>2, <1>3, <1>4, <1>5, <1>6, <1>7 DEF Step, RLock, Drop, Check, Until, Lock

\* Likewise what becomes of the time at which its Get began.
LEMMA BeganSteps ==
  ASSUME TypeOK, NEW g \in Goroutines, Step(g)
  PROVE  began'[g] \in {began[g], now, 0}
<1> USE DEF local
<1>1. DOMAIN began = Goroutines
  BY DEF TypeOK
<1>2. CASE Get(g) \/ Invalidate(g) \/ CallClear(g)
  BY <1>1, <1>2 DEF Get, Invalidate, CallClear, Call
<1>3. CASE UNCHANGED began
  BY <1>3
<1>4. CASE Receive(g) \/ Put(g) \/ Delete(g) \/ Clear(g)
  BY <1>1, <1>4 DEF Receive, Put, Delete, Clear, End
<1> QED BY <1>2, <1>3, <1>4 DEF Step, RLock, Lookup, Drop, Check, DefaultDeadline, Until, Lock

LEMMA NextReadings ==
  ASSUME TypeOK, ReadingsInv, [Next]_vars
  PROVE  ReadingsInv'
<1>1. CASE UNCHANGED vars
  BY <1>1 DEF vars, local, ReadingsInv
<1>2. CASE Fatal
  BY <1>2 DEF Fatal, local, ReadingsInv
<1>3. CASE Tick
  <2>1. now \in Int /\ now' = now + 1 /\ UNCHANGED <<store, began, entry>>
    BY <1>3, CacheAssumption DEF Tick, local, TypeOK
  <2>2. /\ \A g \in Goroutines : began[g] \in Int
        /\ \A g \in Goroutines : entry[g] # None => entry[g].received \in Int
        /\ \A k \in Keys : store[k] # None => store[k].stored \in Int
    BY DEF TypeOK, EntryType
  <2> QED BY <2>1, <2>2 DEF ReadingsInv
<1>4. ASSUME NEW g \in Goroutines, Step(g)
      PROVE  ReadingsInv'
  <2>1. now' = now /\ now \in 0..MaxTime
    BY <1>4, StepFrame DEF TypeOK
  <2>2. ASSUME NEW h \in Goroutines
        PROVE  began'[h] <= now /\ (entry'[h] # None => entry'[h].received <= now)
    <3>1. CASE h # g
      BY <1>4, <3>1, StepFrame DEF ReadingsInv
    <3>2. CASE h = g
      <4>1. began'[g] <= now
        BY <1>4, <2>1, BeganSteps DEF ReadingsInv
      <4>2. ASSUME entry'[g] # None
            PROVE  entry'[g].received <= now
        <5>1. CASE entry'[g] = entry[g]
          BY <4>2, <5>1 DEF ReadingsInv
        <5>2. CASE entry'[g] = store[key[g]]
          <6>1. key[g] \in Keys /\ store[key[g]] \in EntryType
            BY <4>2, <5>2 DEF TypeOK
          <6>2. /\ store[key[g]].received <= store[key[g]].stored
                /\ store[key[g]].stored <= now
            BY <4>2, <5>2, <6>1 DEF ReadingsInv
          <6> QED BY <2>1, <5>2, <6>1, <6>2 DEF EntryType
        <5>3. CASE \E r \in Responses : entry'[g] = CacheEntry(r, now)
          BY <2>1, <5>3 DEF CacheEntry
        <5>4. CASE At(g, "default") /\ entry'[g] = [entry[g] EXCEPT !.expiresAt = now + TTL]
          <6>1. entry[g] # None /\ entry[g] \in EntryType
            BY <5>4 DEF At, TypeOK
          <6>2. entry'[g].received = entry[g].received
            BY <5>4, <6>1 DEF EntryType
          <6> QED BY <6>1, <6>2 DEF ReadingsInv
        <5> QED BY <1>4, <4>2, <5>1, <5>2, <5>3, <5>4, EntrySteps
      <4> QED BY <3>2, <4>1, <4>2
    <3> QED BY <3>1, <3>2
  <2>3. ASSUME NEW k \in Keys, store'[k] # None
        PROVE  store'[k].received <= store'[k].stored /\ store'[k].stored <= now
    <3>1. CASE store'[k] = store[k]
      BY <2>3, <3>1 DEF ReadingsInv
    <3>2. CASE At(g, "put") /\ store'[k] = Stamp(entry[g], ttl[g])
      <4>1. entry[g] # None /\ entry[g] \in EntryType /\ ttl[g] \in Int
        BY <3>2 DEF At, TypeOK
      <4>2. entry[g].received <= now
        BY <4>1 DEF ReadingsInv
      <4> QED BY <2>1, <3>2, <4>1, <4>2, StampType
    <3> QED BY <1>4, <2>3, <3>1, <3>2, StoreSteps
  <2> QED BY <2>1, <2>2, <2>3 DEF ReadingsInv
<1> QED BY <1>1, <1>2, <1>3, <1>4 DEF Next

\* What the goroutine that makes a step knows of its Get after it.
LEMMA GetInvOfStep ==
  ASSUME TypeOK, ReadingsInv, GetInv, NEW g \in Goroutines, Step(g)
  PROVE  /\ pc'[g] \in {"check", "served", "servedStale"} => began'[g] <= entry'[g].expiresAt
         /\ pc'[g] = "drop" => Expired(store'[key'[g]])
         /\ pc'[g] \in {"lockLateDelete", "lateDelete"} =>
              entry'[g] # None /\ entry'[g].expiresAt < now
<1> USE DEF At, local
<1>1. pc \in [Goroutines -> Labels]
  BY DEF TypeOK
<1>2. CASE \E label \in {"idle", "rlock", "get", "miss", "default", "until", "lockPut", "put",
                         "lockDelete", "delete", "lockClear", "clear"} : Goto(g, label)
  BY <1>1, <1>2 DEF Goto
<1>3. CASE Lookup(g)
  <2>1. CASE Goto(g, "drop")
    BY <1>1, <1>3, <2>1 DEF Lookup, Goto
  <2>2. CASE Goto(g, "served") \/ Goto(g, "check")
    <3>1. /\ store[key[g]] # None /\ ~Expired(store[key[g]])
          /\ entry' = [entry EXCEPT ![g] = store[key[g]]] /\ UNCHANGED began
      BY <1>1, <1>3, <2>2 DEF Lookup, Goto
    <3>2. entry'[g] = store[key[g]] /\ store[key[g]] \in EntryType
      BY <3>1 DEF TypeOK
    <3>3. began[g] <= now /\ now \in Int /\ began[g] \in Int
      BY CacheAssumption DEF ReadingsInv, TypeOK
    <3>4. began[g] <= store[key[g]].expiresAt
      BY <3>1, <3>2, <3>3 DEF Expired, EntryType
    <3> QED BY <1>1, <2>2, <3>1, <3>2, <3>4 DEF Goto
  <2> QED BY <1>2, <1>3, <2>1, <2>2 DEF Lookup
<1>4. CASE Check(g)
  <2>1. /\ UNCHANGED <<began, entry>> /\ pc[g] = "check" /\ entry[g] # None
    BY <1>4 DEF Check, TypeOK
  <2>2. began[g] <= entry[g].expiresAt
    BY <2>1 DEF GetInv
  <2>3. \/ pc'[g] = "served" \/ pc'[g] = "servedStale"
        \/ pc'[g] = "lockLateDelete" /\ Expired(entry[g])
    BY <1>1, <1>4 DEF Check, Goto
  <2>4. entry[g].expiresAt \in Int /\ now \in Int
    BY <2>1, CacheAssumption DEF TypeOK, EntryType
  <2> QED BY <2>1, <2>2, <2>3, <2>4 DEF Expired
<1>5. CASE Lock(g)
  <2>1. CASE pc[g] = "lockLateDelete" /\ Goto(g, "lateDelete")
    BY <1>1, <1>5, <2>1 DEF Lock, Goto, GetInv
  <2> QED BY <1>2, <1>5, <2>1 DEF Lock
<1>6. CASE Get(g) \/ Invalidate(g) \/ CallClear(g) \/ RLock(g) \/ Drop(g) \/ Receive(g)
           \/ DefaultDeadline(g) \/ Until(g) \/ Put(g) \/ Delete(g) \/ Clear(g)
  <2>1. \E label \in {"idle", "rlock", "get", "miss", "default", "until", "lockPut",
                      "lockDelete", "lockClear"} : Goto(g, label)
    BY <1>6 DEF Get, Invalidate, CallClear, Call, RLock, Drop, Receive, DefaultDeadline, Until,
                Put, Delete, Clear, End
  <2> QED BY <1>2, <2>1
<1> QED BY <1>3, <1>4, <1>5, <1>6 DEF Step

LEMMA NextGetInv ==
  ASSUME TypeOK, Exclusion, ReadingsInv, GetInv, [Next]_vars
  PROVE  GetInv'
<1>1. CASE UNCHANGED vars \/ Fatal
  BY <1>1 DEF vars, Fatal, local, GetInv, At, Expired
<1>2. CASE Tick
  <2>1. now \in Int /\ now' = now + 1 /\ UNCHANGED <<store, pc, key, began, entry>>
    BY <1>2, CacheAssumption DEF Tick, local, TypeOK
  <2>2. /\ \A g \in Goroutines : entry[g] # None => entry[g].expiresAt \in Int
        /\ \A g \in Goroutines : store[key[g]] # None => store[key[g]].expiresAt \in Int
    BY DEF TypeOK, EntryType
  <2> QED BY <2>1, <2>2 DEF GetInv, At, Expired
<1>3. ASSUME NEW g \in Goroutines, Step(g), NEW h \in Goroutines \ {g}
      PROVE  /\ pc'[h] \in {"check", "served", "servedStale"} =>
                  began'[h] <= entry'[h].expiresAt
             /\ pc'[h] = "drop" => store'[key'[h]] = None \/ Expired(store'[key'[h]])
             /\ pc'[h] \in {"lockLateDelete", "lateDelete"} =>
                  entry'[h] # None /\ entry'[h].expiresAt < now
  <2>1. /\ pc'[h] = pc[h] /\ key'[h] = key[h] /\ began'[h] = began[h] /\ entry'[h] = entry[h]
    BY <1>3, StepFrame
  <2>2. ASSUME pc[h] = "drop"
        PROVE  store'[key[h]] = None \/ Expired(store'[key[h]])
    <3>1. pc[g] # "put"
      BY <1>3, <2>2 DEF Exclusion, Reading, Writing
    <3>2. key[h] \in Keys
      BY DEF TypeOK
    <3>3. store'[key[h]] = store[key[h]] \/ store'[key[h]] = None
      BY <1>3, <3>1, <3>2, StoreSteps DEF At
    <3> QED BY <2>2, <3>3 DEF GetInv, At
  <2> QED BY <2>1, <2>2 DEF GetInv
<1>4. ASSUME NEW g \in Goroutines, Step(g)
      PROVE  GetInv'
  <2>1. now' = now
    BY <1>4, StepFrame
  <2>2. \A e : Expired(e)' <=> Expired(e)
    BY <2>1 DEF Expired
  <2> QED BY <1>3, <1>4, <2>1, <2>2, GetInvOfStep DEF GetInv, At, Expired
<1> QED BY <1>1, <1>2, <1>4 DEF Next

\* The instant an entry is due at is a number, and does not change.
LEMMA DueType ==
  ASSUME NEW e \in EntryType
  PROVE  Due(e) \in Int
<1>1. e.response \in Responses /\ e.received \in Int
  BY CacheAssumption DEF EntryType
<1>2. CacheExpiry(e.response, e.received) \in Int \union {None}
  BY <1>1, ExpiryType
<1> QED BY <1>1, <1>2, CacheAssumption DEF Due

LEMMA DueKept ==
  ASSUME mode' = mode, NEW e
  PROVE  Due(e)' = Due(e)
BY DEF Due

LEMMA SetInvOfStep ==
  ASSUME TypeOK, ReadingsInv, NEW g \in Goroutines, SetInvOf(g), Step(g)
  PROVE  SetInvOf(g)'
<1> USE DEF At, local
<1>1. pc \in [Goroutines -> Labels] /\ entry \in [Goroutines -> EntryType \union {None}]
      /\ ttl \in [Goroutines -> Int] /\ now \in 0..MaxTime /\ MaxTime \in Nat /\ TTL \in Nat
  BY CacheAssumption DEF TypeOK
<1>2. mode' = mode /\ now' = now
  BY StepFrame
<1>3. CASE Get(g) \/ Invalidate(g) \/ CallClear(g) \/ RLock(g) \/ Lookup(g) \/ Drop(g) \/ Check(g)
           \/ Put(g) \/ Delete(g) \/ Clear(g)
  <2>1. \E label \in {"idle", "rlock", "get", "drop", "check", "served", "servedStale", "miss",
                      "lockLateDelete", "lockDelete", "lockClear"} : Goto(g, label)
    BY <1>3 DEF Get, Invalidate, CallClear, Call, RLock, Lookup, Drop, Check, Put, Delete, Clear, End
  <2> QED BY <1>1, <2>1 DEF SetInvOf, Goto
<1>4. CASE Receive(g)
  <2>1. CASE Goto(g, "idle")
    BY <1>1, <2>1 DEF SetInvOf, Goto
  <2>2. ASSUME NEW r \in Responses,
               entry'[g] = CacheEntry(r, now), ttl'[g] = TTL,
               pc'[g] = IF mode = "TTLOnly" THEN "lockPut"
                        ELSE IF CacheExpiry(r, now) = None THEN "default" ELSE "until"
        PROVE  SetInvOf(g)'
    <3>1. /\ CacheEntry(r, now).response = r
          /\ CacheEntry(r, now).received = now
          /\ CacheEntry(r, now).expiresAt =
               IF CacheExpiry(r, now) # None THEN CacheExpiry(r, now) ELSE 0
      BY DEF CacheEntry
    <3>2. CacheExpiry(r, now) \in Int \union {None}
      BY <1>1, ExpiryType
    <3>3. CASE mode = "TTLOnly"
      BY <1>2, <2>2, <3>3 DEF SetInvOf
    <3>4. CASE mode # "TTLOnly" /\ CacheExpiry(r, now) = None
      <4>1. Due(entry'[g]) = entry'[g].received + TTL
        BY <2>2, <3>1, <3>4 DEF Due
      <4>2. Due(entry[g])' = Due(entry'[g])
        BY <1>2 DEF Due
      <4> QED BY <1>2, <2>2, <3>4, <4>1, <4>2 DEF SetInvOf
    <3>5. CASE mode # "TTLOnly" /\ CacheExpiry(r, now) # None
      <4>1. Due(entry'[g]) = entry'[g].expiresAt /\ entry'[g].expiresAt \in Int
        BY <2>2, <3>1, <3>2, <3>5 DEF Due
      <4>2. Due(entry[g])' = Due(entry'[g])
        BY <1>2 DEF Due
      <4>3. now' - entry'[g].received = 0
        BY <1>1, <1>2, <2>2, <3>1
      <4> QED BY <1>2, <2>2, <3>5, <4>1, <4>2, <4>3 DEF SetInvOf
    <3> QED BY <3>3, <3>4, <3>5
  <2> QED BY <1>1, <1>4, <2>1, <2>2 DEF Receive, End, Goto
<1>5. CASE DefaultDeadline(g)
  <2>1. pc[g] = "default" /\ entry[g] \in EntryType /\ mode # "TTLOnly"
    BY <1>1, <1>5 DEF DefaultDeadline, TypeOK, SetInvOf
  <2>2. /\ entry'[g] = [entry[g] EXCEPT !.expiresAt = now + TTL] /\ pc'[g] = "until"
    BY <1>1, <1>5 DEF DefaultDeadline, Goto
  <2>3. /\ entry'[g].expiresAt = now + TTL
        /\ entry'[g].received = entry[g].received /\ entry'[g].response = entry[g].response
    BY <2>1, <2>2 DEF EntryType
  <2>4. Due(entry[g])' = entry[g].received + TTL
    BY <1>2, <1>5, <2>3 DEF Due, SetInvOf, DefaultDeadline
  <2>5. entry[g].received <= now /\ entry[g].received \in Int
    BY <1>1, <1>5, <2>1 DEF ReadingsInv, DefaultDeadline, TypeOK, EntryType
  <2>6. entry'[g].expiresAt - Due(entry[g])' \in 0..(now - entry'[g].received)
    BY <1>1, <2>3, <2>4, <2>5
  <2> QED BY <1>2, <2>1, <2>2, <2>6 DEF SetInvOf
<1>6. CASE Until(g)
  <2>1. pc[g] = "until" /\ entry[g] \in EntryType /\ mode # "TTLOnly"
    BY <1>1, <1>6 DEF Until, TypeOK, SetInvOf
  <2>2. entry' = entry /\ ttl'[g] = entry[g].expiresAt - now /\ pc'[g] = "lockPut"
    BY <1>1, <1>6 DEF Until, Goto
  <2>3. entry[g].received <= now /\ entry[g].received \in Int /\ entry[g].expiresAt \in Int
    BY <1>1, <1>6, <2>1 DEF ReadingsInv, Until, TypeOK, EntryType
  <2>4. entry[g].expiresAt - Due(entry[g]) \in 0..(now - entry[g].received)
    BY <1>6 DEF Until, SetInvOf
  <2>5. entry'[g].expiresAt - ttl'[g] = now
    BY <1>1, <2>2, <2>3
  <2>6. Due(entry[g])' = Due(entry[g])
    BY <1>2, <2>2 DEF Due
  <2> QED BY <1>1, <1>2, <2>1, <2>2, <2>3, <2>4, <2>5, <2>6 DEF SetInvOf
<1>7. CASE Lock(g)
  <2>1. UNCHANGED <<entry, ttl>>
    BY <1>7 DEF Lock
  <2>2. \/ pc[g] = "lockPut" /\ pc'[g] = "put"
        \/ pc'[g] \in {"delete", "lateDelete", "clear"}
    BY <1>1, <1>7 DEF Lock, Goto
  <2>3. Due(entry[g])' = Due(entry[g])
    BY <1>2, <2>1 DEF Due
  <2> QED BY <1>2, <2>1, <2>2, <2>3 DEF SetInvOf
<1> QED BY <1>3, <1>4, <1>5, <1>6, <1>7 DEF Step

LEMMA NextSetInv ==
  ASSUME TypeOK, ReadingsInv, SetInv, [Next]_vars
  PROVE  SetInv'
<1> USE DEF SetInv
<1>1. CASE UNCHANGED <<mode, now, pc, entry, ttl>>
  BY <1>1 DEF SetInvOf, At, Due
<1>2. CASE Tick
  <2>1. now \in Int /\ now' = now + 1 /\ UNCHANGED <<mode, pc, entry, ttl>>
    BY <1>2, CacheAssumption DEF Tick, local, TypeOK
  <2>2. ASSUME NEW g \in Goroutines
        PROVE  SetInvOf(g)'
    <3>1. Due(entry[g])' = Due(entry[g])
      BY <2>1 DEF Due
    <3>2. ASSUME pc[g] \in {"until", "lockPut", "put"}
          PROVE  /\ entry[g].received \in Int /\ entry[g].expiresAt \in Int
                 /\ Due(entry[g]) \in Int /\ ttl[g] \in Int
      <4>1. entry[g] \in EntryType /\ ttl[g] \in Int
        BY <3>2 DEF TypeOK
      <4> QED BY <4>1, DueType, CacheAssumption DEF EntryType
    <3>3. SetInvOf(g)
      OBVIOUS
    <3> QED BY <2>1, <3>1, <3>2, <3>3 DEF SetInvOf, At
  <2> QED BY <2>2
<1>3. ASSUME NEW g \in Goroutines, Step(g)
      PROVE  SetInv'
  <2>1. ASSUME NEW h \in Goroutines \ {g}
        PROVE  SetInvOf(h)'
    <3>1. /\ pc'[h] = pc[h] /\ entry'[h] = entry[h] /\ ttl'[h] = ttl[h]
          /\ mode' = mode /\ now' = now
      BY <1>3, StepFrame
    <3>2. Due(entry[h])' = Due(entry[h])
      BY <3>1 DEF Due
    <3> QED BY <3>1, <3>2 DEF SetInvOf, At
  <2>2. SetInvOf(g)'
    BY <1>3, SetInvOfStep
  <2> QED BY <2>1, <2>2
<1> QED BY <1>1, <1>2, <1>3 DEF Next, Fatal, vars, local

LEMMA NextLifetimes ==
  ASSUME TypeOK, ReadingsInv, SetInv, LifetimeKept, [Next]_vars
  PROVE  LifetimeKept'
<1>1. CASE UNCHANGED <<mode, store>>
  BY <1>1 DEF LifetimeKept, Due
<1>2. ASSUME NEW g \in Goroutines, Step(g), NEW k \in Keys, store'[k] # None
      PROVE  store'[k].expiresAt - Due(store[k])' \in 0..(store'[k].stored - store'[k].received)
  <2>1. mode' = mode
    BY <1>2, StepFrame
  <2>2. CASE store'[k] = store[k]
    BY <1>2, <2>1, <2>2 DEF LifetimeKept, Due
  <2>3. CASE At(g, "put") /\ store'[k] = Stamp(entry[g], ttl[g])
    <3>1. entry[g] \in EntryType /\ entry[g] # None /\ ttl[g] \in Int /\ now \in 0..MaxTime
      BY <2>3 DEF At, TypeOK
    <3>2. /\ entry[g].received \in Int /\ entry[g].expiresAt \in Int
          /\ Due(entry[g]) \in Int /\ now \in Int /\ TTL \in Nat
      BY <3>1, DueType, CacheAssumption DEF EntryType
    <3>3. /\ store'[k].expiresAt = now + ttl[g] /\ store'[k].stored = now
          /\ store'[k].received = entry[g].received /\ store'[k].response = entry[g].response
      <4>1. /\ Stamp(entry[g], ttl[g]).expiresAt = now + ttl[g]
            /\ Stamp(entry[g], ttl[g]).stored = now
            /\ Stamp(entry[g], ttl[g]).received = entry[g].received
            /\ Stamp(entry[g], ttl[g]).response = entry[g].response
        BY <3>1, StampType
      <4> QED BY <2>3, <4>1
    <3>4. Due(store[k])' = Due(entry[g])
      BY <2>1, <3>3 DEF Due
    <3>5. entry[g].received <= now
      BY <3>1 DEF ReadingsInv
    <3>6. CASE mode = "TTLOnly"
      <4>1. ttl[g] = TTL
        BY <2>3, <3>6 DEF SetInv, SetInvOf, At
      <4>2. Due(entry[g]) = entry[g].received + TTL
        BY <3>6 DEF Due
      <4> QED BY <3>1, <3>2, <3>3, <3>4, <3>5, <4>1, <4>2
    <3>7. CASE mode # "TTLOnly"
      <4>1. /\ entry[g].expiresAt - ttl[g] \in entry[g].received..now
            /\ entry[g].expiresAt - Due(entry[g]) \in
                 0..((entry[g].expiresAt - ttl[g]) - entry[g].received)
        BY <2>3, <3>7 DEF SetInv, SetInvOf, At
      <4> QED BY <3>1, <3>2, <3>3, <3>4, <3>5, <4>1
    <3> QED BY <3>6, <3>7
  <2> QED BY <1>2, <2>2, <2>3, StoreSteps
<1> QED BY <1>1, <1>2 DEF Next, Tick, Fatal, vars, local, LifetimeKept

-----------------------------------------------------------------------------
LEMMA InitIInv == Init => IInv
<1> SUFFICES ASSUME Init PROVE IInv
  OBVIOUS
<1>1. TypeOK
  <2>1. 0 \in 0..MaxTime /\ "idle" \in Labels /\ now = 0 /\ mode \in Modes /\ crashed = FALSE
    BY CacheAssumption DEF Init, Labels
  <2>2. /\ store \in [Keys -> EntryType \union {None}]
        /\ pc \in [Goroutines -> Labels]
        /\ key \in [Goroutines -> Keys]
        /\ began \in [Goroutines -> 0..MaxTime]
        /\ entry \in [Goroutines -> EntryType \union {None}]
        /\ ttl \in [Goroutines -> Int]
    BY <2>1 DEF Init
  <2>3. \A g \in Goroutines : pc[g] = "idle"
    BY DEF Init
  <2> QED BY <2>1, <2>2, <2>3 DEF TypeOK
<1>2. \A g \in Goroutines : pc[g] = "idle"
  BY DEF Init
<1>3. RacesOnlyInGets /\ Exclusion
  BY <1>2 DEF Init, RacesOnlyInGets, Exclusion, Racing, Writing
<1>4. ReadingsInv /\ GetInv /\ SetInv /\ LifetimeKept
  BY <1>2 DEF Init, ReadingsInv, GetInv, SetInv, SetInvOf, LifetimeKept, At
<1> QED BY <1>1, <1>3, <1>4 DEF IInv

LEMMA NextIInv == IInv /\ [Next]_vars => IInv'
BY NextTypeOK, NextExclusion, NextRaces, NextReadings, NextGetInv, NextSetInv, NextLifetimes
   DEF IInv

LEMMA IInvHolds == Spec => []IInv
BY InitIInv, NextIInv, PTL DEF Spec

\* A goroutine that serves an entry, looks at one or is about to store one, has one;
\* the fields of the entries have their types whatever the headers say.
THEOREM TypesKept == Spec => []TypeOK
BY IInvHolds, PTL DEF IInv

\* What a Get returns had not expired when the Get began.
LEMMA ServesInTime == IInv => \A g \in Goroutines : ServedInTime(g)
BY DEF IInv, GetInv, ServedInTime

\* Without stale-while-revalidate, no Get that began after an entry's deadline returns
\* the entry, from either layer.
THEOREM AnswersFresh == Spec => []NothingServedLate
<1>1. IInv => NothingServedLate
  BY ServesInTime DEF NothingServedLate
<1> QED BY <1>1, IInvHolds, PTL

\* With stale-while-revalidate neither does: the stale window, which the README promises
\* and HTTPSemanticsCacheProvider.Get consults, never serves a Get that began in it. The
\* run swr_stale shows the entry being dropped instead.
THEOREM StaleWindowUnused ==
  Spec => [](mode = "SWR" => \A g \in Goroutines : ServedInTime(g))
<1>1. IInv => (mode = "SWR" => \A g \in Goroutines : ServedInTime(g))
  BY ServesInTime
<1> QED BY <1>1, IInvHolds, PTL

\* An entry is kept until the instant its headers or the configuration give, and for
\* no longer than the store of it took after that.
THEOREM Lifetimes == Spec => []LifetimeKept
BY IInvHolds, PTL DEF IInv

\* The lock separates all accesses of the map but those of two Gets, one of which
\* deletes an expired entry under the lock for reading.
THEOREM Races == Spec => []RacesOnlyInGets
BY IInvHolds, PTL DEF IInv

\* The only step that takes a fresh entry out by mistake is the late deletion: the
\* entry a Get drops under the read lock is still the expired one it has found.
LEMMA NextKeepsFresh ==
  ASSUME IInv, Next, NEW k \in Keys, store[k] # None, ~Expired(store[k]), store'[k] # store[k]
  PROVE  \E g \in Goroutines :
           \/ At(g, "clear")
           \/ pc[g] \in {"put", "delete"} /\ key[g] = k
           \/ At(g, "lateDelete") /\ key[g] = k /\ entry[g].expiresAt < now
<1>1. PICK g \in Goroutines : Step(g)
  BY DEF Next, Tick, Fatal
<1>2. DOMAIN store = Keys
  BY DEF IInv, TypeOK
<1>3. CASE Put(g)
  BY <1>2, <1>3 DEF Put, At
<1>4. CASE Drop(g)
  <2>1. At(g, "drop") /\ key[g] = k
    BY <1>2, <1>4 DEF Drop
  <2> QED BY <2>1 DEF IInv, GetInv
<1>5. CASE Delete(g)
  <2>1. pc[g] \in {"delete", "lateDelete"} /\ key[g] = k
    BY <1>2, <1>5 DEF Delete
  <2> QED BY <2>1 DEF IInv, GetInv, At
<1>6. CASE Clear(g)
  BY <1>6 DEF Clear
<1>7. CASE UNCHANGED store
  BY <1>7
<1> QED BY <1>1, <1>3, <1>4, <1>5, <1>6, <1>7 DEF Step, Get, Invalidate, CallClear, Call, RLock,
           Lookup, Check, Receive, DefaultDeadline, Until, Lock

\* A fresh entry is lost to a Set, an Invalidate, a Clear, or the late deletion of a
\* provider's Get that saw another entry expire; never to InMemoryCache.Get itself.
THEOREM FreshKept == Spec => FreshEntriesKept
<1>1. IInv /\ [Next]_vars =>
        [\A k \in Keys :
           store[k] # None /\ ~Expired(store[k]) /\ store'[k] # store[k] =>
             \E g \in Goroutines :
               \/ At(g, "clear")
               \/ pc[g] \in {"put", "delete"} /\ key[g] = k
               \/ At(g, "lateDelete") /\ key[g] = k /\ entry[g].expiresAt < now]_vars
  BY NextKeepsFresh
<1> QED BY <1>1, IInvHolds, PTL DEF Spec, FreshEntriesKept
==============================================================================
