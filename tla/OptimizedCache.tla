--------------------------- MODULE OptimizedCache ---------------------------
(***************************************************************************)
(* One shard of OptimizedCache: a map, a doubly linked list in the order   *)
(* of use, and a count of the entries, written under the shard's lock.     *)
(* Get reads under the read lock and comes back with the write lock, to    *)
(* drop an entry it found expired or to move a hot one to the front; what  *)
(* happens in between is what this module is about.  A section under the   *)
(* lock is one action.                                                     *)
(*                                                                         *)
(* Bodies, headers and the hit, miss and eviction statistics are left out. *)
(* Opt marks the names that HTTPCache has too.                             *)
(***************************************************************************)
EXTENDS Integers, FiniteSets, CacheUsers

CONSTANTS
  Entries,    \* the pool of *optimizedCacheEntry
  KeyOf,      \* KeyOf[e]: the key field of entry e
  MaxSize,    \* maxSizePerShard
  MaxCount    \* bound: size is followed up to MaxCount, either way

ASSUME ConfigAssumption ==
  /\ None \notin Entries
  /\ KeyOf \in [Entries -> Keys]
  /\ MaxSize \in Nat \ {0}
  /\ MaxCount \in Nat

VARIABLES
  shard,       \* store, head, tail, size, and the entries' next and prev
  expired,     \* the entries whose expiresAt has passed
  hotPromoted, \* the entries whose hotPromoted flag is set
  strayed,     \* history: some Get came back for an entry no longer stored
  leaked       \* history: entries dropped without being subtracted from size

optVars == <<shard, expired, hotPromoted, pc, entry, strayed, leaked>>

OptLabels == {"idle", "expired", "hot", "promote", "promoted"}

Pointers == [Entries -> Entries \union {None}]

ShardType ==
  [store : [Keys -> Entries \union {None}],
   head : Entries \union {None}, tail : Entries \union {None}, size : Int,
   next : Pointers, prev : Pointers]

\* Races or not, an entry is stored under its own key only; entry[g] is the one
\* that g's Get has found.
OptTypeOK ==
  /\ shard \in ShardType
  /\ expired \subseteq Entries
  /\ hotPromoted \subseteq Entries
  /\ pc \in [Goroutines -> OptLabels]
  /\ entry \in [Goroutines -> Entries \union {None}]
  /\ strayed \in BOOLEAN
  /\ leaked \in Nat
  /\ \A g \in Goroutines : entry[g] = None <=> pc[g] = "idle"
  /\ \A k \in Keys : shard.store[k] # None => KeyOf[shard.store[k]] = k

EmptyShard ==
  [store |-> [k \in Keys |-> None], head |-> None, tail |-> None, size |-> 0,
   next |-> [e \in Entries |-> None], prev |-> [e \in Entries |-> None]]

OptInit ==
  /\ shard = EmptyShard
  /\ expired = {}
  /\ hotPromoted = {}
  /\ pc = [g \in Goroutines |-> "idle"]
  /\ entry = [g \in Goroutines |-> None]
  /\ strayed = FALSE
  /\ leaked = 0

-----------------------------------------------------------------------------
(* The operations on a shard. *)

\* Also of an e that is in no list any more: then the shard's list is lost.
RemoveLRU(s, e) ==
  LET before == s.prev[e]
      after == s.next[e]
      Relink(ptr, from, to) ==
        [x \in Entries |-> IF x = e THEN None ELSE IF x = from THEN to ELSE ptr[x]]
  IN [s EXCEPT !.head = IF before = None THEN after ELSE @,
               !.tail = IF after = None THEN before ELSE @,
               !.next = Relink(s.next, before, after),
               !.prev = Relink(s.prev, after, before)]

AddToLRU(s, e) ==
  IF s.head = None
  THEN [s EXCEPT !.head = e, !.tail = e]
  ELSE [s EXCEPT !.head = e, !.next[e] = s.head, !.prev[s.head] = e]

Forget(s, k) == [s EXCEPT !.store[k] = None]

Resize(s, n) == [s EXCEPT !.size = @ + n]

\* A slip: the entry at the wrong end goes.
EvictLRU_FromHead(s) ==
  IF s.head = None THEN s
  ELSE Resize(RemoveLRU(Forget(s, KeyOf[s.head]), s.head), -1)

\* The least recently used entry goes; an empty list is left alone.
EvictLRU(s) ==
  IF s.tail = None THEN s
  ELSE Resize(RemoveLRU(Forget(s, KeyOf[s.tail]), s.tail), -1)

\* int64(float64(maxSize) * EvictionThreshold), EvictionThreshold = 0.85
Threshold == (MaxSize * 85) \div 100

MakeRoom(s) == IF s.size >= Threshold THEN EvictLRU(s) ELSE s

\* A slip: the entry that is overwritten stays in the list.
RemoveExisting_KeepsLink(s, k) ==
  IF s.store[k] = None THEN s ELSE Resize(s, -1)

RemoveExisting(s, k) ==
  IF s.store[k] = None THEN s ELSE Resize(RemoveLRU(s, s.store[k]), -1)

Store(s, e) == Resize(AddToLRU([s EXCEPT !.store[KeyOf[e]] = e], e), 1)

\* A new entry; it may have been another one before.
Allocate(s, e) == [s EXCEPT !.next[e] = None, !.prev[e] = None]

Stored(s) == {s.store[k] : k \in Keys} \ {None}

-----------------------------------------------------------------------------

Enter(g, e, label) ==
  /\ Goto(g, label)
  /\ entry' = [entry EXCEPT ![g] = e]

Return(g) == Enter(g, None, "idle")

\* The write lock is taken for an entry that may have left the shard since.
Revisit(e) == strayed' = (strayed \/ e \notin Stored(shard))

Roots ==
  {shard.head, shard.tail} \union Stored(shard)
    \union {entry[g] : g \in Goroutines}

\* The entries the garbage collector has taken back: those of a set that no
\* root belongs to and no pointer from outside leads into.
Free(e) ==
  \E S \in SUBSET Entries :
    /\ e \in S
    /\ S \intersect Roots = {}
    /\ \A x \in Entries \ S : shard.next[x] \notin S /\ shard.prev[x] \notin S

\* size may drift without a limit; MaxCount says how far it is followed.
Followed(s) == s.size \in (-MaxCount)..MaxCount

Set(g, e) ==
  /\ At(g, "idle")
  /\ Free(e)
  /\ shard' = Store(RemoveExisting(MakeRoom(Allocate(shard, e)), KeyOf[e]), e)
  /\ Followed(shard')
  /\ expired' = expired \ {e}
  /\ hotPromoted' = hotPromoted \ {e}
  /\ UNCHANGED <<pc, entry, strayed, leaked>>

\* A slip: the count is not adjusted.
OptDelete_KeepsSize(g, k) ==
  /\ At(g, "idle")
  /\ shard.store[k] # None
  /\ shard' = RemoveLRU(Forget(shard, k), shard.store[k])
  /\ UNCHANGED <<expired, hotPromoted, pc, entry, strayed, leaked>>

OptDelete(g, k) ==
  /\ At(g, "idle")
  /\ shard.store[k] # None
  /\ shard' = Resize(RemoveLRU(Forget(shard, k), shard.store[k]), -1)
  /\ Followed(shard')
  /\ UNCHANGED <<expired, hotPromoted, pc, entry, strayed, leaked>>

\* The entries keep their pointers, which matters to a Get that holds one.
OptClear(g) ==
  /\ At(g, "idle")
  /\ shard' = [shard EXCEPT !.store = [k \in Keys |-> None],
                            !.head = None, !.tail = None, !.size = 0]
  /\ leaked' = 0
  /\ UNCHANGED <<expired, hotPromoted, pc, entry, strayed>>

\* A slip: a miss is taken for a hit.
OptLookup_TakesMisses(g, k) ==
  LET e == shard.store[k] IN
  /\ At(g, "idle")
  /\ Enter(g, e, IF e \in expired THEN "expired" ELSE "hot")
  /\ UNCHANGED <<shard, expired, hotPromoted, strayed, leaked>>

\* Get under the read lock: the entry found is expired, or this is a hit that
\* promotes it. (Misses and other hits change nothing. Which hits are the tenth
\* of their entry is left open: the counter is read without the lock.)
OptLookup(g, k) ==
  LET e == shard.store[k] IN
  /\ At(g, "idle")
  /\ e # None
  /\ Enter(g, e, IF e \in expired THEN "expired" ELSE "hot")
  /\ UNCHANGED <<shard, expired, hotPromoted, strayed, leaked>>

\* Get back under the write lock: whatever the key holds by now is deleted, and
\* size is not adjusted.
DropExpired(g) ==
  LET e == entry[g] IN
  /\ At(g, "expired")
  /\ shard' = RemoveLRU(Forget(shard, KeyOf[e]), e)
  /\ Revisit(e)
  /\ leaked' = leaked + 1
  /\ Return(g)
  /\ UNCHANGED <<expired, hotPromoted>>

\* promoteHotEntry: the compare-and-swap of the flag.
ClaimPromotion(g) ==
  /\ At(g, "hot")
  /\ IF entry[g] \in hotPromoted
     THEN Return(g) /\ UNCHANGED hotPromoted
     ELSE Enter(g, entry[g], "promote") /\ hotPromoted' = hotPromoted \union {entry[g]}
  /\ UNCHANGED <<shard, expired, strayed, leaked>>

\* A slip: the entry is stored again along with being moved.
Promote_StoresAgain(g) ==
  LET e == entry[g] IN
  /\ At(g, "promote")
  /\ shard' = [AddToLRU(RemoveLRU(shard, e), e) EXCEPT !.store[KeyOf[e]] = e]
  /\ Revisit(e)
  /\ Goto(g, "promoted")
  /\ UNCHANGED <<expired, hotPromoted, entry, leaked>>

\* The entry is linked at the front, stored or not.
Promote(g) ==
  LET e == entry[g] IN
  /\ At(g, "promote")
  /\ shard' = AddToLRU(RemoveLRU(shard, e), e)
  /\ Revisit(e)
  /\ Goto(g, "promoted")
  /\ UNCHANGED <<expired, hotPromoted, entry, leaked>>

\* The flag is reset.
EndPromotion(g) ==
  /\ At(g, "promoted")
  /\ hotPromoted' = hotPromoted \ {entry[g]}
  /\ Return(g)
  /\ UNCHANGED <<shard, expired, strayed, leaked>>

\* The clock passes the expiresAt of a stored entry.
Expire(e) ==
  /\ e \in Stored(shard) \ expired
  /\ expired' = expired \union {e}
  /\ UNCHANGED <<shard, hotPromoted, pc, entry, strayed, leaked>>

-----------------------------------------------------------------------------

OptNext ==
  \/ \E g \in Goroutines :
       \/ \E k \in Keys : OptDelete(g, k) \/ OptLookup(g, k)
       \/ \E e \in Entries : Set(g, e)
       \/ OptClear(g) \/ DropExpired(g)
       \/ ClaimPromotion(g) \/ Promote(g) \/ EndPromotion(g)
  \/ \E e \in Entries : Expire(e)

OptSpec == OptInit /\ [][OptNext]_optVars

-----------------------------------------------------------------------------

\* The neighbours of every stored entry, and the two ends, agree.
Linked ==
  LET s == shard
      S == Stored(shard)
  IN /\ s.head = None <=> S = {}
     /\ s.tail = None <=> S = {}
     /\ S # {} => s.head \in S /\ s.tail \in S
     /\ \A e \in S :
          /\ s.prev[e] = None <=> e = s.head
          /\ s.next[e] = None <=> e = s.tail
          /\ s.next[e] # None => s.next[e] \in S /\ s.prev[s.next[e]] = e
          /\ s.prev[e] # None => s.prev[e] \in S /\ s.next[s.prev[e]] = e

\* The list leads from the head to every stored entry.
Reached ==
  \A S \in SUBSET Stored(shard) :
    shard.head \in S /\ (\A e \in S : shard.next[e] \in S \union {None})
      => S = Stored(shard)

\* As long as every Get that comes back with the write lock finds its entry
\* still stored, the LRU list consists of the stored entries, each of them once.
\* (A Get that finds its entry gone removes it from the list all the same, and
\* that sets head and tail to nil.)
ListIsStore == ~strayed => Linked /\ (Stored(shard) # {} => Reached)

\* As long as no Get strays, size counts the stored entries and those that were
\* dropped because they had expired, and the store stays within the threshold.
SizeDrift ==
  ~strayed =>
    /\ shard.size = Cardinality(Stored(shard)) + leaked
    /\ Cardinality(Stored(shard)) <= (IF Threshold = 0 THEN 1 ELSE Threshold)

\* Races or not, only Set puts an entry into the store: what was deleted,
\* evicted, cleared or found expired never comes back.
NoResurrection ==
  [][\A k \in Keys :
       shard'.store[k] \notin {None, shard.store[k]} => Free(shard'.store[k])]_optVars

\* The pairs of stored entries of which the first is nearer the front: whoever
\* follows the list from it comes past the second.
Ahead(s) ==
  {p \in Stored(s) \X Stored(s) :
     /\ p[1] # p[2]
     /\ \A S \in SUBSET Stored(s) :
          p[1] \in S /\ (\A e \in S : s.next[e] \in S \union {None}) => p[2] \in S}

\* "LRU eviction": as long as no Get strays, the linked list orders the entries
\* by their last promotion or Set, and what a full shard evicts is the oldest.
Recency == INSTANCE LRU WITH
             Capacity <- Threshold,
             stored <- IF strayed THEN {} ELSE Stored(shard),
             newer <- IF strayed THEN {} ELSE Ahead(shard),
             lost <- strayed

EvictsOldest == Recency!Spec
=============================================================================
