----------------------------- MODULE HTTPCache -----------------------------
(***************************************************************************)
(* One shard of InMemoryCache (cache.go) under the providers of            *)
(* cache_provider.go and the freshness rules of http_cache.go.  Goroutines *)
(* do what Do does: Get, and after a miss Set the response the upstream    *)
(* sent; they also Invalidate and Clear.  The clock may move between any   *)
(* two steps, the shard's lock is held from step to step, and two accesses *)
(* of the map at once, one of them a write, may end the program: Go's maps *)
(* detect that and stop with a fatal error.                                *)
(***************************************************************************)
EXTENDS Integers, FiniteSets, FiniteSetsExt, Sequences, CacheUsers

CONSTANTS
  Responses,   \* what the upstream may send: [cacheControl, expires]
  TTL,         \* the time to live when the headers give none, in ticks
  MaxTime      \* bound on the clock

\* cacheControl is the sequence of the header's parts; a value that is not a
\* number is None.  expires is an instant.
Part == [name : STRING, value : Int \union {None}]
Response == [cacheControl : Seq(Part), expires : Int \union {None}]

EntryType == [expiresAt : Int, staleAt : Int \union {None}, response : Responses,
              received : 0..MaxTime, stored : 0..MaxTime]

ASSUME CacheAssumption ==
  /\ Responses \subseteq Response
  /\ None \notin EntryType
  /\ TTL \in Nat \ {0}
  /\ MaxTime \in Nat

VARIABLES
  mode,     \* how the cache is used: see Modes
  now,      \* time.Now()
  store,    \* store[k]: the entry of key k, or None
  key,      \* key[g]: the key of g's call
  began,    \* began[g]: when g's call of Get began
  ttl,      \* ttl[g]: the time to live g's Set passes to InMemoryCache.Set
  crashed   \* whether the runtime has stopped the program

local == <<key, began, entry, ttl>>
vars == <<mode, now, store, pc, local, crashed>>

\* InMemoryCache alone or under a DefaultCacheProvider; under an
\* HTTPSemanticsCacheProvider, which knows one mode more.
Modes == {"TTLOnly", "HTTPSemantics", "SWR"}

Reading == {"get"}
Writing == {"drop", "put", "delete", "lateDelete", "clear"}
Labels == {"idle", "rlock", "check", "served", "servedStale", "miss", "default", "until",
           "lockPut", "lockLateDelete", "lockDelete", "lockClear"}
          \union Reading \union Writing

-----------------------------------------------------------------------------
(* Freshness *)

\* The value a directive ends up with: that of its last part that parses.
Directive(cacheControl, name) ==
  LET Parts == {i \in DOMAIN cacheControl :
                  cacheControl[i].name = name /\ cacheControl[i].value # None}
  IN  IF Parts = {} THEN None ELSE cacheControl[Max(Parts)].value

Has(cacheControl, name) == \E i \in DOMAIN cacheControl : cacheControl[i].name = name

\* When a response received at an instant expires, or None.
CacheExpiry(r, at) ==
  LET maxAge == Directive(r.cacheControl, "max-age")
  IN  CASE Has(r.cacheControl, "no-store") \/ Has(r.cacheControl, "no-cache") -> None
        [] maxAge # None -> at + maxAge
        [] OTHER -> r.expires

\* The entry made of a response, without a deadline (0) if the headers give none.
\* received and stored are history: when the response came in and went into the map.
CacheEntry(r, at) ==
  LET expiry == CacheExpiry(r, at)
      swr == Directive(r.cacheControl, "stale-while-revalidate")
  IN  [expiresAt |-> IF expiry # None THEN expiry ELSE 0,
       staleAt |-> IF expiry # None /\ swr # None THEN expiry + swr ELSE None,
       response |-> r, received |-> at, stored |-> at]

\* A slip: the wrong way round.
Expired_Inverted(e) == now < e.expiresAt
Expired(e) == now > e.expiresAt
StaleServable(e) == mode = "SWR" /\ e.staleAt # None /\ now < e.staleAt

-----------------------------------------------------------------------------
Init ==
  /\ mode \in Modes
  /\ now = 0
  /\ store = [k \in Keys |-> None]
  /\ pc = [g \in Goroutines |-> "idle"]
  /\ key \in [Goroutines -> Keys]
  /\ began = [g \in Goroutines |-> 0]
  /\ entry = [g \in Goroutines |-> None]
  /\ ttl = [g \in Goroutines |-> 0]
  /\ crashed = FALSE

\* The shard's RWMutex.
Holders(labels) == {g \in Goroutines : pc[g] \in labels}
Readers == Holders({"get", "drop"})
Writers == Holders(Writing \ {"drop"})

MayRLock == Writers = {}

\* A slip: a lock for reading taken to write.
MayLock_Shared == Writers = {}
MayLock == Writers = {} /\ Readers = {}

\* The results of the previous call are dropped when a goroutine makes a new one.
Call(g, k, label) ==
  /\ pc[g] \in {"idle", "served", "servedStale"}
  /\ key' = [key EXCEPT ![g] = k]
  /\ entry' = [entry EXCEPT ![g] = None]
  /\ began' = [began EXCEPT ![g] = now]
  /\ Goto(g, label)
  /\ UNCHANGED <<mode, now, store, ttl, crashed>>

\* The call ends without a response.
End(g) ==
  /\ Goto(g, "idle")
  /\ entry' = [entry EXCEPT ![g] = None]
  /\ began' = [began EXCEPT ![g] = 0]
  /\ ttl' = [ttl EXCEPT ![g] = 0]
  /\ UNCHANGED key

-----------------------------------------------------------------------------
(* Get *)

Get(g) == \E k \in Keys : Call(g, k, "rlock")

RLock(g) ==
  /\ At(g, "rlock")
  /\ MayRLock
  /\ Goto(g, "get")
  /\ UNCHANGED <<mode, now, store, local, crashed>>

\* A slip: exists is not looked at.
Lookup_TakesMisses(g) ==
  /\ At(g, "get")
  /\ entry' = [entry EXCEPT ![g] = store[key[g]]]
  /\ Goto(g, "served")
  /\ UNCHANGED <<mode, now, store, key, began, ttl, crashed>>

\* InMemoryCache.Get up to the deletion of an expired entry, which it makes
\* while it holds the lock for reading.
Lookup(g) ==
  /\ At(g, "get")
  /\ LET e == store[key[g]] IN
       \/ /\ e = None
          /\ Goto(g, "miss")
          /\ UNCHANGED entry
       \/ /\ e # None
          /\ Expired(e)
          /\ Goto(g, "drop")
          /\ UNCHANGED entry
       \/ /\ e # None
          /\ ~Expired(e)
          /\ entry' = [entry EXCEPT ![g] = e]
          /\ Goto(g, IF mode = "TTLOnly" THEN "served" ELSE "check")
  /\ UNCHANGED <<mode, now, store, key, began, ttl, crashed>>

Drop(g) ==
  /\ At(g, "drop")
  /\ store' = [store EXCEPT ![key[g]] = None]
  /\ Goto(g, "miss")
  /\ UNCHANGED <<mode, now, local, crashed>>

\* HTTPSemanticsCacheProvider.Get reads the clock again.
Check(g) ==
  /\ At(g, "check")
  /\ Goto(g, CASE ~Expired(entry[g]) -> "served"
               [] Expired(entry[g]) /\ StaleServable(entry[g]) -> "servedStale"
               [] OTHER -> "lockLateDelete")
  /\ UNCHANGED <<mode, now, store, local, crashed>>

-----------------------------------------------------------------------------
(* Set *)

\* The upstream answers after a miss. An error, a status of 400 or more and, for
\* the providers, a body that cannot be read leave the cache alone.
Receive(g) ==
  /\ At(g, "miss")
  /\ \/ /\ End(g)
     \/ \E r \in Responses :
          /\ entry' = [entry EXCEPT ![g] = CacheEntry(r, now)]
          /\ ttl' = [ttl EXCEPT ![g] = TTL]
          /\ began' = [began EXCEPT ![g] = 0]
          /\ Goto(g, CASE mode = "TTLOnly" -> "lockPut"
                       [] mode # "TTLOnly" /\ CacheExpiry(r, now) = None -> "default"
                       [] OTHER -> "until")
          /\ UNCHANGED key
  /\ UNCHANGED <<mode, now, store, crashed>>

\* The deadline the provider gives an entry that has none.
DefaultDeadline(g) ==
  /\ At(g, "default")
  /\ entry' = [entry EXCEPT ![g].expiresAt = now + TTL]
  /\ Goto(g, "until")
  /\ UNCHANGED <<mode, now, store, key, began, ttl, crashed>>

\* The provider passes on how long the entry has still to live.
Until(g) ==
  /\ At(g, "until")
  /\ ttl' = [ttl EXCEPT ![g] = entry[g].expiresAt - now]
  /\ Goto(g, "lockPut")
  /\ UNCHANGED <<mode, now, store, key, began, entry, crashed>>

\* A slip: the lifetime is added to the deadline, not to the clock.
Stamp_Twice(e, lifetime) == [e EXCEPT !.expiresAt = @ + lifetime, !.stored = now]

Stamp(e, lifetime) == [e EXCEPT !.expiresAt = now + lifetime, !.stored = now]

Put(g) ==
  /\ At(g, "put")
  /\ store' = [store EXCEPT ![key[g]] = Stamp(entry[g], ttl[g])]
  /\ End(g)
  /\ UNCHANGED <<mode, now, crashed>>

-----------------------------------------------------------------------------
(* Delete, by Invalidate or by a provider's Get, and Clear *)

Invalidate(g) == \E k \in Keys : Call(g, k, "lockDelete")

Delete(g) ==
  /\ pc[g] \in {"delete", "lateDelete"}
  /\ store' = [store EXCEPT ![key[g]] = None]
  /\ IF At(g, "delete") THEN End(g) ELSE Goto(g, "miss") /\ UNCHANGED local
  /\ UNCHANGED <<mode, now, crashed>>

CallClear(g) == Call(g, key[g], "lockClear")

Clear(g) ==
  /\ At(g, "clear")
  /\ store' = [k \in Keys |-> None]
  /\ End(g)
  /\ UNCHANGED <<mode, now, crashed>>

Lock(g) ==
  /\ MayLock
  /\ \/ At(g, "lockPut") /\ Goto(g, "put")
     \/ At(g, "lockDelete") /\ Goto(g, "delete")
     \/ At(g, "lockLateDelete") /\ Goto(g, "lateDelete")
     \/ At(g, "lockClear") /\ Goto(g, "clear")
  /\ UNCHANGED <<mode, now, store, local, crashed>>

-----------------------------------------------------------------------------
\* Two goroutines are at the map, and one of them writes.
Racing(g, h) ==
  /\ g # h
  /\ pc[g] \in Writing
  /\ pc[h] \in Reading \union Writing

Fatal ==
  /\ \E g, h \in Goroutines : Racing(g, h)
  /\ crashed' = TRUE
  /\ UNCHANGED <<mode, now, store, pc, local>>

Tick ==
  /\ now < MaxTime
  /\ now' = now + 1
  /\ UNCHANGED <<mode, store, pc, local, crashed>>

Step(g) ==
  \/ Get(g) \/ RLock(g) \/ Lookup(g) \/ Drop(g) \/ Check(g)
  \/ Receive(g) \/ DefaultDeadline(g) \/ Until(g) \/ Put(g)
  \/ Invalidate(g) \/ Delete(g) \/ CallClear(g) \/ Clear(g) \/ Lock(g)

Next ==
  /\ ~crashed
  /\ Tick \/ Fatal \/ \E g \in Goroutines : Step(g)

Spec == Init /\ [][Next]_vars

-----------------------------------------------------------------------------
\* The fields of the code have their types, and a goroutine serves, or stores, only
\* an entry it has: the boolean of Get is looked at before the entry is.
TypeOK ==
  /\ mode \in Modes
  /\ now \in 0..MaxTime
  /\ store \in [Keys -> EntryType \union {None}]
  /\ pc \in [Goroutines -> Labels]
  /\ key \in [Goroutines -> Keys]
  /\ began \in [Goroutines -> 0..MaxTime]
  /\ entry \in [Goroutines -> EntryType \union {None}]
  /\ ttl \in [Goroutines -> Int]
  /\ crashed \in BOOLEAN
  /\ \A g \in Goroutines :
       pc[g] \in {"check", "served", "servedStale", "default", "until", "lockPut", "put"} =>
         entry[g] # None

\* What g returns had not expired when g's Get began.
ServedInTime(g) ==
  pc[g] \in {"served", "servedStale"} => began[g] <= entry[g].expiresAt

\* Without stale-while-revalidate, no Get that begins after an entry has expired is
\* answered with it, by either of the two layers that read the clock
\* (InMemoryCache.Get and the provider's), and whatever happens in between.
NothingServedLate == mode # "SWR" => \A g \in Goroutines : ServedInTime(g)

\* With stale-while-revalidate, an expired entry is served as long as its stale window
\* is open, as the README and HTTPSemanticsCacheProvider.Get say: no Get is about to
\* drop such an entry. What the code does: InMemoryCache.Get knows expiresAt only, and
\* drops the entry before the provider can look at the window.
StaleServed ==
  \A g \in Goroutines :
    At(g, "drop") /\ store[key[g]] # None => ~StaleServable(store[key[g]])

\* Until when an entry may be used according to its headers or the configuration.
Due(e) ==
  LET expiry == CacheExpiry(e.response, e.received)
  IN  IF mode = "TTLOnly" \/ expiry = None THEN e.received + TTL ELSE expiry

\* An entry lives as long as its headers, or else the configuration, say, and
\* outlives that by no more than the time it took to store it. (Set computes what
\* is left of the lifetime before it waits for the lock, InMemoryCache.Set adds it
\* to the clock after.) A response marked no-store or no-cache is among those that
\* live as long as the configuration says, although http_cache.go:134 says "don't
\* cache": to the provider's Set it looks like one without headers.
LifetimeKept ==
  \A k \in Keys :
    store[k] # None =>
      store[k].expiresAt - Due(store[k]) \in 0..(store[k].stored - store[k].received)

\* A fresh entry leaves the cache because it is replaced, invalidated or cleared,
\* with one exception: a provider's Get that saw the entry's predecessor expire
\* deletes what the key holds by then. The deletion under the read lock in
\* InMemoryCache.Get never takes a fresh entry.
FreshEntriesKept ==
  [][\A k \in Keys :
       store[k] # None /\ ~Expired(store[k]) /\ store'[k] # store[k] =>
         \E g \in Goroutines :
           \/ At(g, "clear")
           \/ pc[g] \in {"put", "delete"} /\ key[g] = k
           \/ At(g, "lateDelete") /\ key[g] = k /\ entry[g].expiresAt < now]_vars

\* "protected by its own lock": the lock keeps every two accesses of the map
\* apart of which one is a write, except two Gets, one of which has found an
\* expired entry: these may stop the program.
RacesOnlyInGets ==
  /\ \A g, h \in Goroutines : Racing(g, h) => At(g, "drop") /\ pc[h] \in {"get", "drop"}
  /\ crashed => \E g, h \in Goroutines : Racing(g, h)
=============================================================================
