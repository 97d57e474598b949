# klayengo in TLA+

klayengo is a Go HTTP client that wraps `net/http` in retries, a circuit
breaker, rate limiting, response caching, request deduplication and metrics. It
is used by many goroutines at once, most of its state is kept in atomics or
behind short critical sections, and most of what can go wrong is an
interleaving. The modules here model those interleavings from the source, TLC
checks them on small instances, and TLAPS proves the safety properties for
every number of goroutines and every parameter. What is sequential (options,
validation, retry decisions and delays) is modelled as operators, checked
over all orders and combinations of a set of inputs, and proved for all of them.

## 1. Inventory

| Part | State | Operations | Interacts with |
|---|---|---|---|
| Circuit breaker (`circuit_breaker.go`) | `state`, `failures`, `successes`, `lastFailure`: four atomics | `Allow`, `RecordFailure`, `RecordSuccess` | `doWithRetry` calls `Allow` before and one `Record...` after each attempt |
| Rate limiter (`rate_limiter.go`) | `tokens`, `lastRefill`: two atomics | `Allow` = `refillTokens`, `consumeToken` | `doWithRetry`, directly or through the registry |
| Retry budget (`retry_policy.go`) | `windowStart`, `current`: two atomics | `Allow`, `GetStats` | `doWithRetry`, before a retry |
| Deduplication (`deduplication.go`) | `entries` (mutex); per entry a result and a `done` channel (mutex) | `GetOrCreateEntry`, `Complete`, `Wait`; a timer per completion | first and last thing `Do` does |
| Single flight (`internal/singleflight`, `client.go`) | a map of calls (mutex); per call a result and a `WaitGroup` | `Do`, `TryDo`, `ForgetKey`; a clean-up goroutine per call | `Do` around `doWithRetry`, after a cache miss |
| Client (`client.go`) | the above, and the caches | `Do`, `doWithRetry`, `handleHTTPSemanticsCacheHit`, `singleFlightDo` | all |
| In-memory cache (`cache.go`) | sharded maps of entries with an expiry, a lock per shard | `Get`, `Set`, `Delete`, `Clear` | `Do`, or a provider |
| Cache providers (`cache_provider.go`, `http_cache.go`) | none but the cache below | `Get`, `Set`, `Invalidate`; lifetimes from `Cache-Control` and `Expires` | `Do`, before and after the request |
| Optimized cache (`cache_optimized.go`) | per shard a map, a doubly linked list in order of use, a count (one lock); flags per entry | `Get` with its clean-up and promotion, `Set` with eviction, `Delete`, `Clear` | a `Cache` a client may be given |
| Optimized limiter (`rate_limiter_optimized.go`) | `tokens`, `lastRefill`, `refillRate`, `refillThreshold`: four atomics | `Allow`, `AllowN`, `Reserve`, `SetRate`, `Reset` | stand-alone; can be registered as a `Limiter` |
| Optimized breaker (`circuit_breaker_optimized.go`) | the same four atomics | as the breaker, with CAS for some stores; `Reset` | stand-alone |
| Retry policy and backoff (`retry_policy.go`, `internal/backoff`) | none | `ShouldRetry`, `parseRetryAfter`, two delay strategies | `doWithRetry`, after each attempt |
| Limiter registry (`rate_limiter_registry.go`) | a map of limiters, a key function, a fallback | `RegisterLimiter`, `GetLimiter`, `Allow` | options build it, `doWithRetry` asks it |
| Options and validation (`options.go`) | the fields of a client | 33 options, `ValidateConfiguration` | `New` |
| Errors, metrics, logging | counters | | `Do` |

What is hard about them:

* **Interleavings of atomics.** Every method of the breaker, the limiter and
  the budget is a sequence of atomic operations with decisions in between; the
  races between a load and a later store are deliberate or overlooked, and no
  test reaches most of them.
* **Hand-over between goroutines.** Deduplication and single flight park
  callers until another goroutine releases them; an early return, a panic or a
  timer that fires late may leave them parked.
* **Timers.** Entries stay for 100ms after completion, and are then deleted by
  key: by that time the key could mean something else.
* **Locks that are let go.** `Get` of the optimized cache decides under the read
  lock and acts under the write lock, and anything may happen to its entry in
  between.
* **Clocks read twice.** The caches compare deadlines with the clock in two
  layers and wait for a lock in between; an entry may expire, or be replaced,
  between the two.
* **Order of options.** Some options copy what earlier ones have set, so that
  the same options in another order make another client.
* **Composition.** `Do` has many exits. Whatever it has registered (a
  deduplication entry, a flight, the in-flight gauge) must be undone on each.

What makes each part correct is stated in the properties of section 3; the
hazards behind them, with the lines where they bite, are in `PROJECT.json`.

## 2. Modules

| Module | Models | Granularity |
|---|---|---|
| `CircuitBreaker` | the breaker | one action per atomic operation |
| `OptimizedCircuitBreaker` | the optimized breaker, with the operations it shares taken from `CircuitBreaker`; one or the other is used | one action per atomic operation |
| `RateLimiter` | the token bucket | one action per atomic operation |
| `RetryBudget` | `RetryBudget.Allow` | one action per atomic operation |
| `Coalescing` | abstract: what request coalescing promises | one action per event of a flight |
| `Deduplication` | the tracker and the protocol of `Do` with it | one action per critical section |
| `SingleFlight` | `Group`, and the fallback in `singleFlightDo` | one action per critical section |
| `OptimizedCache` | one shard of the optimized cache | one action per section under the lock |
| `LRU` | abstract: what a cache with LRU eviction promises | one action per change of what is stored or of its order |
| `OptimizedRateLimiter` | the lock-free token bucket | one action per atomic operation |
| `CacheUsers` | who uses a cache: goroutines with a clock and a lock, common to both caches | operators |
| `HTTPCache` | one shard of `InMemoryCache`, bare or under either provider, and the freshness rules | one action per section under the lock or between two readings of the clock |
| `Backoff` | delays: the strategies, `Retry-After`, `ShouldRetry` | operators |
| `Configuration` | `New`'s options, the validation, the registry | operators |
| `Retrying` | a client from its options to its requests, in one goroutine | one action per option, and per call in `doWithRetry` |
| `Client` | `Do` and `doWithRetry`, all parts put together | one action per call of a part |
| `CircuitBreakerProofs` | theorems about both breakers | proofs |
| `CacheProofs` | theorems about `OptimizedCache` and `HTTPCache` | proofs |
| `RetryProofs` | theorems about `Retrying`, with `Backoff` and `Configuration`, and about `RetryBudget` | proofs |
| `RateLimiterProofs`, `DeduplicationProofs`, `SingleFlightProofs`, `OptimizedRateLimiterProofs`, `ClientProofs` | theorems about the module each is named after | proofs |
| `MC...` | small instances; `MCRetries` puts `Retrying` and `RetryBudget` into one run, as alternatives | TLC |

### How state and actions correspond to the code

`pc[g]` is the next atomic operation or critical section of goroutine `g`, and
the variables the code keeps in locals are functions of `g` (`clk`, `seen`,
`from`, `start`). They are reset to a fixed value where the code no longer uses
them, which only saves states. `now` is `time.Now().UnixNano()`: it advances by
ticks, independently of the goroutines, and a goroutine reads it only where the
code does. Variables called *history* record something for a property and
influence nothing. An operator whose name contains an underscore
(`Opens_OffByOne`) is the plausible mistake its comment describes; nothing
refers to it.

*`CircuitBreaker`.* A goroutine goes `Allow`, request, one `Record...`, as
`doWithRetry` does; it may be delayed anywhere. The upstream fails or succeeds
freely until `HealthyAt` and succeeds from then on. The zero values of the
configuration have been replaced by their defaults, so the thresholds are
positive.

*`OptimizedCircuitBreaker`.* `optimized` is chosen initially and says which
breaker the goroutines share; an `Opt...` action replaces the action of
`CircuitBreaker` of that name, the others are common. `Reset` is called by any
goroutine between its requests.

*`RateLimiter`.* `refillRate` is chosen initially and never changes; a rate of
zero or below is accepted by the code and disables refills. Go's division
truncates towards zero (`Quotient`), which matters because a reading of the
clock older than `lastRefill` gives a negative number of tokens to add.

*`RetryBudget`.* Of `Allow`'s result only whether the retry was granted is kept,
in the history variable `granted`, which belongs to the window opened last.

*`Deduplication`, `SingleFlight`.* Entries and calls are heap objects: a finite
pool stands for them, and an object is made from a member that nothing refers
to any more, which is what a garbage collector guarantees. Timers and clean-up
goroutines are pairs of the key they delete and the object they were started
for. `MayReturnEarly` allows the return of `Do` after a cache hit,
`KeyMayChange` a key function that gives a request another key afterwards,
`MayForget` and `MayPanic` what their names say. `Removes` is the identity test
of `Group`'s clean-up (`singleflight.go:56`), which the fallback lacks.

*`OptimizedCache`.* `shard` is a record of the map, the ends of the list, the
count and the `next` and `prev` of every entry, and the helpers (`RemoveLRU`,
`AddToLRU`, `EvictLRU`, ...) are functions from a shard to a shard, composed in
the order of the code. Entries are heap objects from a pool, as above. `Get` is
the lookup under the read lock and then, for an expired or a hot entry, the
sections that follow; which hits are the tenth of their entry is left open, as
the counter is read after the lock is released. A Get *strays* when it takes the write
lock for an entry that is no longer in the map: the history variable `strayed`
says that this has happened.

*`OptimizedRateLimiter`.* The rates are a set: the constructor and `SetRate`
choose from it. A CAS loop without a limit (`AllowN`, the last loop of
`fastRefill`) is one action, at the instant of its last CAS; the loop of
`consumeTokenFast`, which gives up after three attempts, is kept.

*`HTTPCache`.* A goroutine gets a key and, after a miss, stores what the
upstream sent, if anything, as `Do` does; it may also invalidate a key or clear
the cache. `mode` is `"TTLOnly"` for the bare cache and for a
`DefaultCacheProvider`, which adds nothing to it, and otherwise the mode of an
`HTTPSemanticsCacheProvider`. Readers and writers of the map are the goroutines
at the labels between `Lock` and `Unlock`, and the lock is a condition on them
(`MayRLock`, `MayLock`). `Fatal` is the Go runtime stopping the program at a
concurrent map access, which it may do and need not. A provider that finds no
deadline in the headers computes one (`DefaultDeadline`) and then what is left of it
(`Until`), and each reads the clock. A response is the sequence of its `Cache-Control`
parts and an `Expires` instant; the syntax is abstracted, but not what happens
to parts that do not parse or are given twice. `received` and `stored` in an
entry are history.

*`Backoff`, `Configuration`, `Retrying`.* A duration is an integer of a
fixed width (`Half`), a float is a multiple of `1/Unit`, and the result of a
strategy is the set of delays its random numbers may lead to; the empty set
says that there is no retry. A client is the record of its fields, an option
the record of the fields it sets, and the options that do more have an operator
of the name they have in the code. `ValidateConfiguration` returns the names of
the fields it complains about, in place of the texts. `Retrying` gives `New` up
to `MaxOptions` options in any order, and sends requests through `Do`, which calls
the functions configured for deduplication and caching, and `doWithRetry`;
what a limiter, the breaker and the budget answer is free, and so is what those
functions, where they are not nil, and the cache do. `elsewhere` says whether another
client of the process has registered its metrics before, and `lacks` what a response
comes without: the request it answers, or a body that can be read. The options are a constant,
of which `IsOption` is assumed: each is a call of one of the functions of
`options.go`, with arguments of Go's types; the one restriction is that no nil
`*RateLimiter` is registered with `WithLimiterFor`. `"panicked"` is a
panic of `New` or of a request.

*`Client`.* The breaker, the budget, the limiter, the tracker and the flight
are coarse here: a call of one is one action, as their own modules cover
concurrent calls. The tracker's and the flight's slots are `"absent"`,
`"running"` or the result, which followers receive when it lands. `cached` is a
response under a key, and may expire at any time; so may a window of the budget
end and a token arrive. `config` is chosen initially among deduplication on and
off, no cache, a legacy cache or a provider, and the three cache modes.

## 3. What is checked

Run `tlc -config X.cfg MC...` for the runs below; `PROJECT.json` lists, for every
property, a mutant of the model that violates it.

| Run | Instance | Properties |
|---|---|---|
| `breaker` | either breaker, 2 goroutines, both thresholds 2, timeout 2 ticks, upstream healthy at 3, clock up to 4 | `BothTypeOK`, `NoEarlyOpen`, `SequentialTransitions`, `ClosesAfterHealing` |
| `limiter` | 2 goroutines, 2 tokens, one token every 2 ticks or never, clock up to 5 | `TypeOK`, `ExactWithoutRefill`, `SequentialBucket` |
| `dedup` | 3 callers, 2 keys, 3 entries, early returns | `TypeOK`, `CompletesOwnEntry`, `Progress`, `PromiseKept` |
| `singleflight` | 3 callers, 2 keys, 2 calls, `ForgetKey`, panics | `TypeOK`, `OneFlightPerKey`, `CleanupSparesRunning`, `Progress`, `PromiseKept` |
| `client` | 2 callers, 1 key, every configuration, 1 retry, 1 token, budget 1, breaker thresholds 2 and 1 | `TypeOK`, `ExclusiveUpstream`, `NothingLeftBehind`, `DoReturns` |
| `client_stuck_waiter` | the same | violates `AllReturn` |
| `optimized_cache` | 2 goroutines, 4 keys, 5 entries (two of one key), shard of 4, up to the first stray | `OptTypeOK`, `ListIsStore`, `SizeDrift`, `NoResurrection`, `EvictsOldest` |
| `optimized_limiter` | 2 goroutines, 2 tokens, batch 1, one token per 1 or 2 ticks, 1 `Reset`, clock up to 3 | `TypeOK`, `RateRespected` |
| `http_cache` | 2 goroutines, 1 key, every mode, 5 responses, default lifetime 1 tick, clock up to 3 | `TypeOK`, `NothingServedLate`, `LifetimeKept`, `RacesOnlyInGets`, `FreshEntriesKept` |
| `swr_stale` | the same | violates `StaleServed` |
| `retries` | up to 3 of 36 options in any order, a GET and a POST, 9 outcomes of an attempt, metrics registered elsewhere or not; a budget of 2 retries every 2 ticks, 3 goroutines, clock up to 5 | `TypeOK`, `LimiterInForce`, `PanicsExplained`, `RetriesInBounds`; `BudgetTypeOK`, `GrantsBounded`, `WindowsApart`, `SequentialBudget` |
| `fallback_limiter` | the same options, requests and outcomes | violates `FallbackGoverns` |

What the runs show, beyond that the properties hold:

* Under arbitrary interleavings either breaker keeps three promises: it opens
  only after enough failures and closes for good once the upstream is healthy, and
  the plain one's counters do not drift. The recovery timeout is *not* among them: it
  holds as long as no two calls of the breaker's methods overlap
  (`SequentialTransitions` carries the condition). Two overlapping calls can
  move a breaker that has just opened to half-open at once.
* The limiter is exact while calls do not overlap, and conserves tokens in
  `consumeToken` always, but `refillTokens` gives tokens back that were taken
  while it ran. The bucket may also go into debt, when a caller with an old
  clock reading subtracts tokens.
* The retry budget is exact while calls do not overlap; otherwise a window may
  grant one budget per concurrent caller, and no more.
* `DeduplicationTracker` and `singleflight.Group` implement `Coalescing`, with
  one exception each: an owner served from a cache, and a panic in `fn`.
* The early return is a defect of the composition (finding
  `client_stuck_waiter`): with deduplication and a cache both enabled, one cache
  hit blocks its key for every later caller. A body that cannot be read has the
  same effect with a legacy cache: `Do` panics before `Complete` (`FinishPanics`).
* `NothingLeftBehind` excludes the two paths on which `RecordRequestEnd` is missing
  (`client.go:189` and `client.go:227`): there the in-flight gauge of
  `README.md:452` counts requests that are over.
* A shard of the optimized cache is a faithful LRU list as long as no Get
  strays (`ListIsStore`), and evicts by "LRU" (`PERFORMANCE_OPTIMIZATIONS.md:126`):
  it implements `LRU` (`EvictsOldest`), where a use is a `Set` or a promotion, as
  the Gets in between leave the list alone. Its size is off by one for every entry dropped by an
  expired `Get`, which does not subtract it, so that a shard evicts ever earlier
  (`SizeDrift`); and nothing that was removed comes back, strays or not
  (`NoResurrection`). A stray Get does damage the list: unlinking an entry that
  is in no list sets `head` and `tail` to nil, and promoting one links an entry
  that is in no map. It may also drop a fresh entry of the same key.
* The lock-free limiter, unlike the plain one, respects its rate under every
  interleaving, because it claims time with a CAS before it adds tokens
  (`RateRespected`; `Reset` may move `lastRefill` back, and that time counts
  twice). Its burst is another matter: see the divergences below.
* In `TTLOnly` and `HTTPSemantics` mode a cache serves nothing that had expired
  when the call began (`NothingServedLate`). In `SWR` mode it does not either
  (`StaleWindowUnused`, proved), which there is a failure: the stale window the
  documents promise never serves such a call, because `InMemoryCache.Get` drops an
  expired entry before the provider can look at the window (finding `swr_stale`). No mode
  keeps anything longer than its headers say plus the time it took to store it, but
  a response marked `no-store` or `no-cache` is kept as if it had no headers. The map is
  unprotected in one place: a `Get` that drops an expired entry runs together
  with other Gets of the shard, and the Go runtime may stop the program
  (`RacesOnlyInGets` shows that there is no other place). A fresh entry is lost
  without anybody asking for it in one case only: a provider's `Get` that saw its
  predecessor expire deletes the key late (`FreshEntriesKept`).
* A request is asked of the limiter the options say as long as the fallback and
  the key function are given first (`LimiterInForce`); in the order `README.md:103-106`
  of the repository shows, it is not (finding `fallback_limiter`).
* `New` panics for two reasons: `WithHTTPClient(nil)`, and `WithMetrics` when the
  collectors are registered already, by another client or by an earlier
  `WithMetrics`. A request of a client that passes the validation panics in
  five cases (`PanicsExplained`). Three are configurations, which the validation could
  see and does not: a cache with a nil condition or key function, no retry condition
  and no policy, and no fallback for a key because the first `WithLimiterFor` came
  before it. Two depend on the response: a policy is shown one without its request,
  and a legacy cache without a provider one whose body cannot be read.
* Every retry has a reason, and the delay before it is within the configured
  bounds or is what `Retry-After` asks for, up to an hour (`RetriesInBounds`). The
  exception is a number of seconds that overflows a duration (about 9.2e9).

### Where the code differs from its documentation

Three differences are findings, each with a run that shows it: `client_stuck_waiter`,
`fallback_limiter` and `swr_stale`. These are others, met while modelling; the models
say what the code does.

* `types.go:160` calls `RateLimiter` a token bucket, but two overlapping calls
  may admit more than the bucket has earned: `RateRespected` of `RateLimiter`
  holds while calls do not overlap, and not otherwise.
* `rate_limiter_optimized.go:258` gives the maximum burst as the capacity. A
  refill claims at most one batch of time even if the bucket is full, so after an
  idle period each call of a burst claims another batch, and a caller alone is
  admitted more often than the capacity says.
* `http_cache.go:134` says "If no-store or no-cache, don't cache"; the provider
  takes the missing expiry for missing headers, and stores and serves such a response
  with the default lifetime (`CacheExpiry`, `DefaultDeadline`; `cache_provider_test.go:320`
  says of this that "no-store should ideally prevent caching").
* `retry_policy.go:14` says that only idempotent methods are retried. The method
  is taken from the response; after a network error there is none, and a POST
  is retried too (`Justified` of `Retrying`).
* A legacy cache in `HTTPSemantics` or `SWR` mode is never written to: the single
  flight stores with a provider only. In `TTLOnly` mode a provider is written to
  and never read.
* `WithHTTPClient` overwrites the timeout of the client it is given with the
  default of 30s, unless a zero timeout was set before.
* `README.md:522` calls the circuit breaker disabled by default, while `New`
  always installs one; `README.md:524` describes the retry budget as "Cap retries
  per time window", which concurrent callers may exceed.

### Bounds, and why they are enough

Two goroutines produce every pairwise race; the third caller of `Deduplication`
and `SingleFlight` is a late one that meets the leftovers of two others. Time is
bounded by `MaxTime`; it covers an opening, a recovery and a second opening of
the breaker, and two windows or refills after the first. The runs stop moving
the clock there, and everything else goes on. In `RateLimiter` and
`RetryBudget` `admitted`, `granted` and the counters are bounded by the clock.
In `Client` one retry, one token and one unit of budget make every refusal
reachable; the breaker's `failures` counts up to its threshold, which is all the
code compares it with. Two keys matter where an object could land under the
wrong key; in `Client` callers of different keys share only the limiter, the
breaker and the budget, whose answers are free there already. Symmetry is not
used where liveness is checked.

In `OptimizedCache` four entries of four keys fill a shard beyond its threshold
of three, and the fifth overwrites a key, so that eviction, overwriting and an
entry in the middle of the list all occur. `MaxCount` stops the drifting `size`
at 4 either way. `UpToTheFirstStray` ends the exploration where `strayed` becomes true: two of the
invariants and `EvictsOldest` promise nothing beyond, and the other two properties are
proved without that restriction. `View` ignores the pointers of collected entries and
the expiry of entries that are not stored: no action that reads them is enabled
before they are set anew. In `OptimizedRateLimiter` two tokens make
`AllowN(2)` differ from `Allow`, three failed attempts fit, and `MaxResets`
bounds the calls of `Reset`.

`SuccessesBounded` bounds `successes` by the threshold and the number of
goroutines. `BothTypeOK` asks it of the plain breaker only: in the optimized one a
goroutine whose CAS to `Closed` fails zeroes nothing. When a failure reopens the
breaker before the CAS of several successes, these stay in the counter until the
next `Allow` zeroes it, in a store after its own CAS; successes counted
in between come on top, and three goroutines exceed the bound in this way. With
three goroutines, both thresholds and the timeout 1 and the clock up to 2
(436021 states), `BothTypeOK`, `NoEarlyOpen` and `ClosesAfterHealing` hold too;
this instance is not among the runs.

In `HTTPCache` the responses are one without headers, a `no-store`, a `max-age`
given twice with a stale window, a `max-age` that is not a number, and one of 0
beside an `Expires`; lifetimes of 0 to 2 ticks expire, and are renewed, within 3.
One key suffices, as an operation touches one key, or all in `Clear`; keys of a
shard meet only in its lock, which the model has. In `Retrying` a duration has 8
bits (`Half` = 128), a second is 3 ticks, an hour is 30, and the default
durations keep their order, so that 43 seconds overflow as 9.2e9 do in the code;
the exponents at which the strategies stop growing are 1 instead of 30 and 10.
Three options are enough for a fallback, a key function and a limiter in every
order, for a cache with its mode and one of its functions missing, and for two
registrations of the metrics; no check of the validation needs more than three. With metrics registered
elsewhere one option is (`FewOptionsElsewhere`), as they matter to `WithMetrics` only. Each
alternative of `PanicsExplained` occurs: without any one of them TLC finds it violated.

`CHECK_DEADLOCK FALSE` is set in `SingleFlight.cfg`, as after panics in all keys
every caller may be waiting; in `HTTPCache.cfg` and `HTTPCacheSWRStale.cfg`, as a data race may stop the program; and in `Retries.cfg` and `FallbackLimiter.cfg`, as a panic ends the
goroutine. All three are what the code does.

### Fairness

`FairSpec` asks for no more than the runtime gives: a goroutine that can run
does eventually (weak fairness of its steps), timers fire, and an upstream
request ends, because `http.Client` has a timeout. Nobody has to start a
request, and no context has to be cancelled. The exception is `CircuitBreaker`,
whose `ClosesAfterHealing` speaks of requests that keep coming.

## 4. What is proved

All proofs are checked by TLAPS for arbitrary (finite, where they are counted)
sets of goroutines, keys, entries and calls and every parameter that satisfies
the assumptions of the module. Each invariant a run checks is a theorem, and so is
each action property.

* **Breaker.** `TypeCorrect`, `OpensOnlyAtThreshold`, and for either breaker
  `BothTypesCorrect`, `BothOpenOnlyAtThreshold` and the action property
  `RecoveryIsAwaited`. The invariant counts:
  each success past the threshold belongs to a goroutine that will still zero
  the counter (`SuccessesInv`); below `FailureThreshold` recorded failures the
  breaker is closed, and `failures` plus the goroutines on their way to add to
  it is at most the number recorded (`ClosedInv`). For `RecoveryIsAwaited` it
  says instead that, as long as calls have not overlapped, one goroutine at most
  is inside a method, the state it has loaded is the state, and the timeout it
  has found over is over (`SequentialInv`).
* **Limiter.** `TypeCorrect`, `RefillsAreNotAhead`, `ConsumingIsExact`,
  `SequentialCallsAreExact`. The second rests on a lemma about truncating
  division: whole intervals never add up to more than the time they are taken
  from, also for negative times. The last is inductive once it says that, as
  long as calls have not overlapped, one goroutine at most is inside (`OneAtATime`), what
  it has loaded is still so (`UpToDate`), and what was admitted and is
  in the bucket has been earned up to `lastRefill` (`Earned`).
* **Budget**, in `RetryProofs`. `BudgetTypeCorrect`, `GrantsAreBounded`, `WindowsAreApart`,
  `SequentialCallsAreCapped`. Each
  goroutine between its CAS and its zeroing store may let one more budget
  through, and `granted` is bounded by what those goroutines and the counter
  leave (`GrantsInv`).
* **Deduplication**, with `~KeyMayChange`: `TypeCorrect`, `OwnersAreExclusive`,
  `OwnEntryIsCompleted`, `NobodyIsAbandoned`, `TrackerKeepsPromise`. From creation
  until its timer is started an entry is its key's (`Holders`), and until the
  timer fires it stays there (`Timed`): so a timer never removes an entry other
  than its own, although it deletes by key. With that, each step maps to a step
  of `Coalescing` under the refinement mapping, or to a stutter.
* **Single flight**, with `ForgetKey` and panics: `TypeCorrect`,
  `FlightsAreExclusive`, `CleanupsFindTheirCalls`, `NobodyIsAbandoned`, the
  action property `CleanupsSpareRunning`, and `GroupKeepsPromise`, the refinement.
  In this module and the one above `NobodyAbandoned` is proved and in no run: what follows
  from it under fairness, that the waiters return, is what the runs check (`Progress`).
* **Optimized cache**, in `CacheProofs`. `TypeCorrect` and the action property
  `NothingResurrected`. Every operation on a shard is shown to keep entries
  under their own keys and to change the map in no other way than said, with no
  assumption on the list: both theorems hold after any number of stray Gets.
  `ListIsTheStore`, `SizeDriftsByLeaks` and `ShardEvictsOldest` hold until the first
  (`Unstrayed`). They are about a list with given members (`HasList`): no part of
  them but the whole holds the head and is closed under `next`, `RemoveLRU` of a
  member takes it out, `AddToLRU` of an entry that is not linked puts it in, and each
  operation does to the members what it does to the map, so that the two stay equal (`InOrder`).
  `ShardEvictsOldest` is the refinement of `LRU`. Its mapping sends the list to a set of
  pairs: one entry is before another if every set of members that is
  closed under `next` and has the first has the second too (`Before`, `Ahead` in
  the model). So it needs no position in the list, which would have to be
  computed by recursion. `RemoveLRU` restricts that relation to the members left
  (`RemovedFromOrder`), `AddToLRU` puts the new entry before all others (`AddedInFront`), and
  the entry behind all others is the tail (`TailIsOldest`): a closed
  set without the tail would be mapped into itself by `next`, one to one, hence
  onto itself, and could not be entered from the head. The stray step itself is the step
  `Lose` of `LRU`, which promises nothing from then on.
* **In-memory cache and providers**, in `CacheProofs`: `TypesKept`, `AnswersFresh` and
  its counterpart for SWR, `StaleWindowUnused`, which follow from one lemma
  (`ServesInTime`), `Lifetimes`, `Races`, and the action property `FreshKept`, for any goroutines,
  keys and responses and any movement of the clock. Who holds the shard's lock to
  write is alone at the map (`Exclusion`); as a `Get` drops an expired entry under
  the lock for reading, this says nothing of two Gets, and they are what is
  left to race. No noted instant is ahead of the clock (`ReadingsInv`). A `Get` knows of its entry
  that it had not expired when the call began, and that what it is about to drop
  is gone or has expired (`GetInv`): the entry may be replaced between the two
  layers, but not while a lock is held. A `Set` knows at what instant its lifetime was
  computed, `expiresAt - ttl`, and that the instant lies between receipt and now
  (`SetInv`); what the wait for the lock adds is then the excess `LifetimeKept`
  allows. What a repeated directive means rests on `LastPosition`: a set of positions
  that is not empty has a greatest element (from well-founded induction, as
  the maximum is a `CHOOSE`).
* **Options, validation and requests**, in `RetryProofs`: `RetryingTypes`,
  `LimitersInForce`, `PanicsAreExplained`, `RetriesBounded`, for any set of options, any
  number of them in any order, any requests and outcomes. `EffectOfOption` says
  what each option makes of the fields that matter. The invariant has three
  parts: the fields one option derives from others agree and the backoffs are
  durations (`ClientInv`); the registry holds, for each key, the limiter given last, and
  its fallback is the rate limiter, as long as the options were in order; and if the
  fallback is a nil pointer, a limiter for a key was given before every rate
  limiter (`LimitersInv`); and what `doWithRetry` knows at each step (`PhaseInv`).
  `PanicsAreExplained` then needs the converse of what the validation checks, that a nil
  client, middleware or function of the deduplication makes it complain (`ValidationFinds`).
* **Delays**, in `RetryProofs`: for every width of the integers, multiplier (zero
  and below included), jitter and pair of backoffs, a delay is a duration
  (`CalculateBounds`), and lies between the two backoffs if these are in order and twice
  the larger fits (`ExponentialBounds`, `DecorrelatedBounds`, `HeaderBounds`).
  The exponent is capped in the code but arbitrary here: `PowGrows` shows by
  minimal counterexample, from the recursive function `pow`, that a power of a
  multiplier of 1 or more does not shrink. The bound matters: without `2 * maxBackoff < Half`
  the sum of a backoff and its jitter may overflow, and be negative.
* **Optimized limiter.** `TypeCorrect` and `RespectsRate`. The invariant keeps
  books: a token is paid for with time when `lastRefill` moves (`Claim`), is
  pending until `Add`, in the bucket until it is taken, and admitted then; the
  tokens in all three places, less the bucketfuls given for nothing, cost at
  least `Fastest` ticks each (`Credit`). `Phases` says what a goroutine still
  knows between its loads and its CAS.

* **Client.** `TypeCorrect`, `UpstreamIsExclusive`, `NothingStaysBehind`, for any
  number of callers and keys and every configuration. The invariant says which
  labels a caller can be at with which route and result (`Places`), and that a
  registered deduplication entry or flight has one caller to complete it
  (`Owners`, `Leaders`).

The counting invariants rest on four lemmas about cardinalities at the head of
`CircuitBreakerProofs` and at those of the budget in `RetryProofs`: a step moves one goroutine, and
changes the number of those at given labels by at most one.

Only model-checked: liveness (`ClosesAfterHealing`, `Progress`, `DoReturns`),
which TLAPS does not reach here. The three findings are counterexamples of runs;
`StaleWindowUnused` generalises one, and the others have no theorem. The arithmetic of `Backoff` is proved as far as its bounds; that an
expression of the model is what the floating-point code computes is by
reading.

## 5. What is not modelled

* In `Client`: a client given both a cache and a provider; the background
  revalidation of `handleHTTPSemanticsCacheHit`, which no path of `Do` reaches,
  as the function is called in `HTTPSemantics` mode only; the test whether an
  entry needs revalidation and the conditional headers, which need a legacy cache
  in that mode that somebody else has filled (`SemanticsHit` leaves it open);
  contexts that end a request in the HTTP client (an error like others); the sharing of one
  `*http.Response`, and of its body, between waiters; the limit of 10 MB at
  which `createCacheEntry` cuts a body.
* The syntax of headers and dates; only their values are modelled.
* The second copy of the strategies (`client.go:510-585`,
  `retry_policy.go:148-223`), which runs only without a calculator, and `New` and
  `NewDefaultRetryPolicy` always set one.
* Data races of plain memory other than the cache's map, such as the metrics'
  reads of `rl.tokens` and the flag `IsStale` the provider sets on a shared entry.
* The statistics of the optimized parts; the hashes that pick shards; integer
  overflow of nanosecond clocks.
* Panics for other reasons than what the package itself calls: `PanicsExplained`
  leaves to the caller that a request has a URL, that a middleware returns a response or
  an error, that no option is nil, and that limiters, policies, caches and collectors are
  those the package makes. A registration of metrics by another client while `New` runs
  is not modelled; one before it is.
* Errors, logging, metrics other than the gauge and the registration: no state anything
  reads back.

## 6. Plan

Done: every component with state of its own, the composition in `Client`, options
and validation, retry decisions and delays, and a theorem for each of their safety
properties.

1. `Client` with a cache and a provider at once, and with requests that share a
   deduplication key but not a cache key.
2. The revalidation of a cached entry, should `Do` ever reach it in SWR mode.
