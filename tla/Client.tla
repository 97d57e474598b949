------------------------------- MODULE Client -------------------------------
(***************************************************************************)
(* Client.Do and doWithRetry (client.go): how the components are put       *)
(* together.  Each call of a component is one action here, in the order    *)
(* Do makes them; that concurrent calls of one component behave is the     *)
(* subject of the component's own module.                                  *)
(*                                                                         *)
(* The requests are the ones dedupCondition and cacheCondition accept (GET *)
(* requests by default); a key stands for both the deduplication key and   *)
(* the cache key of a request.  A client without a rate limiter or without *)
(* a retry budget behaves as one whose limiter or budget never refuses,    *)
(* which is among the behaviours below.                                    *)
(***************************************************************************)
EXTENDS Naturals, FiniteSets

CONSTANTS
  Callers,           \* goroutines that call Do
  Keys,
  None,
  Configs,           \* the client configurations considered
  MaxRetries,        \* c.maxRetries
  MaxTokens,         \* the rate limiter's capacity
  MaxBudget,         \* the retry budget's maxRetries
  FailureThreshold,  \* the breaker's thresholds
  SuccessThreshold

\* What comes of an attempt: a response below 400, a 429 or another one below
\* 500, one above, or an error of the HTTP client or a middleware.
Outcomes == {"ok", "clientError", "throttled", "serverError", "networkError"}

\* What Do returns.
Results == Outcomes \union {"rateLimited", "circuitOpen", "budgetExceeded"}

\* policy: whether a RetryPolicy replaces the default retry condition;
\* cache: none, a Cache (WithCache, WithCustomCache) or a CacheProvider.
ConfigType == [dedup : BOOLEAN,
               policy : BOOLEAN,
               cache : {"none", "legacy", "provider"},
               mode : {"TTLOnly", "HTTPSemantics", "SWR"}]

ASSUME ConfigAssumption ==
  /\ Configs \subseteq ConfigType
  /\ {MaxRetries, MaxTokens, MaxBudget} \subseteq Nat
  /\ {FailureThreshold, SuccessThreshold} \subseteq Nat \ {0}
  /\ None \notin Keys \union Results

VARIABLES
  config,    \* the client's configuration; never written
  dedup,     \* dedup[k]: "absent", "running", or the result the entry is done with
  flight,    \* flight[k]: the same for the single flight
  cached,    \* cached[k]: what the cache holds under k, or None
  tokens,    \* the rate limiter's tokens
  breaker,   \* the circuit breaker: [state, failures, successes]
  spent,     \* the retry budget's current
  pc,        \* pc[c]: the next call of caller c
  key,       \* key[c]: the key of c's request
  route,     \* route[c]: who called doWithRetry for c
  attempt,   \* attempt[c]: doWithRetry's attempt
  result,    \* result[c]: resp and err
  started    \* started[c]: c has recorded a request start and no end for it

shared == <<dedup, flight, cached, tokens, breaker, spent>>
locals == <<key, route, attempt, result, started>>
vars == <<config, shared, pc, locals>>

Labels == {"idle", "dedupWait", "cache", "flight", "flightWait", "limit", "breaker",
           "upstream", "decide", "attempted", "land", "finish", "complete"}

Slot == {"absent", "running"} \union Results
Done(slot) == slot \in Results

\* In particular, there is no attempt after MaxRetries retries, and no path from
\* doWithRetry to a cache stores a response that is not below 400.
TypeOK ==
  /\ config \in Configs
  /\ dedup \in [Keys -> Slot]
  /\ flight \in [Keys -> Slot]
  /\ cached \in [Keys -> {"ok", None}]
  /\ tokens \in 0..MaxTokens
  /\ breaker \in [state : {"Closed", "Open", "HalfOpen"},
                  failures : 0..FailureThreshold, successes : 0..SuccessThreshold]
  /\ spent \in 0..MaxBudget
  /\ pc \in [Callers -> Labels]
  /\ key \in [Callers -> Keys \union {None}]
  /\ route \in [Callers -> {"none", "direct", "leader", "revalidation"}]
  /\ attempt \in [Callers -> 0..MaxRetries]
  /\ result \in [Callers -> Results \union {None}]
  /\ started \in [Callers -> BOOLEAN]

\* A cache handed to the client may already hold responses.
Init ==
  /\ config \in Configs
  /\ dedup = [k \in Keys |-> "absent"]
  /\ flight = [k \in Keys |-> "absent"]
  /\ \/ cached = [k \in Keys |-> None]
     \/ config.cache # "none" /\ cached = [k \in Keys |-> "ok"]
  /\ tokens = MaxTokens
  /\ breaker = [state |-> "Closed", failures |-> 0, successes |-> 0]
  /\ spent = 0
  /\ pc = [c \in Callers |-> "idle"]
  /\ key = [c \in Callers |-> None]
  /\ route = [c \in Callers |-> "none"]
  /\ attempt = [c \in Callers |-> 0]
  /\ result = [c \in Callers |-> None]
  /\ started = [c \in Callers |-> FALSE]

-----------------------------------------------------------------------------

At(c, label) == pc[c] = label
Goto(c, label) == pc' = [pc EXCEPT ![c] = label]
SetResult(c, r) == result' = [result EXCEPT ![c] = r]

\* c.metrics.RecordRequestEnd.
RecordEnd_Forgotten(c) == UNCHANGED started
RecordEnd(c) == started' = [started EXCEPT ![c] = FALSE]

\* Do returns.
Return(c) ==
  /\ Goto(c, "idle")
  /\ key' = [key EXCEPT ![c] = None]
  /\ route' = [route EXCEPT ![c] = "none"]
  /\ attempt' = [attempt EXCEPT ![c] = 0]
  /\ SetResult(c, None)

cacheEnabled == config.cache # "none"
singleFlightMode == cacheEnabled /\ config.mode \in {"HTTPSemantics", "SWR"}

\* Which of the two caches Do looks up: a provider only in the modes with
\* HTTP semantics, a legacy cache otherwise.
LooksUp ==
  \/ config.cache = "provider" /\ config.mode # "TTLOnly"
  \/ config.cache = "legacy"

\* No error and a status below 400.
Cacheable(r) == r = "ok"

-----------------------------------------------------------------------------
(* Do: deduplication *)

Start(c, k) ==
  /\ At(c, "idle")
  /\ started' = [started EXCEPT ![c] = TRUE]
  /\ key' = [key EXCEPT ![c] = k]
  /\ \/ /\ ~config.dedup
        /\ Goto(c, "cache")
        /\ UNCHANGED <<dedup, result>>
     \/ /\ config.dedup /\ dedup[k] = "absent"
        /\ dedup' = [dedup EXCEPT ![k] = "running"]
        /\ Goto(c, "cache")
        /\ UNCHANGED result
     \/ /\ config.dedup /\ dedup[k] # "absent"
        /\ Goto(c, "dedupWait")
        /\ IF Done(dedup[k]) THEN SetResult(c, dedup[k]) ELSE UNCHANGED result
        /\ UNCHANGED dedup
  /\ UNCHANGED <<config, flight, cached, tokens, breaker, spent, route, attempt>>

\* The waiter returns the owner's result, without RecordRequestEnd.
DedupHit(c) ==
  /\ At(c, "dedupWait")
  /\ result[c] # None
  /\ Return(c)
  /\ UNCHANGED <<config, shared, started>>

\* The waiter's context is cancelled.
Cancelled(c) ==
  /\ At(c, "dedupWait")
  /\ Return(c)
  /\ UNCHANGED <<config, shared, started>>

(* Do: cache *)

\* A hit returns at once, past the end of Do where Complete is called.
CacheHit(c) ==
  /\ At(c, "cache")
  /\ LooksUp /\ cached[key[c]] # None
  /\ ~(config.cache = "legacy" /\ config.mode = "HTTPSemantics")
  /\ RecordEnd(c)
  /\ Return(c)
  /\ UNCHANGED <<config, shared>>

\* handleHTTPSemanticsCacheHit: a fresh entry is served; for another one a
\* conditional request is sent.
SemanticsHit(c) ==
  /\ At(c, "cache")
  /\ config.cache = "legacy" /\ config.mode = "HTTPSemantics"
  /\ cached[key[c]] # None
  /\ \/ Return(c)
     \/ /\ Goto(c, "limit")
        /\ route' = [route EXCEPT ![c] = "revalidation"]
        /\ UNCHANGED <<key, attempt, result>>
  /\ UNCHANGED <<config, shared, started>>

CacheMiss(c) ==
  /\ At(c, "cache")
  /\ LooksUp => cached[key[c]] = None
  /\ \/ /\ singleFlightMode
        /\ Goto(c, "flight")
        /\ UNCHANGED route
     \/ /\ ~singleFlightMode
        /\ Goto(c, "limit")
        /\ route' = [route EXCEPT ![c] = "direct"]
  /\ UNCHANGED <<config, shared, key, attempt, result, started>>

(* Do: singleFlightDo *)

\* A slip: the caller does not look for a running call.
Lead_Always(c) ==
  /\ At(c, "flight")
  /\ flight' = [flight EXCEPT ![key[c]] = "running"]
  /\ route' = [route EXCEPT ![c] = "leader"]
  /\ Goto(c, "limit")
  /\ UNCHANGED <<config, dedup, cached, tokens, breaker, spent, key, attempt, result, started>>

Lead(c) ==
  /\ At(c, "flight")
  /\ flight[key[c]] = "absent"
  /\ flight' = [flight EXCEPT ![key[c]] = "running"]
  /\ route' = [route EXCEPT ![c] = "leader"]
  /\ Goto(c, "limit")
  /\ UNCHANGED <<config, dedup, cached, tokens, breaker, spent, key, attempt, result, started>>

Follow(c) ==
  /\ At(c, "flight")
  /\ \/ /\ flight[key[c]] = "running"
        /\ Goto(c, "flightWait")
        /\ UNCHANGED result
     \/ /\ Done(flight[key[c]])
        /\ SetResult(c, flight[key[c]])
        /\ Goto(c, "finish")
  /\ UNCHANGED <<config, shared, key, route, attempt, started>>

-----------------------------------------------------------------------------
(* doWithRetry *)

Fail(c, error) ==
  /\ SetResult(c, error)
  /\ Goto(c, "attempted")

LimiterAllow(c) ==
  /\ At(c, "limit")
  /\ \/ tokens > 0 /\ tokens' = tokens - 1 /\ Goto(c, "breaker") /\ UNCHANGED result
     \/ tokens = 0 /\ UNCHANGED tokens /\ Fail(c, "rateLimited")
  /\ UNCHANGED <<config, dedup, flight, cached, breaker, spent, key, route, attempt, started>>

\* An open breaker goes to half-open once the recovery timeout has passed.
BreakerAllow(c) ==
  /\ At(c, "breaker")
  /\ \/ breaker.state # "Open" /\ Goto(c, "upstream") /\ UNCHANGED <<breaker, result>>
     \/ /\ breaker.state = "Open"
        /\ breaker' = [breaker EXCEPT !.state = "HalfOpen", !.successes = 0]
        /\ Goto(c, "upstream")
        /\ UNCHANGED result
     \/ breaker.state = "Open" /\ UNCHANGED breaker /\ Fail(c, "circuitOpen")
  /\ UNCHANGED <<config, dedup, flight, cached, tokens, spent, key, route, attempt, started>>

\* failures is only ever compared with the threshold, and counts up to it.
CountFailure(n) == IF n < FailureThreshold THEN n + 1 ELSE n

AfterFailure(b) ==
  LET n == CountFailure(b.failures)
  IN CASE b.state = "Closed" ->
            [b EXCEPT !.failures = n,
                      !.state = IF n >= FailureThreshold THEN "Open" ELSE "Closed"]
       [] b.state = "Open" -> b
       [] b.state = "HalfOpen" -> [state |-> "Open", failures |-> n, successes |-> 0]

AfterSuccess(b) ==
  IF b.state # "HalfOpen" THEN b
  ELSE IF b.successes + 1 >= SuccessThreshold
         THEN [state |-> "Closed", failures |-> 0, successes |-> 0]
         ELSE [b EXCEPT !.successes = b.successes + 1]

\* The middleware chain returns, and the breaker hears of it.
UpstreamReturns(c) ==
  /\ At(c, "upstream")
  /\ \E o \in Outcomes :
       /\ SetResult(c, o)
       /\ breaker' = IF o \in {"serverError", "networkError"}
                       THEN AfterFailure(breaker) ELSE AfterSuccess(breaker)
  /\ Goto(c, "decide")
  /\ UNCHANGED <<config, dedup, flight, cached, tokens, spent, key, route, attempt, started>>

\* DefaultRetryCondition, or DefaultRetryPolicy for an idempotent request.
Retryable(r) ==
  r \in {"serverError", "networkError"} \/ (config.policy /\ r = "throttled")

ShouldRetry_OffByOne(r, n) == n <= MaxRetries /\ Retryable(r)
ShouldRetry(r, n) == n < MaxRetries /\ Retryable(r)

\* The retry policy, the budget, and the sleep before the next attempt.
Decide(c) ==
  /\ At(c, "decide")
  /\ \/ /\ ~ShouldRetry(result[c], attempt[c])
        /\ Goto(c, "attempted")
        /\ UNCHANGED <<spent, attempt, result>>
     \/ /\ ShouldRetry(result[c], attempt[c])
        /\ spent < MaxBudget
        /\ spent' = spent + 1
        /\ attempt' = [attempt EXCEPT ![c] = attempt[c] + 1]
        /\ SetResult(c, None)
        /\ Goto(c, "limit")
     \/ /\ ShouldRetry(result[c], attempt[c])
        /\ spent = MaxBudget
        /\ Fail(c, "budgetExceeded")
        /\ UNCHANGED <<spent, attempt>>
  /\ UNCHANGED <<config, dedup, flight, cached, tokens, breaker, key, route, started>>

-----------------------------------------------------------------------------
(* Back in Do *)

\* doWithRetry has returned; a leader caches the response with the provider.
Attempted(c) ==
  /\ At(c, "attempted")
  /\ \/ /\ route[c] = "leader"
        /\ cached' = IF Cacheable(result[c]) /\ config.cache = "provider"
                       THEN [cached EXCEPT ![key[c]] = result[c]] ELSE cached
        /\ Goto(c, "land")
        /\ UNCHANGED <<key, route, attempt, result>>
     \/ /\ route[c] = "direct"
        /\ Goto(c, "finish")
        /\ UNCHANGED <<cached, key, route, attempt, result>>
     \/ /\ route[c] = "revalidation"
        /\ Return(c)
        /\ UNCHANGED cached
  /\ UNCHANGED <<config, dedup, flight, tokens, breaker, spent, started>>

\* The callers a result is handed to: those waiting at `label' for key k.
Waiting(label, k) == {w \in Callers : At(w, label) /\ key[w] = k /\ result[w] = None}

HandOut(c, ws) == result' = [w \in Callers |-> IF w \in ws THEN result[c] ELSE result[w]]

\* The flight's result is there: the followers go on with it.
Land(c) ==
  LET ws == Waiting("flightWait", key[c])
  IN /\ At(c, "land")
     /\ flight' = [flight EXCEPT ![key[c]] = result[c]]
     /\ HandOut(c, ws)
     /\ pc' = [w \in Callers |-> IF w \in ws \union {c} THEN "finish" ELSE pc[w]]
     /\ UNCHANGED <<config, dedup, cached, tokens, breaker, spent, key, route, attempt, started>>

\* RecordRequestEnd; outside the single flight the response is cached here.
Finish(c) ==
  /\ At(c, "finish")
  /\ RecordEnd(c)
  /\ cached' = IF cacheEnabled /\ ~singleFlightMode /\ Cacheable(result[c])
                 THEN [cached EXCEPT ![key[c]] = result[c]] ELSE cached
  /\ IF config.dedup
       THEN Goto(c, "complete") /\ UNCHANGED <<key, route, attempt, result>>
       ELSE Return(c)
  /\ UNCHANGED <<config, dedup, flight, tokens, breaker, spent>>

\* createCacheEntry cannot read the body and gives the legacy cache a nil entry:
\* Set panics, and Do is left without Complete.
FinishPanics(c) ==
  /\ At(c, "finish")
  /\ config.cache = "legacy" /\ ~singleFlightMode /\ Cacheable(result[c])
  /\ RecordEnd(c)
  /\ Return(c)
  /\ UNCHANGED <<config, shared>>

\* A slip: the entry is marked done, but its channel is not closed.
Complete_WakesNobody(c) ==
  /\ At(c, "complete")
  /\ dedup' = [dedup EXCEPT ![key[c]] = result[c]]
  /\ Return(c)
  /\ UNCHANGED <<config, flight, cached, tokens, breaker, spent, started>>

\* The owner completes its entry: the waiters get its result.
Complete(c) ==
  /\ At(c, "complete")
  /\ dedup' = [dedup EXCEPT ![key[c]] = result[c]]
  /\ result' = [w \in Callers |->
                  IF w \in Waiting("dedupWait", key[c]) THEN result[c]
                  ELSE IF w = c THEN None ELSE result[w]]
  /\ Goto(c, "idle")
  /\ key' = [key EXCEPT ![c] = None]
  /\ route' = [route EXCEPT ![c] = "none"]
  /\ attempt' = [attempt EXCEPT ![c] = 0]
  /\ UNCHANGED <<config, flight, cached, tokens, breaker, spent, started>>

-----------------------------------------------------------------------------
(* Time passes *)

\* 100ms after it is done, a deduplication entry or a call is unregistered.
SlotExpires(k) ==
  /\ \/ Done(dedup[k]) /\ dedup' = [dedup EXCEPT ![k] = "absent"] /\ UNCHANGED flight
     \/ Done(flight[k]) /\ flight' = [flight EXCEPT ![k] = "absent"] /\ UNCHANGED dedup
  /\ UNCHANGED <<config, cached, tokens, breaker, spent, pc, locals>>

CacheExpires(k) ==
  /\ cached[k] # None
  /\ cached' = [cached EXCEPT ![k] = None]
  /\ UNCHANGED <<config, dedup, flight, tokens, breaker, spent, pc, locals>>

Refill ==
  /\ tokens < MaxTokens
  /\ tokens' = tokens + 1
  /\ UNCHANGED <<config, dedup, flight, cached, breaker, spent, pc, locals>>

NewBudgetWindow ==
  /\ spent > 0
  /\ spent' = 0
  /\ UNCHANGED <<config, dedup, flight, cached, tokens, breaker, pc, locals>>

-----------------------------------------------------------------------------

doWithRetry(c) == LimiterAllow(c) \/ BreakerAllow(c) \/ UpstreamReturns(c) \/ Decide(c)

singleFlightDo(c) == Lead(c) \/ Follow(c) \/ Land(c)

\* What goroutine c does inside Do, but for the end of its context.
Proceed(c) ==
  \/ DedupHit(c) \/ CacheHit(c) \/ SemanticsHit(c) \/ CacheMiss(c)
  \/ singleFlightDo(c) \/ doWithRetry(c)
  \/ Attempted(c) \/ Finish(c) \/ FinishPanics(c) \/ Complete(c)

Do(c) == (\E k \in Keys : Start(c, k)) \/ Cancelled(c) \/ Proceed(c)

Environment == Refill \/ NewBudgetWindow \/ \E k \in Keys : SlotExpires(k) \/ CacheExpires(k)

Next == Environment \/ \E c \in Callers : Do(c)

Spec == Init /\ [][Next]_vars

\* Goroutines are scheduled, and the upstream answers or times out.
FairSpec == Spec /\ \A c \in Callers : WF_vars(Proceed(c))

-----------------------------------------------------------------------------

\* Inside doWithRetry on behalf of Do itself or of a flight.
Upstream(c) ==
  /\ pc[c] \in {"limit", "breaker", "upstream", "decide"}
  /\ route[c] # "revalidation"

\* With deduplication, or in a cache mode that uses the single flight, at most
\* one caller per key is in doWithRetry: no stampede after a cache miss,
\* whatever expires, times out or is retried in between.
ExclusiveUpstream ==
  config.dedup \/ singleFlightMode =>
    \A c, d \in Callers : c # d /\ Upstream(c) /\ Upstream(d) => key[c] # key[d]

\* Do holds deduplication entries and flights only for requests under way: an
\* entry nobody will complete would block its key for good. (The combination
\* of deduplication and a cache is left out: see AllReturn.)
Owns(c, k) == config.dedup /\ key[c] = k /\ pc[c] \notin {"idle", "dedupWait"}
Leads(c, k) == route[c] = "leader" /\ key[c] = k /\ pc[c] \notin {"finish", "complete"}

NoOrphans ==
  \A k \in Keys :
    /\ ~cacheEnabled /\ dedup[k] = "running" => \E c \in Callers : Owns(c, k)
    /\ flight[k] = "running" => \E c \in Callers : Leads(c, k)

\* The requests-in-flight gauge counts the callers in Do: outside Do nobody
\* has a start recorded without its end. (Not so for the waiters of a
\* deduplicated request and on the way through handleHTTPSemanticsCacheHit,
\* which return without RecordRequestEnd.)
GaugeBalanced ==
  ~config.dedup /\ ~(config.cache = "legacy" /\ config.mode = "HTTPSemantics") =>
    \A c \in Callers : At(c, "idle") => ~started[c]

\* Whatever way Do is left, nothing it has registered stays behind.
NothingLeftBehind == NoOrphans /\ GaugeBalanced

\* Every call of Do returns: retries end, followers and waiters are released.
\* (For clients that do not combine deduplication with a cache.)
DoReturns ==
  \A c \in Callers : ~At(c, "idle") ~> At(c, "idle") \/ (config.dedup /\ cacheEnabled)

\* Every call of Do returns, for all clients. A cache hit returns from Do
\* without Complete, and leaves the deduplication entry of its request behind.
AllReturn == \A c \in Callers : ~At(c, "idle") ~> At(c, "idle")
=============================================================================
