--------------------------- MODULE Configuration ---------------------------
(***************************************************************************)
(* New with its options (options.go), the validation, and the registry of  *)
(* rate limiters (rate_limiter_registry.go).  A client is a record of its  *)
(* fields.  An option is the record of the fields it sets; where it does   *)
(* more than set them, the operator named after it says what.  The code    *)
(* applies the options in the order they are given in.                     *)
(***************************************************************************)
EXTENDS Backoff, Sequences

CONSTANTS
  None,        \* Go's nil
  NilPointer,  \* a nil *RateLimiter inside an interface, which is not equal to nil
  Minute, Day,
  \* New's durations, 100ms, 10s and 30s, and its jitter of 0.1, to scale:
  DefaultInitialBackoff, DefaultMaxBackoff, DefaultTimeout, DefaultJitter

ASSUME DefaultsAssumption ==
  /\ {DefaultInitialBackoff, DefaultMaxBackoff, DefaultTimeout} \subseteq 1..(Half - 1)
  /\ DefaultInitialBackoff <= DefaultMaxBackoff
  /\ DefaultJitter \in 0..Unit

\* What f sets, and what g has besides.
Over(f, g) == [x \in DOMAIN f \union DOMAIN g |-> IF x \in DOMAIN f THEN f[x] ELSE g[x]]

DefaultDebug == [Enabled |-> FALSE, RequestIDGen |-> "generateRequestID"]

Defaults == [
  httpClient |-> [Timeout |-> DefaultTimeout], timeout |-> DefaultTimeout,
  maxRetries |-> 3, initialBackoff |-> DefaultInitialBackoff, maxBackoff |-> DefaultMaxBackoff,
  backoffMultiplier |-> 2 * Unit, jitter |-> DefaultJitter, backoffStrategy |-> "ExponentialJitter",
  retryCondition |-> "DefaultRetryCondition", retryPolicy |-> None, retryBudget |-> None,
  circuitBreaker |-> [FailureThreshold |-> 5, RecoveryTimeout |-> Minute, SuccessThreshold |-> 2],
  middleware |-> <<>>,
  rateLimiter |-> None, limiterRegistry |-> None, limiterKeyFunc |-> None,
  cache |-> None, cacheTTL |-> 5 * Minute,
  cacheKeyFunc |-> "DefaultCacheKeyFunc", cacheCondition |-> "DefaultCacheCondition",
  cacheProvider |-> None, cacheMode |-> "TTLOnly", singleFlightEnabled |-> FALSE,
  metrics |-> None, debug |-> DefaultDebug, logger |-> None,
  deduplication |-> None, dedupKeyFunc |-> "DefaultDeduplicationKeyFunc",
  dedupCondition |-> "DefaultDeduplicationCondition"]

-----------------------------------------------------------------------------
(* The registry of limiters *)

\* The fallback of a registry made while the client has no rate limiter is not
\* nil, but a nil pointer.
NewRateLimiterRegistry(keyFunc, rateLimiter) ==
  [limiters |-> <<>>, keyFunc |-> keyFunc,
   fallback |-> IF rateLimiter = None THEN NilPointer ELSE rateLimiter]

\* A slip: the first limiter of a key stays.
RegisterLimiter_KeepsFirst(r, key, limiter) ==
  [r EXCEPT !.limiters = Over(@, [k \in {key} |-> limiter])]

RegisterLimiter(r, key, limiter) ==
  [r EXCEPT !.limiters = Over([k \in {key} |-> limiter], @)]

\* The limiter registered for the request's key, or else the fallback.
GetLimiter(r, request) ==
  IF r.keyFunc # None /\ r.keyFunc[request] \in DOMAIN r.limiters
    THEN r.limiters[r.keyFunc[request]]
    ELSE r.fallback

\* Whom doWithRetry asks: a limiter, nobody (None), or a nil pointer.
Asked(c, request) ==
  IF c.limiterRegistry # None THEN GetLimiter(c.limiterRegistry, request) ELSE c.rateLimiter

-----------------------------------------------------------------------------
(* The options that do more than set fields *)

WithLimiterFor(c, key, limiter) ==
  LET r == IF c.limiterRegistry = None
             THEN NewRateLimiterRegistry(c.limiterKeyFunc, c.rateLimiter)
             ELSE c.limiterRegistry
  IN  [c EXCEPT !.limiterRegistry = RegisterLimiter(r, key, limiter)]

\* A slip: the registry is left alone.
WithLimiterKeyFunc_Keeps(c, keyFunc) == [c EXCEPT !.limiterKeyFunc = keyFunc]

\* The registry is replaced by an empty one.
WithLimiterKeyFunc(c, keyFunc) ==
  [c EXCEPT !.limiterKeyFunc = keyFunc,
            !.limiterRegistry = IF @ = None THEN None
                                ELSE NewRateLimiterRegistry(keyFunc, c.rateLimiter)]

WithJitter(c, f) == [c EXCEPT !.jitter = clampJitter(f)]

WithTimeout(c, d) ==
  [c EXCEPT !.timeout = d, !.httpClient = IF @ = None THEN None ELSE [Timeout |-> d]]

\* Setting the timeout of a nil client panics, and so does WithMetrics when the
\* default registerer holds the collectors already.
PanicsOn(c, option, registered) ==
  \/ "httpClient" \in DOMAIN option /\ option.httpClient = None /\ c.timeout # 0
  \/ "newMetrics" \in DOMAIN option /\ registered

WithHTTPClient(c, client) ==
  [c EXCEPT !.httpClient = IF c.timeout = 0 THEN client ELSE [Timeout |-> c.timeout]]

WithMetrics(c, collector) == [c EXCEPT !.metrics = collector]

\* WithDebug, WithSimpleLogger and WithRequestIDGenerator.
WithDebug(c, settings) ==
  [c EXCEPT !.debug = Over(settings, IF @ = None THEN DefaultDebug ELSE @)]

\* What an option makes of a client.
Applied(c, o) ==
  CASE "limiterFor" \in DOMAIN o -> WithLimiterFor(c, o.limiterFor, o.limiter)
    [] "limiterKeyFunc" \in DOMAIN o -> WithLimiterKeyFunc(c, o.limiterKeyFunc)
    [] "jitter" \in DOMAIN o -> WithJitter(c, o.jitter)
    [] "timeout" \in DOMAIN o -> WithTimeout(c, o.timeout)
    [] "httpClient" \in DOMAIN o -> WithHTTPClient(c, o.httpClient)
    [] "newMetrics" \in DOMAIN o -> WithMetrics(c, o.newMetrics)
    [] "moreMiddleware" \in DOMAIN o -> [c EXCEPT !.middleware = @ \o o.moreMiddleware]
    [] "debugSettings" \in DOMAIN o ->
         [WithDebug(c, o.debugSettings) EXCEPT !.logger = IF "logger" \in DOMAIN o THEN o.logger ELSE @]
    [] OTHER -> Over(o, c)

-----------------------------------------------------------------------------
(* Validation: the names of the fields found wrong. A millisecond is a tick. *)

Wrong(name, condition) == IF condition THEN {name} ELSE {}

validateRetryConfig(c) ==
  UNION {Wrong("maxRetries", c.maxRetries < 0),
         Wrong("initialBackoff", c.initialBackoff <= 0),
         Wrong("maxBackoff", c.maxBackoff < c.initialBackoff),
         Wrong("backoffMultiplier", c.backoffMultiplier <= 0),
         Wrong("jitter", c.jitter \notin 0..Unit),
         Wrong("timeout", c.timeout <= 0),
         Wrong("backoffStrategy", c.backoffStrategy \notin {"ExponentialJitter", "DecorrelatedJitter"})}

validateRetryBudgetConfig(b) ==
  Wrong("retryBudget", b # None /\ (b.maxRetries \notin 1..1000 \/ b.perWindow < Second))

validateRateLimiterConfig(c) ==
  UNION {Wrong("rateLimiter", c.rateLimiter # None
                 /\ (c.rateLimiter.maxTokens \notin 1..1000000 \/ c.rateLimiter.refillRate <= 0)),
         Wrong("limiterKeyFunc", c.limiterRegistry # None /\ c.limiterKeyFunc = None)}

validateCacheConfig(c) == Wrong("cacheTTL", c.cache # None /\ c.cacheTTL \notin 1..Day)

validateCircuitBreakerConfig(b) ==
  Wrong("circuitBreaker",
        b.FailureThreshold <= 0 \/ b.RecoveryTimeout <= 0 \/ b.SuccessThreshold <= 0)

validateDebugConfig(c) ==
  Wrong("debug", c.debug # None /\ c.debug.Enabled /\ (c.debug.RequestIDGen = None \/ c.logger = None))

validateDeduplicationConfig(c) ==
  Wrong("deduplication",
        c.deduplication # None /\ (c.dedupKeyFunc = None \/ c.dedupCondition = None))

\* A slip: only the first is looked at.
validateMiddlewareConfig_First(c) ==
  Wrong("middleware", c.middleware # <<>> /\ Head(c.middleware) = None)

validateMiddlewareConfig(c) ==
  Wrong("middleware", \E i \in DOMAIN c.middleware : c.middleware[i] = None)

validateHTTPClientConfig(c) == Wrong("httpClient", c.httpClient = None)

validateExtremeValues(c) ==
  UNION {Wrong("maxRetries", c.maxRetries > 100),
         Wrong("initialBackoff", c.initialBackoff > 10 * Minute),
         Wrong("maxBackoff", c.maxBackoff > Hour),
         Wrong("timeout", c.timeout > 10 * Minute)}

ValidateConfiguration(c) ==
  UNION {validateRetryConfig(c), validateRetryBudgetConfig(c.retryBudget),
         validateRateLimiterConfig(c), validateCacheConfig(c),
         validateCircuitBreakerConfig(c.circuitBreaker), validateDebugConfig(c),
         validateDeduplicationConfig(c), validateMiddlewareConfig(c),
         validateHTTPClientConfig(c), validateExtremeValues(c)}
=============================================================================
