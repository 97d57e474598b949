---------------------------- MODULE MCRetrying ----------------------------
(* Retrying on a small instance. *)
EXTENDS Retrying

Bucket(tokens) == [maxTokens |-> tokens, refillRate |-> Second]

TwoRequests == {[method |-> "GET", host |-> "a"], [method |-> "POST", host |-> "b"]}

ByHost == [r \in TwoRequests |-> r.host]
ByMethod == [r \in TwoRequests |-> r.method]

Policy(initial, max, strategy) ==
  [maxRetries |-> 1, initialBackoff |-> initial, maxBackoff |-> max,
   backoffMultiplier |-> 2 * Unit, jitter |-> Unit, backoffStrategy |-> strategy]

\* Every kind of option, with the values that decide something.
SomeOptions == {
  [rateLimiter |-> Bucket(5)], [rateLimiter |-> Bucket(0)],
  [limiterFor |-> "a", limiter |-> Bucket(7)], [limiterFor |-> "a", limiter |-> Bucket(8)],
  [limiterKeyFunc |-> ByHost], [limiterKeyFunc |-> ByMethod],
  [timeout |-> 0], [timeout |-> 4], [httpClient |-> None], [httpClient |-> [Timeout |-> 7]],
  [retryCondition |-> None],
  [retryPolicy |-> Policy(2, 5, "DecorrelatedJitter")], [retryPolicy |-> Policy(40, 100, "")],
  [maxRetries |-> 1], [initialBackoff |-> -5], [maxBackoff |-> 1], [backoffMultiplier |-> 1],
  [backoffMultiplier |-> -3], [jitter |-> -1],
  [backoffStrategy |-> "DecorrelatedJitter"],
  [moreMiddleware |-> <<"logging", None>>],
  [debugSettings |-> [Enabled |-> TRUE]], [debug |-> None],
  [retryBudget |-> [maxRetries |-> 10, perWindow |-> Minute]],
  [cache |-> "InMemoryCache", cacheTTL |-> 0], [cache |-> "InMemoryCache", cacheTTL |-> Minute],
  [cacheProvider |-> "HTTPSemanticsCacheProvider"], [cacheMode |-> "SWR"],
  [cacheCondition |-> None], [cacheKeyFunc |-> None],
  [newMetrics |-> "MetricsCollector"], [metrics |-> "MetricsCollector"],
  [circuitBreaker |-> [FailureThreshold |-> -1, RecoveryTimeout |-> 1, SuccessThreshold |-> 1]],
  [deduplication |-> "tracker"], [dedupKeyFunc |-> None], [dedupCondition |-> None]}

Header(form, n) == [form |-> form, n |-> n]
NoHeader == Header("none", 0)
Answer(status, header) == [error |-> FALSE, status |-> status, retryAfter |-> header, lacks |-> {}]
Lacking(what, status) == [Answer(status, NoHeader) EXCEPT !.lacks = {what}]

\* 43 seconds are 129 ticks, one more than fit.
SomeOutcomes == {
  [error |-> TRUE, status |-> 0, retryAfter |-> NoHeader, lacks |-> {}],
  Answer(200, NoHeader), Answer(429, Header("seconds", 2)), Answer(503, Header("seconds", 20)),
  Answer(503, Header("seconds", 43)), Answer(503, Header("date", 4)), Answer(500, NoHeader),
  Lacking("request", 500), Lacking("body", 200)}
===========================================================================
