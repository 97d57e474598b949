------------------------------ MODULE Retrying ------------------------------
(***************************************************************************)
(* A client from its options to its requests: New applies the options in   *)
(* their order and validates the result, and each request goes through     *)
(* doWithRetry (client.go) with the limiters, the retry decision and the   *)
(* delays this has led to.  All of it runs in one goroutine; what the      *)
(* breaker, the budget and a limiter answer is left open (their modules    *)
(* say what they may answer).                                              *)
(***************************************************************************)
EXTENDS Configuration

CONSTANTS
  Options,     \* the options New may be given
  MaxOptions,  \* bound on their number
  Requests,    \* [method, host]
  Outcomes     \* what an attempt may end with: see Backoff

Durations == -Half..(Half - 1)
Limiter == [maxTokens : Int, refillRate : Int]
RetryPolicy == [maxRetries : Int, initialBackoff : Durations, maxBackoff : Durations,
                backoffMultiplier : Int, jitter : Int, backoffStrategy : STRING]

\* What a response lacks, by fault of the network, a transport or a middleware: the
\* request it answers, or a body that can be read.
Outcome == [error : BOOLEAN, status : Int, retryAfter : [form : STRING, n : Int],
            lacks : SUBSET {"request", "body"}]

\* The types of what options set, where it matters.
Types == [
  rateLimiter |-> Limiter, limiter |-> Limiter \union {None},
  maxRetries |-> Int, initialBackoff |-> Durations, maxBackoff |-> Durations,
  backoffMultiplier |-> Int, jitter |-> Int, retryPolicy |-> RetryPolicy \union {None}]

\* An option has the arguments of one of the operators in Configuration, or else
\* it only sets fields that none of these sets.
IsOption(o) ==
  /\ \A name \in DOMAIN o \intersect DOMAIN Types : o[name] \in Types[name]
  /\ \/ DOMAIN o = {"limiterFor", "limiter"}
     \/ \E name \in {"limiterKeyFunc", "jitter", "timeout", "httpClient", "newMetrics",
                     "moreMiddleware"} :
          DOMAIN o = {name}
     \/ "debugSettings" \in DOMAIN o /\ DOMAIN o \subseteq {"debugSettings", "logger"}
     \/ DOMAIN o \subseteq DOMAIN Defaults \ {"limiterRegistry", "limiterKeyFunc", "jitter",
                                            "timeout", "httpClient", "middleware"}

\* The values options have under a name.
Values(name) == {o[name] : o \in {x \in Options : name \in DOMAIN x}}

Registry ==
  [limiters : UNION {[S -> Limiter \union {None}] : S \in SUBSET Values("limiterFor")},
   keyFunc : Values("limiterKeyFunc") \union {None}, fallback : Limiter \union {NilPointer}]

ASSUME RetryingAssumption ==
  /\ MaxOptions \in Nat
  /\ \A o \in Options : IsOption(o)
  /\ Outcomes \subseteq Outcome
  /\ None \notin Limiter \union {NilPointer} \union Requests \union Registry \union Outcomes
  /\ NilPointer \notin Limiter

VARIABLES
  elsewhere, \* whether another client of the process has registered its collectors
  client,    \* the client
  given,     \* history: the options applied so far
  invalid,   \* client.validationError: the fields found wrong
  phase,     \* "options", "ready", or where doWithRetry is: see Phases
  request,   \* its request
  attempt,   \* its attempt
  asked,     \* history: the limiter it asked
  outcome,   \* what the last attempt ended with
  delay      \* the delay it sleeps

settings == <<elsewhere, client, given, invalid>>
inside == <<request, attempt, asked, outcome, delay>>
vars == <<settings, phase, inside>>

Phases == {"options", "ready", "limit", "breaker", "upstream", "decide", "sleep", "panicked"}

Init ==
  /\ elsewhere \in BOOLEAN
  /\ client = Defaults
  /\ given = <<>>
  /\ invalid = {}
  /\ phase = "options"
  /\ request = None
  /\ attempt = 0
  /\ asked = None
  /\ outcome = None
  /\ delay = 0

-----------------------------------------------------------------------------
(* New *)

\* What New was given under a name: the positions, and the last value.
Given(name) == {i \in DOMAIN given : name \in DOMAIN given[i]}
Last(name) == IF Given(name) = {} THEN None ELSE given[Max(Given(name))][name]

\* Whether the default registerer holds the collectors.
Registered == elsewhere \/ Given("newMetrics") # {}

Option(o) ==
  /\ phase = "options"
  /\ Len(given) < MaxOptions
  /\ given' = Append(given, o)
  /\ IF PanicsOn(client, o, Registered)
       THEN phase' = "panicked" /\ UNCHANGED client
       ELSE client' = Applied(client, o) /\ UNCHANGED phase
  /\ UNCHANGED <<elsewhere, invalid, inside>>

New ==
  /\ phase = "options"
  /\ invalid' = ValidateConfiguration(client)
  /\ phase' = "ready"
  /\ UNCHANGED <<elsewhere, client, given, inside>>

-----------------------------------------------------------------------------
(* Do. An invalid client is used like any other. *)

Return ==
  /\ phase' = "ready"
  /\ request' = None
  /\ attempt' = 0
  /\ asked' = None
  /\ outcome' = None
  /\ delay' = 0

\* Deduplication and the cache each ask their condition and, if it says so, for the
\* request's key. To call a function that is nil panics.
Panics(used, condition, keyFunc) == used /\ None \in {condition, keyFunc}
Passes(used, condition) == used => condition # None

Deduplicates == client.deduplication # None
Caches == client.cache # None \/ client.cacheProvider # None

\* A request answered by another's entry or by a cache goes no further, and changes
\* nothing here.
Do(r) ==
  /\ phase = "ready"
  /\ request' = r
  /\ \/ /\ \/ Panics(Deduplicates, client.dedupCondition, client.dedupKeyFunc)
           \/ Panics(Caches, client.cacheCondition, client.cacheKeyFunc)
        /\ phase' = "panicked"
     \/ /\ Passes(Deduplicates, client.dedupCondition)
        /\ Passes(Caches, client.cacheCondition)
        /\ phase' = "limit"
  /\ UNCHANGED <<settings, attempt, asked, outcome, delay>>

\* The limiter asked may refuse; no limiter does not.
LimiterAllow ==
  /\ phase = "limit"
  /\ LET limiter == Asked(client, request) IN
       \/ /\ phase' = IF limiter = NilPointer THEN "panicked" ELSE "breaker"
          /\ asked' = limiter
          /\ UNCHANGED <<request, attempt, outcome, delay>>
       \/ limiter \notin {None, NilPointer} /\ Return
  /\ UNCHANGED settings

BreakerAllow ==
  /\ phase = "breaker"
  /\ \/ phase' = "upstream" /\ UNCHANGED inside
     \/ Return
  /\ UNCHANGED settings

\* executeMiddleware and the HTTP client. A middleware may answer without calling the
\* next, so that what is nil need not be called, unless it is the first.
SomeNil == client.httpClient = None \/ \E i \in DOMAIN client.middleware : client.middleware[i] = None
FirstNil == None = IF client.middleware = <<>> THEN client.httpClient ELSE Head(client.middleware)

UpstreamReturns ==
  /\ phase = "upstream"
  /\ \/ SomeNil /\ phase' = "panicked" /\ UNCHANGED outcome
     \/ ~FirstNil /\ phase' = "decide" /\ outcome' \in Outcomes
  /\ UNCHANGED <<settings, request, attempt, asked, delay>>

\* Whose numbers govern the retries.
Retries == IF client.retryPolicy = None THEN client ELSE client.retryPolicy

\* The delays before a retry, and none where there is no retry.
Delays ==
  IF client.retryPolicy = None
    THEN LegacyDelays(attempt, outcome, client)
    ELSE PolicyDelays(attempt, outcome, request.method, client.retryPolicy)

\* While attempts are left the retry condition is called, or else the policy looks
\* for the method of the request the response answers.
DecisionPanics ==
  /\ attempt < Retries.maxRetries
  /\ IF client.retryPolicy = None
       THEN client.retryCondition = None
       ELSE ~outcome.error /\ "request" \in outcome.lacks

\* Without a provider, Do stores the response it returns in the cache. Of a body that
\* cannot be read createCacheEntry makes no entry, and InMemoryCache.Set stamps nil.
StoringPanics ==
  /\ ~DecisionPanics /\ Delays = {}
  /\ client.cache # None /\ client.cacheProvider = None /\ client.cacheMode = "TTLOnly"
  /\ client.cacheKeyFunc # None   \* or else the condition has kept the request out
  /\ ~outcome.error /\ outcome.status < 400 /\ "body" \in outcome.lacks

Decide ==
  /\ phase = "decide"
  /\ \/ /\ DecisionPanics \/ StoringPanics
        /\ phase' = "panicked"
        /\ UNCHANGED inside
     \/ /\ ~DecisionPanics
        /\ delay' \in Delays
        /\ phase' = "sleep"
        /\ UNCHANGED <<request, attempt, asked, outcome>>
     \/ /\ ~DecisionPanics
        /\ Delays = {} \/ client.retryBudget # None
        /\ Return
  /\ UNCHANGED settings

\* After the sleep, which a delay below 0 cuts short, doWithRetry calls itself.
Retry ==
  /\ phase = "sleep"
  /\ attempt' = attempt + 1
  /\ delay' = 0
  /\ asked' = None
  /\ outcome' = None
  /\ phase' = "limit"
  /\ UNCHANGED <<settings, request>>

doWithRetry == LimiterAllow \/ BreakerAllow \/ UpstreamReturns \/ Decide \/ Retry

Next ==
  \/ \E o \in Options : Option(o)
  \/ New
  \/ \E r \in Requests : Do(r)
  \/ doWithRetry

Spec == Init /\ [][Next]_vars
-----------------------------------------------------------------------------

\* The fields that one option derives from the fields of another agree, in
\* whatever order the options are given: the registry uses the client's key
\* function, the HTTP client has the client's timeout, a jitter is a share. And
\* doWithRetry makes no attempt after the last retry.
TypeOK ==
  /\ elsewhere \in BOOLEAN
  /\ phase \in Phases
  /\ given \in Seq(Options)
  /\ request \in Requests \union {None}
  /\ outcome \in Outcomes \union {None}
  /\ delay \in Durations
  /\ client.jitter \in 0..Unit
  /\ client.limiterRegistry # None => client.limiterRegistry.keyFunc = client.limiterKeyFunc
  /\ client.httpClient # None /\ client.timeout # 0 => client.httpClient.Timeout = client.timeout
  /\ attempt \in 0..Max({0, client.maxRetries,
                        IF client.retryPolicy = None THEN 0 ELSE client.retryPolicy.maxRetries})

\* The limiter that governs a request according to the options: the one given
\* last for the request's key, or else the one of WithRateLimiter.
Governing(r) ==
  LET keyFunc == Last("limiterKeyFunc")
      own == IF keyFunc = None THEN {}
             ELSE {i \in Given("limiterFor") : given[i].limiterFor = keyFunc[r]}
  IN  IF own = {} THEN Last("rateLimiter") ELSE given[Max(own)].limiter

\* A request is asked of the limiter the options say, as long as the fallback
\* and the key function are given before the limiters for keys. (A later key
\* function drops these, and a later fallback is not used; see options.go:79 and
\* options.go:69.)
LimiterInForce ==
  /\ \A i \in Given("limiterFor"), j \in Given("rateLimiter") \union Given("limiterKeyFunc") : j < i
  /\ phase \in {"breaker", "upstream", "decide", "sleep"}
  => asked = Governing(request)

\* "Fallback limiter": in a client that passes the validation, a request without
\* a limiter of its own is asked of the one given with WithRateLimiter.
FallbackGoverns ==
  /\ invalid = {}
  /\ Given("rateLimiter") # {}
  /\ phase = "panicked" /\ request # None
  => asked # NilPointer

\* WithMetrics finds the collectors registered: by another client, or by itself.
MetricsTwice ==
  \E i \in Given("newMetrics") : elsewhere \/ \E j \in Given("newMetrics") : j < i

\* The first limiter for a key was given before any fallback.
FallbackTooLate == \E i \in Given("limiterFor") : \A j \in Given("rateLimiter") : i < j

Response == outcome # None /\ ~outcome.error

\* New panics only on a nil HTTP client and where WithMetrics registers collectors a
\* second time. A request of a client that passes the validation panics in five cases
\* the validation does not look for: a cache without its condition or key function, no
\* fallback for its key, no retry condition, a policy shown a response without its
\* request, and a cache given, without a provider, a body that cannot be read. (This
\* is of what the package itself calls: that a request has a URL, a middleware returns
\* a response or an error, and that limiters, policies, caches and collectors are those
\* the package makes is left to the caller.)
PanicsExplained ==
  phase = "panicked" =>
    IF request = None
      THEN MetricsTwice \/ (Given("httpClient") # {} /\ Last("httpClient") = None)
      ELSE \/ invalid # {}
           \/ Caches /\ None \in {client.cacheCondition, client.cacheKeyFunc}
           \/ asked = NilPointer /\ FallbackTooLate
           \/ client.retryPolicy = None /\ client.retryCondition = None
           \/ client.retryPolicy # None /\ Response /\ "request" \in outcome.lacks
           \/ /\ client.cache # None /\ client.cacheProvider = None /\ client.cacheMode = "TTLOnly"
              /\ Response /\ outcome.status < 400 /\ "body" \in outcome.lacks

\* What there must be for a retry. A policy is asked about the method only if
\* there is a response: after an error it repeats a POST too.
Justified ==
  /\ attempt < Retries.maxRetries
  /\ outcome.error \/ outcome.status >= 500 \/ (outcome.status = 429 /\ client.retryPolicy # None)
  /\ client.retryPolicy # None /\ request.method = "POST" => outcome.error

\* A Retry-After is respected, up to an hour; in seconds, not if it overflows when
\* it is converted. Other delays lie between the two backoffs, or below if they are
\* made to shrink, given that the backoffs are in order and two do not overflow.
InBounds ==
  LET after == outcome.retryAfter
      hinted == client.retryPolicy # None /\ ~outcome.error
      p == Retries
      shortest == IF p.backoffMultiplier < Unit THEN 0 ELSE p.initialBackoff
  IN  CASE hinted /\ after.form = "seconds" /\ after.n > 0 ->
             after.n * Second < Half => delay = Least(after.n * Second, Hour)
        [] hinted /\ after.form = "date" /\ after.n \in 1..Hour -> delay = after.n
        [] OTHER ->
             p.initialBackoff \in 1..p.maxBackoff /\ 2 * p.maxBackoff < Half =>
               delay \in shortest..p.maxBackoff

\* Every retry has a reason, and comes after a delay within its bounds.
RetriesInBounds == phase = "sleep" => Justified /\ InBounds
=============================================================================
