------------------------------ MODULE Backoff ------------------------------
(***************************************************************************)
(* How long doWithRetry waits before it retries: the two strategies of     *)
(* internal/backoff/strategy.go, the Retry-After header, and the two ways  *)
(* to decide (retry_policy.go, client.go).  All of it is sequential        *)
(* arithmetic: an operator gives the set of the delays the random numbers  *)
(* may lead to, and the empty set where there is no retry.                 *)
(*                                                                         *)
(* Durations are signed integers of a fixed width, as in Go, but scaled    *)
(* down; so are the hour at which Retry-After is capped and the exponents  *)
(* at which the strategies stop growing.                                   *)
(***************************************************************************)
EXTENDS Integers, FiniteSets, FiniteSetsExt

CONSTANTS
  Half,              \* durations are in -Half..(Half - 1)
  Second,            \* time.Second
  Hour,              \* time.Hour
  MaxExponent,       \* 30: the largest exponent of the exponential strategy
  MaxDecorrelated,   \* 10: the same of the other
  Unit               \* a float f is written as the integer f * Unit

ASSUME BackoffAssumption ==
  /\ {Half, Second, Hour, Unit} \subseteq Nat \ {0}
  /\ Hour < Half
  /\ {MaxExponent, MaxDecorrelated} \subseteq Nat

Wrap(n) == ((n + Half) % (2 * Half)) - Half
Least(m, n) == Min({m, n})

\* A conversion to an integer truncates towards zero.
Quotient(n, d) == IF n >= 0 THEN n \div d ELSE -((-n) \div d)

\* A float too large for an integer converts to either end of the range,
\* depending on the machine; one too small to the lower end.
ToDuration(n) ==
  CASE n >= Half -> {-Half, Half - 1}
    [] n < -Half -> {-Half}
    [] OTHER -> {n}

\* What n times a random float in [0, 1) is converted to, n given in Units.
Fractions(n) ==
  CASE n > 0 -> 0..((n - 1) \div Unit)
    [] n < 0 -> (-((-n - 1) \div Unit))..0
    [] OTHER -> {0}

pow(base, exponent) ==
  LET result[i \in 0..exponent] == IF i = 0 THEN 1 ELSE result[i - 1] * base
  IN  result[exponent]

clampJitter(f) == IF f < 0 THEN 0 ELSE Least(f, Unit)

-----------------------------------------------------------------------------
(* The strategies. p: [initialBackoff, maxBackoff, backoffMultiplier, jitter] *)

\* A slip: the sum of the delay and its jitter is not compared with the maximum.
Jittered_Uncapped(b, p) == {Wrap(b + a) : a \in Fractions(b * clampJitter(p.jitter))}

Jittered(b, p) ==
  {Least(Wrap(b + a), p.maxBackoff) : a \in Fractions(b * clampJitter(p.jitter))}

\* What is below 0 or above the maximum becomes the maximum.
Capped(n, max) == IF n < 0 \/ n > max THEN max ELSE n

ExponentialJitter(attempt, p) ==
  LET e == Least(attempt, MaxExponent)
      grown == Quotient(p.initialBackoff * pow(p.backoffMultiplier, e), pow(Unit, e))
  IN  UNION {Jittered(Capped(b, p.maxBackoff), p) : b \in ToDuration(grown)}

\* Where a sum is not a whole number but below 0, how it is rounded does not matter.
DecorrelatedJitter(attempt, p) ==
  LET base == p.initialBackoff
      e == Least(attempt, MaxDecorrelated)
      upper == Max({base, Capped(base * pow(3, e), p.maxBackoff)})
  IN  IF attempt = 0
        THEN {base}
        ELSE {Capped(base + r, p.maxBackoff) : r \in Fractions((upper - base) * Unit)}

\* An unknown strategy is the exponential one.
Calculate(attempt, p) ==
  IF p.backoffStrategy = "DecorrelatedJitter"
    THEN DecorrelatedJitter(attempt, p)
    ELSE ExponentialJitter(attempt, p)

-----------------------------------------------------------------------------
(* What an attempt ends with: [error, status, retryAfter]. retryAfter is the *)
(* header: [form, n], n seconds or a date n ticks from now; or form "none".  *)

\* The product is compared with the hour, and not the seconds.
parseRetryAfter(h) ==
  CASE h.form = "seconds" /\ h.n > 0 -> Least(Wrap(h.n * Second), Hour)
    [] h.form = "date" /\ h.n \in 1..Hour -> h.n
    [] OTHER -> 0

\* DefaultRetryCondition.
Failed(outcome) == outcome.error \/ outcome.status >= 500

\* Client.doWithRetry without a retry policy.
LegacyDelays(attempt, outcome, c) ==
  IF attempt < c.maxRetries /\ Failed(outcome) THEN Calculate(attempt, c) ELSE {}

\* DefaultRetryPolicy.ShouldRetry. After an error there is no response, and so
\* no look at the method.
Refuses(outcome, method) ==
  ~outcome.error /\ method \notin {"GET", "HEAD", "PUT", "DELETE", "OPTIONS"}

PolicyDelays(attempt, outcome, method, p) ==
  IF \/ attempt >= p.maxRetries
     \/ Refuses(outcome, method)
     \/ ~(Failed(outcome) \/ outcome.status = 429)
    THEN {}
    ELSE LET after == IF outcome.error THEN 0 ELSE parseRetryAfter(outcome.retryAfter)
         IN  IF after = 0 THEN Calculate(attempt, p) ELSE {after}
=============================================================================
