---------------------------- MODULE RateLimiter ----------------------------
(***************************************************************************)
(* The token bucket of rate_limiter.go, one action per atomic operation.   *)
(* Goroutines call Allow concurrently: refillTokens reads the clock, the   *)
(* tokens and lastRefill one after the other, claims the elapsed intervals *)
(* with a CAS on lastRefill and then stores the new number of tokens;      *)
(* consumeToken takes one token with a CAS.                                *)
(***************************************************************************)
EXTENDS Integers

CONSTANTS
  Goroutines,  \* callers of Allow
  MaxTokens,   \* rl.maxTokens
  RefillRates, \* the values of rl.refillRate, in clock ticks
  MaxTime      \* bound on the clock

ASSUME ConfigAssumption ==
  /\ MaxTokens \in Nat
  /\ RefillRates \subseteq Int
  /\ MaxTime \in Nat

VARIABLES
  refillRate,  \* rl.refillRate: the time that earns one token; never written
  tokens,      \* rl.tokens
  lastRefill,  \* rl.lastRefill
  now,         \* time.Now().UnixNano()
  pc,          \* pc[g]: the next atomic operation of goroutine g
  clk,         \* clk[g]: refillTokens' now
  seen,        \* seen[g]: the currentTokens g loaded
  from,        \* from[g]: the lastRefill g loaded
  admitted,    \* history: calls of Allow that returned true
  overlapped   \* history: whether two calls of Allow have overlapped

bucket == <<tokens, lastRefill>>
locals == <<clk, seen, from>>
vars == <<refillRate, bucket, now, pc, locals, admitted, overlapped>>

Labels == {"idle", "loadTokens", "loadLast", "claim", "store", "take", "takeCas"}

TypeOK ==
  /\ refillRate \in RefillRates
  /\ tokens \in Int
  /\ tokens <= MaxTokens
  /\ lastRefill \in Int
  /\ now \in 0..MaxTime
  /\ pc \in [Goroutines -> Labels]
  /\ clk \in [Goroutines -> 0..MaxTime]
  /\ seen \in [Goroutines -> Int]
  /\ from \in [Goroutines -> Int]
  /\ admitted \in Nat
  /\ overlapped \in BOOLEAN

\* NewRateLimiter: a full bucket.
Init ==
  /\ refillRate \in RefillRates
  /\ tokens = MaxTokens
  /\ lastRefill = 0
  /\ now = 0
  /\ pc = [g \in Goroutines |-> "idle"]
  /\ clk = [g \in Goroutines |-> 0]
  /\ seen = [g \in Goroutines |-> 0]
  /\ from = [g \in Goroutines |-> 0]
  /\ admitted = 0
  /\ overlapped = FALSE

-----------------------------------------------------------------------------

At(g, label) == pc[g] = label
Goto(g, label) == pc' = [pc EXCEPT ![g] = label]

\* Go's integer division truncates towards zero.
Quotient(a, b) == IF a >= 0 THEN a \div b ELSE -((-a) \div b)

\* tokensToAdd: negative when another goroutine with a later clock reading
\* has already moved lastRefill on.
ToAdd(elapsed) == IF refillRate > 0 THEN Quotient(elapsed, refillRate) ELSE 0

\* newTokens: the bucket never holds more than maxTokens.
Refilled_Uncapped(n, add) == n + add
Refilled(n, add) == IF n + add > MaxTokens THEN MaxTokens ELSE n + add

-----------------------------------------------------------------------------
(* refillTokens *)

ReadClock(g) ==
  /\ At(g, "idle")
  /\ clk' = [clk EXCEPT ![g] = now]
  /\ Goto(g, "loadTokens")
  /\ overlapped' = (overlapped \/ \E h \in Goroutines : ~At(h, "idle"))
  /\ UNCHANGED <<refillRate, bucket, now, seen, from, admitted>>

LoadTokens(g) ==
  /\ At(g, "loadTokens")
  /\ seen' = [seen EXCEPT ![g] = tokens]
  /\ Goto(g, "loadLast")
  /\ UNCHANGED <<refillRate, overlapped, bucket, now, clk, from, admitted>>

\* The loop ends here when no whole interval has passed.
LoadLast(g) ==
  /\ At(g, "loadLast")
  /\ IF ToAdd(clk[g] - lastRefill) = 0
       THEN /\ Goto(g, "take")
            /\ clk' = [clk EXCEPT ![g] = 0]
            /\ seen' = [seen EXCEPT ![g] = 0]
            /\ UNCHANGED from
       ELSE /\ Goto(g, "claim")
            /\ from' = [from EXCEPT ![g] = lastRefill]
            /\ UNCHANGED <<clk, seen>>
  /\ UNCHANGED <<refillRate, overlapped, bucket, now, admitted>>

\* CompareAndSwap of lastRefill: of the goroutines that saw the same value,
\* one claims the intervals since then.
Claim(g) ==
  LET add == ToAdd(clk[g] - from[g])
  IN /\ At(g, "claim")
     /\ \/ /\ lastRefill = from[g]
           /\ lastRefill' = from[g] + add * refillRate
           /\ Goto(g, "store")
           /\ UNCHANGED <<seen, from>>
        \/ /\ lastRefill # from[g]
           /\ Goto(g, "loadTokens")
           /\ seen' = [seen EXCEPT ![g] = 0]
           /\ from' = [from EXCEPT ![g] = 0]
           /\ UNCHANGED lastRefill
     /\ UNCHANGED <<refillRate, overlapped, tokens, now, clk, admitted>>

\* The store writes what was computed from the tokens loaded before the CAS:
\* tokens taken in between come back.
StoreTokens(g) ==
  /\ At(g, "store")
  /\ tokens' = Refilled(seen[g], ToAdd(clk[g] - from[g]))
  /\ clk' = [clk EXCEPT ![g] = 0]
  /\ seen' = [seen EXCEPT ![g] = 0]
  /\ from' = [from EXCEPT ![g] = 0]
  /\ Goto(g, "take")
  /\ UNCHANGED <<refillRate, overlapped, lastRefill, now, admitted>>

(* consumeToken *)

\* A slip: an empty bucket still gives.
Empty_OffByOne(n) == n < 0
Empty(n) == n <= 0

Take(g) ==
  /\ At(g, "take")
  /\ \/ Empty(tokens) /\ Goto(g, "idle") /\ UNCHANGED seen
     \/ ~Empty(tokens) /\ Goto(g, "takeCas") /\ seen' = [seen EXCEPT ![g] = tokens]
  /\ UNCHANGED <<refillRate, overlapped, bucket, now, clk, from, admitted>>

\* A slip: a store in the place of the CAS.
TakeCas_BlindStore(g) ==
  /\ At(g, "takeCas")
  /\ tokens' = seen[g] - 1
  /\ admitted' = admitted + 1
  /\ Goto(g, "idle")
  /\ seen' = [seen EXCEPT ![g] = 0]
  /\ UNCHANGED <<refillRate, overlapped, lastRefill, now, clk, from>>

TakeCas(g) ==
  /\ At(g, "takeCas")
  /\ \/ /\ tokens = seen[g]
        /\ tokens' = seen[g] - 1
        /\ admitted' = admitted + 1
        /\ Goto(g, "idle")
     \/ /\ tokens # seen[g]
        /\ Goto(g, "take")
        /\ UNCHANGED <<tokens, admitted>>
  /\ seen' = [seen EXCEPT ![g] = 0]
  /\ UNCHANGED <<refillRate, overlapped, lastRefill, now, clk, from>>

-----------------------------------------------------------------------------

Tick ==
  /\ now < MaxTime
  /\ now' = now + 1
  /\ UNCHANGED <<refillRate, overlapped, bucket, pc, locals, admitted>>

refillTokens(g) ==
  ReadClock(g) \/ LoadTokens(g) \/ LoadLast(g) \/ Claim(g) \/ StoreTokens(g)

consumeToken(g) == Take(g) \/ TakeCas(g)

Allow(g) == refillTokens(g) \/ consumeToken(g)

Next == Tick \/ \E g \in Goroutines : Allow(g)

Spec == Init /\ [][Next]_vars

-----------------------------------------------------------------------------

\* No goroutine credits time that has not passed yet: whichever goroutine wins
\* the CAS, with whatever clock reading, lastRefill is never in the future,
\* so the next refill is never put off by more than one interval.
NeverRefillsAhead == lastRefill <= now

\* Without refills (refillRate <= 0 is accepted) the bucket is exact under any
\* interleaving: every admission took one of the initial tokens.
ExactWithoutRefill == refillRate <= 0 => admitted + tokens = MaxTokens

\* "RateLimiter is a token bucket implementation": a token bucket admits no
\* more than its capacity and the tokens earned since it was made. Two callers
\* get more: a token taken between refillTokens' load of the tokens and its
\* store is given back.
RateRespected ==
  refillRate > 0 => admitted <= MaxTokens + now \div refillRate

\* As long as no two calls of Allow have overlapped, whichever goroutines they
\* come from, the rate is respected and the bucket never in debt. (With two
\* calls, one whose clock reading is older than lastRefill adds a negative
\* number of tokens.)
SequentialBucket == ~overlapped => RateRespected /\ tokens >= 0
=============================================================================
