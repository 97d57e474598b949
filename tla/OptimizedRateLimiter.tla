------------------------ MODULE OptimizedRateLimiter ------------------------
(***************************************************************************)
(* The lock-free token bucket of rate_limiter_optimized.go, one action per *)
(* atomic operation.  fastRefill claims elapsed time with a CAS on         *)
(* lastRefill, at most BatchSize tokens' worth at once, and adds the       *)
(* tokens; Allow, AllowN and Reserve call it and take tokens; SetRate and  *)
(* Reset write the same words without looking.                             *)
(*                                                                         *)
(* A CAS loop without a limit is one action, at the instant of its last    *)
(* CAS.  Calls that touch no shared word (AllowN of too much or of         *)
(* nothing, SetRate to nothing) are left out.                              *)
(***************************************************************************)
EXTENDS Integers

CONSTANTS
  Goroutines,
  MaxTokens,   \* rl.maxTokens
  BatchSize,   \* rl.batchSize: at most 10% of MaxTokens, but one
  Rates,       \* the values of rl.refillRate: clock ticks per token
  MaxTime,     \* bound on the clock
  MaxResets    \* bound on the calls of Reset

ASSUME ConfigAssumption ==
  /\ MaxTokens \in Nat \ {0}
  /\ BatchSize \in 1..MaxTokens
  /\ Rates \subseteq Nat \ {0}
  /\ \E r \in Rates : \A q \in Rates : r <= q
  /\ MaxTime \in Nat
  /\ MaxResets \in Nat

\* The least time per token.
Fastest == CHOOSE r \in Rates : \A q \in Rates : r <= q

VARIABLES
  tokens, lastRefill, refillRate, refillThreshold, \* the fields of rl
  now,      \* time.Now().UnixNano()
  pc,       \* pc[g]: the next atomic operation of goroutine g
  op,       \* op[g]: the method g is in
  arg,      \* arg[g]: n of AllowN, newRefillRate of SetRate
  clk,      \* clk[g]: the clock reading of fastRefill or Reset
  from,     \* from[g]: the lastRefill g loaded
  add,      \* add[g]: tokensToAdd
  to,       \* to[g]: newRefillTime
  seen,     \* seen[g]: the tokens g loaded
  tries,    \* tries[g]: attempts of consumeTokenFast that failed
  admitted, \* history: tokens taken
  resets,   \* history: calls of Reset
  rewound   \* history: by how much Reset has moved lastRefill back

fields == <<tokens, lastRefill, refillRate, refillThreshold>>
refill == <<from, add, to>>
take == <<seen, tries>>
locals == <<op, arg, clk, refill, take>>
history == <<admitted, resets, rewound>>
vars == <<fields, now, pc, locals, history>>

Methods == {"none", "Allow", "AllowN", "Reserve", "SetRate", "Reset"}
Labels == {"idle", "loadLast", "loadThreshold", "loadRate", "claim", "add",
           "takeN", "load", "cas", "setThreshold", "readClock", "stamp"}

\* Whatever the interleaving, the bucket is never in debt and never overfull.
TypeOK ==
  /\ tokens \in 0..MaxTokens
  /\ lastRefill \in 0..MaxTime
  /\ {refillRate, refillThreshold} \subseteq Rates
  /\ now \in 0..MaxTime
  /\ pc \in [Goroutines -> Labels]
  /\ op \in [Goroutines -> Methods]
  /\ arg \in [Goroutines -> Nat]
  /\ clk \in [Goroutines -> 0..MaxTime]
  /\ from \in [Goroutines -> 0..MaxTime]
  /\ add \in [Goroutines -> 0..BatchSize]
  /\ to \in [Goroutines -> 0..MaxTime]
  /\ seen \in [Goroutines -> 0..MaxTokens]
  /\ tries \in [Goroutines -> 0..2]
  /\ {admitted, resets, rewound} \subseteq Nat

\* NewOptimizedRateLimiter: a full bucket.
Init ==
  /\ tokens = MaxTokens
  /\ lastRefill = 0
  /\ refillRate \in Rates
  /\ refillThreshold = refillRate
  /\ now = 0
  /\ pc = [g \in Goroutines |-> "idle"]
  /\ op = [g \in Goroutines |-> "none"]
  /\ \E zero \in {[g \in Goroutines |-> 0]} :
       arg = zero /\ clk = zero /\ from = zero /\ add = zero /\ to = zero
         /\ seen = zero /\ tries = zero
  /\ admitted = 0 /\ resets = 0 /\ rewound = 0

-----------------------------------------------------------------------------

At(g, label) == pc[g] = label
Goto(g, label) == pc' = [pc EXCEPT ![g] = label]

Zero(f, g) == [f EXCEPT ![g] = 0]
Least(a, b) == IF a < b THEN a ELSE b

\* A method returns; its locals are dead.
Return(g) ==
  /\ Goto(g, "idle")
  /\ op' = [op EXCEPT ![g] = "none"]
  /\ arg' = Zero(arg, g) /\ clk' = Zero(clk, g)
  /\ from' = Zero(from, g) /\ add' = Zero(add, g) /\ to' = Zero(to, g)
  /\ seen' = Zero(seen, g) /\ tries' = Zero(tries, g)

\* fastRefill returns, and the caller goes on to take its tokens.
EndRefill(g) ==
  /\ Goto(g, IF op[g] = "AllowN" THEN "takeN" ELSE "load")
  /\ clk' = Zero(clk, g)
  /\ from' = Zero(from, g) /\ add' = Zero(add, g) /\ to' = Zero(to, g)
  /\ UNCHANGED <<op, arg, take>>

-----------------------------------------------------------------------------
(* fastRefill *)

\* Allow, AllowN(n) and Reserve begin: fastRefill reads the clock.
Call(g, method, n) ==
  /\ At(g, "idle")
  /\ n = 1 \/ method = "AllowN"
  /\ Goto(g, "loadLast")
  /\ op' = [op EXCEPT ![g] = method]
  /\ arg' = [arg EXCEPT ![g] = n]
  /\ clk' = [clk EXCEPT ![g] = now]
  /\ UNCHANGED <<fields, now, refill, take, history>>

LoadLast(g) ==
  /\ At(g, "loadLast")
  /\ from' = [from EXCEPT ![g] = lastRefill]
  /\ Goto(g, "loadThreshold")
  /\ UNCHANGED <<fields, now, op, arg, clk, add, to, take, history>>

Elapsed(g) == clk[g] - from[g]

LoadThreshold(g) ==
  /\ At(g, "loadThreshold")
  /\ IF Elapsed(g) < refillThreshold
     THEN EndRefill(g)
     ELSE Goto(g, "loadRate") /\ UNCHANGED locals
  /\ UNCHANGED <<fields, now, history>>

\* How many of the earned tokens this refill adds, and how many it pays for.
Batch(earned) ==
  [tokens |-> Least(earned, BatchSize), time |-> Least(earned, BatchSize)]

LoadRate(g) ==
  LET earned == Elapsed(g) \div refillRate
      batch == Batch(earned)
  IN /\ At(g, "loadRate")
     /\ IF earned = 0
        THEN EndRefill(g)
        ELSE /\ Goto(g, "claim")
             /\ add' = [add EXCEPT ![g] = batch.tokens]
             /\ to' = [to EXCEPT ![g] = from[g] + batch.time * refillRate]
             /\ UNCHANGED <<op, arg, clk, from, take>>
     /\ UNCHANGED <<fields, now, history>>

\* A slip: lastRefill is stored, not compared and swapped.
Claim_Blindly(g) ==
  /\ At(g, "claim")
  /\ lastRefill' = to[g]
  /\ Goto(g, "add")
  /\ UNCHANGED <<tokens, refillRate, refillThreshold, locals, now, history>>

\* Of the goroutines that loaded the same lastRefill, one claims the time.
Claim(g) ==
  /\ At(g, "claim")
  /\ IF lastRefill = from[g]
     THEN lastRefill' = to[g] /\ Goto(g, "add") /\ UNCHANGED locals
     ELSE EndRefill(g) /\ UNCHANGED lastRefill
  /\ UNCHANGED <<tokens, refillRate, refillThreshold, now, history>>

Refilled_Uncapped(n) == tokens + n
Refilled(n) == Least(tokens + n, MaxTokens)

Add(g) ==
  /\ At(g, "add")
  /\ tokens' = Refilled(add[g])
  /\ EndRefill(g)
  /\ UNCHANGED <<lastRefill, refillRate, refillThreshold, now, history>>

-----------------------------------------------------------------------------
(* Taking tokens *)

Take(n) ==
  /\ tokens' = tokens - n
  /\ admitted' = admitted + n
  /\ UNCHANGED <<lastRefill, refillRate, refillThreshold, resets, rewound>>

\* AllowN.
TakeN(g) ==
  /\ At(g, "takeN")
  /\ IF tokens < arg[g] THEN UNCHANGED <<fields, history>> ELSE Take(arg[g])
  /\ Return(g)
  /\ UNCHANGED now

\* consumeTokenFast and Reserve: an empty bucket refuses. (Reserve tells when
\* the next token is due, but records nothing.)
Load(g) ==
  /\ At(g, "load")
  /\ IF tokens = 0
     THEN Return(g)
     ELSE /\ Goto(g, "cas")
          /\ seen' = [seen EXCEPT ![g] = tokens]
          /\ UNCHANGED <<op, arg, clk, refill, tries>>
  /\ UNCHANGED <<fields, now, history>>

\* Allow tries three times, Reserve once.
MayRetry(g) == op[g] = "Allow" /\ tries[g] < 2

Retry(g) ==
  /\ Goto(g, "load")
  /\ tries' = [tries EXCEPT ![g] = @ + 1]
  /\ seen' = Zero(seen, g)
  /\ UNCHANGED <<op, arg, clk, refill>>

Cas(g) ==
  /\ At(g, "cas")
  /\ \/ tokens = seen[g] /\ Take(1) /\ Return(g)
     \/ /\ tokens # seen[g]
        /\ IF MayRetry(g) THEN Retry(g) ELSE Return(g)
        /\ UNCHANGED <<fields, history>>
  /\ UNCHANGED now

-----------------------------------------------------------------------------
(* SetRate and Reset *)

SetRate(g, rate) ==
  /\ At(g, "idle")
  /\ refillRate' = rate
  /\ op' = [op EXCEPT ![g] = "SetRate"]
  /\ arg' = [arg EXCEPT ![g] = rate]
  /\ Goto(g, "setThreshold")
  /\ UNCHANGED <<tokens, lastRefill, refillThreshold, now, clk, refill, take, history>>

SetThreshold(g) ==
  /\ At(g, "setThreshold")
  /\ refillThreshold' = arg[g]
  /\ Return(g)
  /\ UNCHANGED <<tokens, lastRefill, refillRate, now, history>>

Reset(g) ==
  /\ At(g, "idle")
  /\ resets < MaxResets
  /\ tokens' = MaxTokens
  /\ resets' = resets + 1
  /\ op' = [op EXCEPT ![g] = "Reset"]
  /\ Goto(g, "readClock")
  /\ UNCHANGED <<lastRefill, refillRate, refillThreshold, now, arg, clk, refill, take,
                 admitted, rewound>>

ReadClock(g) ==
  /\ At(g, "readClock")
  /\ clk' = [clk EXCEPT ![g] = now]
  /\ Goto(g, "stamp")
  /\ UNCHANGED <<fields, now, op, arg, refill, take, history>>

\* lastRefill may have passed the reading: then the time between is earned anew.
Stamp(g) ==
  /\ At(g, "stamp")
  /\ lastRefill' = clk[g]
  /\ rewound' = rewound + (IF clk[g] < lastRefill THEN lastRefill - clk[g] ELSE 0)
  /\ Return(g)
  /\ UNCHANGED <<tokens, refillRate, refillThreshold, now, admitted, resets>>

\* The clock moves on.
Tick ==
  /\ now < MaxTime
  /\ now' = now + 1
  /\ UNCHANGED <<fields, pc, locals, admitted, resets, rewound>>

-----------------------------------------------------------------------------

Step(g) ==
  \/ Call(g, "Allow", 1) \/ Call(g, "Reserve", 1)
  \/ \E n \in 1..MaxTokens : Call(g, "AllowN", n)
  \/ LoadLast(g) \/ LoadThreshold(g) \/ LoadRate(g) \/ Claim(g) \/ Add(g)
  \/ TakeN(g) \/ Load(g) \/ Cas(g)
  \/ SetThreshold(g) \/ Reset(g) \/ ReadClock(g) \/ Stamp(g)
  \/ \E rate \in Rates : SetRate(g, rate)

Next == Tick \/ \E g \in Goroutines : Step(g)

Spec == Init /\ [][Next]_vars

-----------------------------------------------------------------------------

\* The rate is respected, with Allow, AllowN, Reserve, SetRate and Reset racing
\* in any order: beyond the bucketful it started with and one for every Reset,
\* the limiter admits no more than the fastest rate it ever had earns in the
\* time that has passed, time that Reset took back counted again.
RateRespected ==
  Fastest * (admitted - MaxTokens * (1 + resets)) <= now + rewound
=============================================================================
