------------------------- MODULE RateLimiterProofs -------------------------
(***************************************************************************)
(* What the token bucket guarantees under every interleaving of any number *)
(* of goroutines, for every capacity and refill rate.                      *)
(***************************************************************************)
EXTENDS RateLimiter, TLAPS

\* A goroutine's clock reading is not ahead of the clock, and neither is
\* lastRefill, which only ever moves to a reading or below.
NothingAhead == lastRefill <= now /\ \A g \in Goroutines : clk[g] <= now

\* Without refills nobody gets past LoadLast to the refill, and the tokens
\* only go to admitted callers.
Unrefilled ==
  refillRate <= 0 =>
    /\ admitted + tokens = MaxTokens
    /\ \A g \in Goroutines : pc[g] \notin {"claim", "store"}

IInv == TypeOK /\ NothingAhead /\ Unrefilled

\* Whole intervals never add up to more than the time they were taken from.
LEMMA DivisionBounds ==
  ASSUME NEW a \in Nat, NEW b \in Nat \ {0}
  PROVE  a \div b \in Nat /\ (a \div b) * b \in Nat /\ (a \div b) * b <= a
<1> DEFINE q == a \div b
<1>1. q \in Nat /\ a = b * q + (a % b) /\ a % b \in 0..(b - 1)
  OBVIOUS
<1>2. b * q = q * b
  BY <1>1
<1>3. b * q \in Nat
  <2> HIDE DEF q
  <2>1. \A m, n \in Nat : m * n \in Nat
    OBVIOUS
  <2> QED BY <1>1, <2>1
<1> QED BY <1>1, <1>2, <1>3

LEMMA ToAddBounds ==
  ASSUME refillRate \in Int, NEW elapsed \in Int
  PROVE  /\ ToAdd(elapsed) \in Int
         /\ ToAdd(elapsed) * refillRate \in Int
         /\ refillRate <= 0 => ToAdd(elapsed) = 0
         /\ ToAdd(elapsed) * refillRate <= elapsed \/ ToAdd(elapsed) * refillRate <= 0
<1>1. CASE refillRate <= 0
  <2>1. ToAdd(elapsed) = 0
    BY <1>1 DEF ToAdd
  <2>2. 0 * refillRate = 0
    OBVIOUS
  <2> QED BY <2>1, <2>2
<1>2. CASE refillRate > 0 /\ elapsed >= 0
  <2>1. elapsed \in Nat /\ refillRate \in Nat \ {0}
    BY <1>2
  <2>2. ToAdd(elapsed) = elapsed \div refillRate
    BY <1>2 DEF ToAdd, Quotient
  <2> QED BY <1>2, <2>1, <2>2, DivisionBounds
<1>3. CASE refillRate > 0 /\ elapsed < 0
  <2>1. -elapsed \in Nat /\ refillRate \in Nat \ {0}
    BY <1>3
  <2> DEFINE q == (-elapsed) \div refillRate
  <2>2. q \in Nat /\ q * refillRate \in Nat
    BY <2>1, DivisionBounds
  <2>3. ToAdd(elapsed) = -q
    BY <1>3 DEF ToAdd, Quotient
  <2> HIDE DEF q
  <2>4. (-q) * refillRate = -(q * refillRate)
    BY <2>2
  <2> QED BY <1>3, <2>2, <2>3, <2>4
<1> QED BY <1>1, <1>2, <1>3

LEMMA InitIInv ==
  ASSUME Init
  PROVE  IInv
<1>1. 0 \in 0..MaxTime /\ refillRate \in RefillRates
  BY ConfigAssumption DEF Init
<1>2. TypeOK
  <2>1. 0 \in Int /\ 0 \in Nat /\ MaxTokens \in Int /\ MaxTokens <= MaxTokens
    BY ConfigAssumption
  <2> QED BY <1>1, <2>1, Zenon DEF Init, TypeOK, Labels
<1>3. NothingAhead /\ Unrefilled
  BY ConfigAssumption DEF Init, NothingAhead, Unrefilled
<1> QED BY <1>2, <1>3 DEF IInv

LEMMA NextTypes ==
  ASSUME IInv, [Next]_vars
  PROVE  TypeOK'
<1> USE ConfigAssumption DEF IInv, TypeOK, Labels, bucket, locals
<1>1. CASE UNCHANGED vars
  BY <1>1 DEF vars
<1>2. CASE Tick
  BY <1>2 DEF Tick
<1>3. ASSUME NEW g \in Goroutines, Allow(g)
      PROVE  TypeOK'
  <2> USE DEF Goto
  <2>0. refillRate \in Int /\ clk[g] \in 0..MaxTime
    OBVIOUS
  <2>1. CASE ReadClock(g)
    BY <2>1 DEF ReadClock
  <2>2. CASE LoadTokens(g)
    BY <2>2 DEF LoadTokens
  <2>3. CASE LoadLast(g)
    BY <2>3 DEF LoadLast
  <2>4. CASE Claim(g)
    <3>1. ToAdd(clk[g] - from[g]) * refillRate \in Int
      BY <2>0, ToAddBounds
    <3>2. lastRefill' \in Int
      BY <2>4, <3>1 DEF Claim
    <3> QED BY <2>4, <3>2 DEF Claim
  <2>5. CASE StoreTokens(g)
    <3>1. ToAdd(clk[g] - from[g]) \in Int
      BY <2>0, ToAddBounds
    <3>2. tokens' \in Int /\ tokens' <= MaxTokens
      BY <2>5, <3>1 DEF StoreTokens, Refilled
    <3> QED BY <2>5, <3>2 DEF StoreTokens
  <2>6. CASE Take(g)
    BY <2>6 DEF Take
  <2>7. CASE TakeCas(g)
    BY <2>7 DEF TakeCas
  <2> QED BY <1>3, <2>1, <2>2, <2>3, <2>4, <2>5, <2>6, <2>7
          DEF Allow, refillTokens, consumeToken
<1> QED BY <1>1, <1>2, <1>3 DEF Next

\* Whoever wins the CAS moves lastRefill by whole intervals towards its own
\* reading of the clock, and not past it.
LEMMA NextNothingAhead ==
  ASSUME IInv, [Next]_vars
  PROVE  NothingAhead'
<1> USE ConfigAssumption DEF IInv, TypeOK, NothingAhead, bucket, locals
<1>1. CASE UNCHANGED vars
  BY <1>1 DEF vars
<1>2. CASE Tick
  BY <1>2 DEF Tick
<1>3. ASSUME NEW g \in Goroutines, Allow(g)
      PROVE  NothingAhead'
  <2>1. CASE ReadClock(g)
    BY <2>1 DEF ReadClock
  <2>2. CASE LoadTokens(g)
    BY <2>2 DEF LoadTokens
  <2>3. CASE LoadLast(g)
    BY <2>3 DEF LoadLast
  <2>4. CASE Claim(g)
    <3> DEFINE moved == ToAdd(clk[g] - from[g]) * refillRate
    <3>1. /\ moved \in Int
          /\ moved <= clk[g] - from[g] \/ moved <= 0
      BY ToAddBounds
    <3>2. \/ lastRefill' = lastRefill
          \/ lastRefill' = lastRefill + moved /\ from[g] = lastRefill
      BY <2>4 DEF Claim
    <3>3. UNCHANGED <<now, clk>>
      BY <2>4 DEF Claim
    <3> HIDE DEF moved
    <3> QED BY <3>1, <3>2, <3>3
  <2>5. CASE StoreTokens(g)
    BY <2>5 DEF StoreTokens
  <2>6. CASE Take(g)
    BY <2>6 DEF Take
  <2>7. CASE TakeCas(g)
    BY <2>7 DEF TakeCas
  <2> QED BY <1>3, <2>1, <2>2, <2>3, <2>4, <2>5, <2>6, <2>7
          DEF Allow, refillTokens, consumeToken
<1> QED BY <1>1, <1>2, <1>3 DEF Next

LEMMA NextUnrefilled ==
  ASSUME IInv, [Next]_vars
  PROVE  Unrefilled'
<1> USE ConfigAssumption DEF IInv, TypeOK, Unrefilled, At, Goto, bucket, locals
<1>1. CASE UNCHANGED vars
  BY <1>1 DEF vars
<1>2. CASE Tick
  BY <1>2 DEF Tick
<1>3. ASSUME NEW g \in Goroutines, Allow(g)
      PROVE  Unrefilled'
  <2>1. CASE ReadClock(g)
    BY <2>1 DEF ReadClock
  <2>2. CASE LoadTokens(g)
    BY <2>2 DEF LoadTokens
  <2>3. CASE LoadLast(g)
    <3>1. refillRate <= 0 => ToAdd(clk[g] - lastRefill) = 0
      BY ToAddBounds
    <3> QED BY <2>3, <3>1 DEF LoadLast
  <2>4. CASE Claim(g)
    BY <2>4 DEF Claim
  <2>5. CASE StoreTokens(g)
    BY <2>5 DEF StoreTokens
  <2>6. CASE Take(g)
    BY <2>6 DEF Take
  <2>7. CASE TakeCas(g)
    BY <2>7 DEF TakeCas
  <2> QED BY <1>3, <2>1, <2>2, <2>3, <2>4, <2>5, <2>6, <2>7
          DEF Allow, refillTokens, consumeToken
<1> QED BY <1>1, <1>2, <1>3 DEF Next

THEOREM Invariance == Spec => []IInv
<1>1. Init => IInv
  BY InitIInv
<1>2. IInv /\ [Next]_vars => IInv'
  BY NextTypes, NextNothingAhead, NextUnrefilled DEF IInv
<1> QED BY <1>1, <1>2, PTL DEF Spec

\* In particular, the bucket never holds more than its capacity.
THEOREM TypeCorrect == Spec => []TypeOK
<1>1. IInv => TypeOK
  BY DEF IInv
<1> QED BY <1>1, Invariance, PTL

\* refillTokens credits no time that has not passed, whichever of the calls
\* that race for the same interval wins the CAS of lastRefill.
THEOREM RefillsAreNotAhead == Spec => []NeverRefillsAhead
<1>1. IInv => NeverRefillsAhead
  BY DEF IInv, NothingAhead, NeverRefillsAhead
<1> QED BY <1>1, Invariance, PTL

\* consumeToken's CAS loop conserves the tokens.
THEOREM ConsumingIsExact == Spec => []ExactWithoutRefill
<1>1. IInv => ExactWithoutRefill
  BY DEF IInv, Unrefilled, ExactWithoutRefill
<1> QED BY <1>1, Invariance, PTL

-----------------------------------------------------------------------------
(* Calls of Allow that do not overlap *)

\* The intervals claimed so far are whole, and each admission and each token
\* left was in the bucket at first or was earned by one of them.
Earned ==
  \E q \in Nat :
    /\ lastRefill = q * refillRate
    /\ admitted + tokens <= MaxTokens + q
    /\ \A g \in Goroutines :
         At(g, "store") => admitted + tokens + ToAdd(clk[g] - from[g]) <= MaxTokens + q

\* What the one goroutine in Allow has read is still what the bucket holds.
UpToDate(g) ==
  /\ pc[g] \in {"loadTokens", "loadLast", "claim"} => lastRefill <= clk[g]
  /\ pc[g] \in {"loadLast", "claim", "store", "takeCas"} => seen[g] = tokens
  /\ At(g, "takeCas") => tokens > 0
  /\ At(g, "claim") => from[g] = lastRefill
  /\ At(g, "store") => ToAdd(clk[g] - from[g]) >= 0

OneAtATime ==
  ~overlapped =>
    /\ \A g, h \in Goroutines : g # h => At(g, "idle") \/ At(h, "idle")
    /\ \A g \in Goroutines : UpToDate(g)
    /\ tokens >= 0
    /\ refillRate > 0 => Earned

LEMMA ToAddNat ==
  ASSUME refillRate \in Int, NEW elapsed \in Nat
  PROVE  ToAdd(elapsed) \in Nat
<1>1. CASE refillRate <= 0
  BY <1>1 DEF ToAdd
<1>2. CASE refillRate > 0
  <2>1. refillRate \in Nat \ {0}
    BY <1>2
  <2> QED BY <1>2, <2>1, DivisionBounds DEF ToAdd, Quotient
<1> QED BY <1>1, <1>2

\* Only a step that touches the bucket or a count can disturb Earned.
LEMMA EarnedStays ==
  ASSUME IInv, Earned, TypeOK', NEW g \in Goroutines, pc'[g] # "store",
         UNCHANGED <<refillRate, lastRefill>>,
         admitted' + tokens' <= admitted + tokens,
         \A h \in Goroutines \ {g} : At(h, "idle") /\ UNCHANGED pc[h]
  PROVE  Earned'
<1>1. PICK q \in Nat : lastRefill = q * refillRate /\ admitted + tokens <= MaxTokens + q
  BY DEF Earned
<1>2. /\ admitted + tokens \in Int /\ (admitted + tokens)' \in Int
      /\ MaxTokens + q \in Int
  BY ConfigAssumption DEF IInv, TypeOK
<1>3. (admitted + tokens)' <= MaxTokens + q
  <2> DEFINE before == admitted + tokens
             after == (admitted + tokens)'
  <2>1. after <= before /\ before <= MaxTokens + q
    BY <1>1
  <2> HIDE DEF before, after
  <2> QED BY <1>2, <2>1 DEF before, after
<1> QED BY <1>1, <1>3 DEF Earned, At

LEMMA NextOneAtATime ==
  ASSUME IInv, OneAtATime, [Next]_vars
  PROVE  OneAtATime'
<1> USE ConfigAssumption DEF IInv, TypeOK, bucket, locals
<1> SUFFICES ASSUME ~overlapped'
             PROVE  OneAtATime'
  BY DEF OneAtATime
<1>0. TypeOK'
  BY NextTypes
<1>1. CASE UNCHANGED vars
  BY <1>1 DEF vars, OneAtATime, Earned, UpToDate, At, ToAdd
<1>2. CASE Tick
  BY <1>2 DEF Tick, OneAtATime, Earned, UpToDate, At, ToAdd
<1>3. ASSUME NEW g \in Goroutines, Allow(g)
      PROVE  OneAtATime'
  <2>0. ~overlapped
    BY <1>3 DEF Allow, refillTokens, consumeToken, ReadClock, LoadTokens, LoadLast, Claim,
                StoreTokens, Take, TakeCas
  <2>1. \A h \in Goroutines \ {g} :
          At(h, "idle") /\ UNCHANGED <<pc[h], clk[h], seen[h], from[h]>>
    BY <1>3, <2>0 DEF Allow, refillTokens, consumeToken, ReadClock, LoadTokens, LoadLast,
                      Claim, StoreTokens, Take, TakeCas, Goto, At, OneAtATime
  <2>2. UpToDate(g) /\ tokens >= 0 /\ (refillRate > 0 => Earned)
    BY <2>0 DEF OneAtATime
  <2>3. UNCHANGED refillRate
    BY <1>3 DEF Allow, refillTokens, consumeToken, ReadClock, LoadTokens, LoadLast, Claim,
                StoreTokens, Take, TakeCas
  <2>4. ASSUME UpToDate(g)', tokens' >= 0, refillRate > 0 => Earned'
        PROVE  OneAtATime'
    BY <2>1, <2>3, <2>4 DEF OneAtATime, UpToDate, At
  <2>5. CASE ReadClock(g)
    <3>1. UpToDate(g)' /\ tokens' >= 0
      BY <2>2, <2>5 DEF ReadClock, Goto, At, UpToDate, NothingAhead
    <3>2. refillRate > 0 => Earned'
      BY <2>1, <2>2, <2>5, EarnedStays, <1>0 DEF ReadClock, Goto
    <3> QED BY <2>4, <3>1, <3>2
  <2>6. CASE LoadTokens(g)
    <3>1. UpToDate(g)' /\ tokens' >= 0
      BY <2>2, <2>6 DEF LoadTokens, Goto, At, UpToDate
    <3>2. refillRate > 0 => Earned'
      BY <2>1, <2>2, <2>6, EarnedStays, <1>0 DEF LoadTokens, Goto
    <3> QED BY <2>4, <3>1, <3>2
  <2>7. CASE LoadLast(g)
    <3>1. UpToDate(g)' /\ tokens' >= 0
      BY <2>2, <2>7 DEF LoadLast, Goto, At, UpToDate
    <3>2. refillRate > 0 => Earned'
      BY <2>1, <2>2, <2>7, EarnedStays, <1>0 DEF LoadLast, Goto
    <3> QED BY <2>4, <3>1, <3>2
  <2>8. CASE Claim(g)
    <3> DEFINE add == ToAdd(clk[g] - from[g])
    <3>1. pc[g] = "claim" /\ from[g] = lastRefill /\ lastRefill <= clk[g] /\ seen[g] = tokens
      BY <2>2, <2>8 DEF Claim, At, UpToDate
    <3>2. add \in Nat
      BY <3>1, ToAddNat
    <3>3. /\ pc'[g] = "store" /\ lastRefill' = lastRefill + add * refillRate
          /\ UNCHANGED <<tokens, clk, seen, from, admitted>>
      BY <2>8, <3>1 DEF Claim, Goto
    <3>4. ToAdd(clk[g] - from[g])' = add
      BY <2>3, <3>3 DEF ToAdd
    <3> HIDE DEF add
    <3>5. UpToDate(g)' /\ tokens' >= 0
      BY <2>2, <3>1, <3>2, <3>3, <3>4 DEF At, UpToDate
    <3>6. ASSUME refillRate > 0
          PROVE  Earned'
      <4>1. PICK q \in Nat : lastRefill = q * refillRate /\ admitted + tokens <= MaxTokens + q
        BY <2>2, <3>6 DEF Earned
      <4>2. q + add \in Nat /\ q * refillRate + add * refillRate = (q + add) * refillRate
        BY <3>2
      <4>3. lastRefill' = (q + add) * refillRate'
        BY <2>3, <3>3, <4>1, <4>2
      <4>4. admitted + tokens + add <= MaxTokens + (q + add)
        BY <3>2, <4>1
      <4> QED BY <2>1, <3>2, <3>3, <3>4, <4>2, <4>3, <4>4 DEF Earned, At
    <3> QED BY <2>4, <3>5, <3>6
  <2>9. CASE StoreTokens(g)
    <3> DEFINE add == ToAdd(clk[g] - from[g])
    <3>1. pc[g] = "store" /\ seen[g] = tokens /\ add >= 0
      BY <2>2, <2>9 DEF StoreTokens, At, UpToDate
    <3>2. add \in Int
      BY ToAddBounds
    <3>3. /\ pc'[g] = "take" /\ UNCHANGED <<lastRefill, admitted>>
          /\ tokens' = IF tokens + add > MaxTokens THEN MaxTokens ELSE tokens + add
      BY <2>9, <3>1 DEF StoreTokens, Goto, Refilled
    <3> HIDE DEF add
    <3>4. UpToDate(g)' /\ tokens' >= 0
      BY <2>2, <3>1, <3>2, <3>3 DEF At, UpToDate
    <3>5. ASSUME refillRate > 0
          PROVE  Earned'
      <4>1. PICK q \in Nat :
              lastRefill = q * refillRate /\ admitted + tokens + add <= MaxTokens + q
        BY <2>2, <3>1, <3>5 DEF Earned, At, add
      <4>2. admitted + tokens' <= MaxTokens + q
        BY <3>2, <3>3, <4>1
      <4> QED BY <2>1, <2>3, <3>3, <4>1, <4>2 DEF Earned, At
    <3> QED BY <2>4, <3>4, <3>5
  <2>10. CASE Take(g)
    <3>1. UpToDate(g)' /\ tokens' >= 0
      BY <2>2, <2>10 DEF Take, Empty, Goto, At, UpToDate
    <3>2. refillRate > 0 => Earned'
      BY <2>1, <2>2, <2>10, EarnedStays, <1>0 DEF Take, Goto
    <3> QED BY <2>4, <3>1, <3>2
  <2>11. CASE TakeCas(g)
    <3>1. tokens' = tokens - 1 /\ admitted' = admitted + 1 /\ pc'[g] = "idle" /\ tokens > 0
      BY <2>2, <2>11 DEF TakeCas, Goto, At, UpToDate
    <3>2. UpToDate(g)' /\ tokens' >= 0
      BY <2>2, <3>1 DEF At, UpToDate
    <3>3. refillRate > 0 => Earned'
      BY <2>1, <2>2, <2>11, <3>1, EarnedStays, <1>0 DEF TakeCas
    <3> QED BY <2>4, <3>2, <3>3
  <2> QED BY <1>3, <2>5, <2>6, <2>7, <2>8, <2>9, <2>10, <2>11
          DEF Allow, refillTokens, consumeToken
<1> QED BY <1>1, <1>2, <1>3 DEF Next

LEMMA InitOneAtATime ==
  ASSUME Init
  PROVE  OneAtATime
<1>1. lastRefill = 0 * refillRate /\ admitted + tokens <= MaxTokens + 0
  BY ConfigAssumption DEF Init
<1>2. \A g \in Goroutines : pc[g] = "idle"
  BY DEF Init
<1>3. Earned /\ \A g \in Goroutines : UpToDate(g)
  BY <1>1, <1>2 DEF Earned, UpToDate, At
<1> QED BY <1>2, <1>3, ConfigAssumption DEF Init, OneAtATime, At

LEMMA Multiples ==
  ASSUME NEW a \in Nat, NEW b \in Nat \ {0}, NEW q \in Nat, q * b <= a
  PROVE  q <= a \div b
<1> DEFINE d == a \div b
<1>1. d \in Nat /\ a = b * d + (a % b) /\ a % b < b
  OBVIOUS
<1>2. b * d = d * b /\ a < d * b + b
  <2>1. a % b \in Nat /\ b * d \in Nat
    BY <1>1
  <2> QED BY <1>1, <2>1
<1> HIDE DEF d
<1>3. SUFFICES ASSUME q >= d + 1
               PROVE  FALSE
  BY <1>1 DEF d
<1>4. PICK n \in Nat : q = d + 1 + n
  <2>1. q - d - 1 \in Nat /\ q = d + 1 + (q - d - 1)
    BY <1>1, <1>3
  <2> QED BY <2>1
<1>5. q * b = d * b + b + n * b /\ n * b \in Nat /\ d * b \in Nat
  BY <1>1, <1>4
<1> QED BY <1>2, <1>5

\* "RateLimiter is a token bucket implementation": calls that do not overlap,
\* of whichever goroutines, are admitted at the configured rate, and leave no
\* debt.
THEOREM SequentialCallsAreExact == Spec => []SequentialBucket
<1>1. Init => OneAtATime
  BY InitOneAtATime
<1>2. IInv /\ OneAtATime /\ [Next]_vars => OneAtATime'
  BY NextOneAtATime
<1>3. IInv /\ OneAtATime => SequentialBucket
  <2> SUFFICES ASSUME IInv, OneAtATime, ~overlapped
               PROVE  RateRespected /\ tokens >= 0
    BY DEF SequentialBucket
  <2>1. tokens >= 0
    BY DEF OneAtATime
  <2>2. ASSUME refillRate > 0
        PROVE  admitted <= MaxTokens + now \div refillRate
    <3>1. PICK q \in Nat : lastRefill = q * refillRate /\ admitted + tokens <= MaxTokens + q
      BY <2>2 DEF OneAtATime, Earned
    <3>2. now \in Nat /\ refillRate \in Nat \ {0} /\ q * refillRate <= now
      BY <2>2, <3>1, ConfigAssumption DEF IInv, TypeOK, NothingAhead
    <3>3. q <= now \div refillRate /\ now \div refillRate \in Nat
      BY <3>2, Multiples, DivisionBounds
    <3> QED BY <2>1, <3>1, <3>3, ConfigAssumption DEF IInv, TypeOK
  <2> QED BY <2>1, <2>2 DEF RateRespected
<1> QED BY <1>1, <1>2, <1>3, Invariance, PTL DEF Spec
=============================================================================
