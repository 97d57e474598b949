--------------------- MODULE OptimizedRateLimiterProofs ---------------------
(***************************************************************************)
(* The bucket of OptimizedRateLimiter stays between empty and full, and    *)
(* the rate is respected, for any number of goroutines, any rates, bucket  *)
(* and batch size.  The argument is bookkeeping: a token is paid for with  *)
(* time when lastRefill moves, is pending until it is added, then in the   *)
(* bucket until it is taken.                                               *)
(***************************************************************************)
EXTENDS OptimizedRateLimiter, FiniteSets, FiniteSetTheorems, TLAPS

-----------------------------------------------------------------------------
(* Arithmetic. *)

LEMMA ProductMonotonic ==
  ASSUME NEW a \in Int, NEW b \in Int, NEW q \in Nat, a <= b
  PROVE  q * a <= q * b
BY Z3

LEMMA DivisionRoundsDown ==
  ASSUME NEW a \in Nat, NEW b \in Nat \ {0}, NEW q \in Nat, q <= a \div b
  PROVE  q * b <= a
<1> DEFINE d == a \div b
<1>1. d \in Nat /\ d * b <= a /\ q <= d
  BY Z3
<1>2. q * b <= d * b
  <2> HIDE DEF d
  <2>1. b * q <= b * d
    BY <1>1, ProductMonotonic
  <2>2. b * q = q * b /\ b * d = d * b
    BY <1>1, Z3
  <2> QED BY <2>1, <2>2
<1> QED BY <1>1, <1>2, Z3

LEMMA FastestRate ==
  Fastest \in Nat \ {0} /\ \A q \in Rates : Fastest <= q
<1>1. Fastest \in Rates /\ \A q \in Rates : Fastest <= q
  BY ConfigAssumption DEF Fastest
<1> QED BY <1>1, ConfigAssumption

-----------------------------------------------------------------------------
(* The tokens that are paid for and not yet added. *)

Paid(label, amount) ==
  {p \in Goroutines \X (1..BatchSize) : label[p[1]] = "add" /\ p[2] <= amount[p[1]]}

Pending(label, amount) == Cardinality(Paid(label, amount))

LEMMA PendingType ==
  ASSUME IsFiniteSet(Goroutines), NEW label, NEW amount
  PROVE  IsFiniteSet(Paid(label, amount)) /\ Pending(label, amount) \in Nat
<1>1. IsFiniteSet(Goroutines \X (1..BatchSize))
  <2>1. 1 \in Int /\ BatchSize \in Int
    BY ConfigAssumption
  <2>2. IsFiniteSet(1..BatchSize)
    BY <2>1, FS_Interval, Zenon
  <2> QED BY <2>2, FS_Product, Zenon
<1>2. Paid(label, amount) \in SUBSET (Goroutines \X (1..BatchSize))
  BY DEF Paid
<1> QED BY <1>1, <1>2, FS_Subset, FS_CardinalityType DEF Pending

LEMMA PendingNow ==
  ASSUME IsFiniteSet(Goroutines)
  PROVE  /\ Pending(pc, add) \in Nat /\ Pending(pc', add') \in Nat
         /\ Pending(pc, add)' = Pending(pc', add')
<1>1. Pending(pc, add) \in Nat /\ Pending(pc', add') \in Nat
  BY PendingType
<1>2. Pending(pc, add)' = Pending(pc', add')
  BY DEF Pending, Paid
<1> QED BY <1>1, <1>2

\* Nobody but g moves, and g neither was about to add nor is now.
LEMMA PendingStays ==
  ASSUME NEW label, NEW amount, NEW label2, NEW amount2, NEW g \in Goroutines,
         \A h \in Goroutines \ {g} : label2[h] = label[h] /\ amount2[h] = amount[h],
         label[g] # "add", label2[g] # "add"
  PROVE  Pending(label2, amount2) = Pending(label, amount)
<1>1. Paid(label2, amount2) = Paid(label, amount)
  BY DEF Paid
<1> QED BY <1>1 DEF Pending

\* Nobody but g moves, and g is now about to add.
LEMMA PendingEnter ==
  ASSUME IsFiniteSet(Goroutines),
         NEW label, NEW amount, NEW label2, NEW amount2, NEW g \in Goroutines,
         \A h \in Goroutines \ {g} : label2[h] = label[h] /\ amount2[h] = amount[h],
         label[g] # "add", label2[g] = "add", amount2[g] \in 0..BatchSize
  PROVE  Pending(label2, amount2) = Pending(label, amount) + amount2[g]
<1> DEFINE n == amount2[g]
           mine == {g} \X (1..n)
<1>1. BatchSize \in Nat /\ n \in Nat /\ n <= BatchSize
  BY ConfigAssumption
<1>2. Paid(label2, amount2) = Paid(label, amount) \union mine
  <2>1. \A p \in Goroutines \X (1..BatchSize) :
          p \in mine <=> p[1] = g /\ p[2] <= n
    BY <1>1
  <2>2. mine \subseteq Goroutines \X (1..BatchSize)
    BY <1>1
  <2> HIDE DEF mine
  <2> QED BY <2>1, <2>2 DEF Paid
<1>3. Paid(label, amount) \intersect mine = {}
  BY DEF Paid
<1>4. IsFiniteSet(mine) /\ Cardinality(mine) = n
  <2>1. IsFiniteSet({g}) /\ Cardinality({g}) = 1
    BY FS_Singleton
  <2>2. IsFiniteSet(1..n) /\ Cardinality(1..n) = n
    <3>1. 1 \in Int /\ n \in Int
      BY <1>1
    <3>2. /\ IsFiniteSet(1..n)
          /\ Cardinality(1..n) = IF 1 > n THEN 0 ELSE n - 1 + 1
      BY <3>1, FS_Interval, Zenon
    <3> QED BY <1>1, <3>2
  <2>3. IsFiniteSet(mine) /\ Cardinality(mine) = Cardinality({g}) * Cardinality(1..n)
    BY <2>1, <2>2, FS_Product
  <2> QED BY <1>1, <2>1, <2>2, <2>3
<1>5. IsFiniteSet(Paid(label, amount)) /\ Pending(label, amount) \in Nat
  BY PendingType
<1> HIDE DEF mine
<1>6. Cardinality(Paid(label, amount) \union mine)
        = Cardinality(Paid(label, amount)) + Cardinality(mine) - Cardinality({})
  BY <1>3, <1>4, <1>5, FS_Union
<1> QED BY <1>1, <1>2, <1>4, <1>5, <1>6, FS_EmptySet DEF Pending

-----------------------------------------------------------------------------
(* The invariant. *)

\* What a goroutine knows at some places.
Phases ==
  \A g \in Goroutines :
    /\ pc[g] = "loadRate" => from[g] <= clk[g]
    /\ pc[g] = "claim" => to[g] <= now /\ Fastest * add[g] <= to[g] - from[g]
    /\ pc[g] = "cas" => seen[g] # 0
    /\ pc[g] = "setThreshold" => arg[g] \in Rates

\* No time is used that has not passed.
Past == lastRefill <= now /\ \A g \in Goroutines : clk[g] <= now

Tokens == admitted + tokens + Pending(pc, add)

\* The tokens taken, in the bucket or on the way are the bucketfuls given for
\* nothing and those that time has paid for.
Credit == Fastest * (Tokens - MaxTokens * (1 + resets)) <= lastRefill + rewound

IInv == TypeOK /\ Phases /\ Past /\ Credit

\* What a step has to do to the accounts.
Balanced ==
  Tokens' - MaxTokens * (1 + resets') <= Tokens - MaxTokens * (1 + resets)
    /\ lastRefill + rewound <= lastRefill' + rewound'

LEMMA BalancedKeepsCredit ==
  ASSUME IsFiniteSet(Goroutines), IInv, TypeOK', Balanced
  PROVE  Credit'
<1> DEFINE x == Tokens - MaxTokens * (1 + resets)
           y == Tokens' - MaxTokens * (1 + resets')
<1>1. Fastest \in Nat
  BY FastestRate DEF IInv, TypeOK
<1>2. Pending(pc, add) \in Nat /\ Pending(pc, add)' \in Nat
  BY PendingNow
<1>3. x \in Int /\ y \in Int
  BY <1>2, ConfigAssumption DEF IInv, TypeOK, Tokens
<1>4. y <= x /\ lastRefill + rewound <= lastRefill' + rewound'
  BY DEF Balanced
<1>5. Fastest * x <= lastRefill + rewound
  BY DEF IInv, Credit
<1> HIDE DEF x, y
<1>6. Fastest * y <= Fastest * x
  BY <1>1, <1>3, <1>4, ProductMonotonic
<1>7. Fastest * x \in Int /\ Fastest * y \in Int
  BY <1>1, <1>3
<1>8. /\ lastRefill + rewound \in Int
      /\ lastRefill' + rewound' \in Int
  BY DEF IInv, TypeOK
<1>9. Fastest * y <= lastRefill' + rewound'
  BY <1>4, <1>5, <1>6, <1>7, <1>8
<1> QED BY <1>9 DEF Credit, y, Fastest

\* Nobody but g moves; g is not at the addition, before or after; the tokens in
\* the bucket and those taken are the same in sum.
LEMMA QuietStep ==
  ASSUME IsFiniteSet(Goroutines), IInv, TypeOK', NEW g \in Goroutines,
         \A h \in Goroutines \ {g} : pc'[h] = pc[h] /\ add'[h] = add[h],
         pc[g] # "add", pc'[g] # "add",
         admitted' + tokens' = admitted + tokens, resets' = resets,
         lastRefill + rewound <= lastRefill' + rewound'
  PROVE  Credit'
<1>1. Pending(pc', add') = Pending(pc, add)
  BY PendingStays
<1>2. Pending(pc, add)' = Pending(pc', add')
  BY PendingNow
<1>3. Pending(pc, add) \in Nat
  BY PendingNow
<1>4. Tokens' = Tokens
  BY <1>1, <1>2, <1>3 DEF Tokens, IInv, TypeOK
<1>5. Tokens - MaxTokens * (1 + resets) \in Int
  BY <1>3, ConfigAssumption DEF IInv, TypeOK, Tokens
<1> QED BY <1>4, <1>5, BalancedKeepsCredit DEF Balanced

-----------------------------------------------------------------------------
(* The steps. *)

\* The end of fastRefill.
LEMMA EndRefillKnows ==
  ASSUME TypeOK, NEW g \in Goroutines, EndRefill(g)
  PROVE  /\ pc' \in [Goroutines -> Labels] /\ pc'[g] \in {"takeN", "load"}
         /\ op' = op /\ arg' = arg /\ seen' = seen /\ tries' = tries
         /\ clk' \in [Goroutines -> 0..MaxTime] /\ clk'[g] = 0
         /\ from' \in [Goroutines -> 0..MaxTime]
         /\ add' \in [Goroutines -> 0..BatchSize]
         /\ to' \in [Goroutines -> 0..MaxTime]
         /\ \A h \in Goroutines \ {g} :
              /\ pc'[h] = pc[h] /\ clk'[h] = clk[h] /\ from'[h] = from[h]
              /\ add'[h] = add[h] /\ to'[h] = to[h]
BY ConfigAssumption DEF EndRefill, Goto, Zero, TypeOK, Labels, take

LEMMA ReturnKnows ==
  ASSUME TypeOK, NEW g \in Goroutines, Return(g)
  PROVE  /\ pc' \in [Goroutines -> Labels] /\ pc'[g] = "idle"
         /\ op' \in [Goroutines -> Methods] /\ arg' \in [Goroutines -> Nat]
         /\ clk' \in [Goroutines -> 0..MaxTime] /\ clk'[g] = 0
         /\ from' \in [Goroutines -> 0..MaxTime]
         /\ add' \in [Goroutines -> 0..BatchSize]
         /\ to' \in [Goroutines -> 0..MaxTime]
         /\ seen' \in [Goroutines -> 0..MaxTokens]
         /\ tries' \in [Goroutines -> 0..2]
         /\ \A h \in Goroutines \ {g} :
              /\ pc'[h] = pc[h] /\ clk'[h] = clk[h] /\ from'[h] = from[h]
              /\ add'[h] = add[h] /\ to'[h] = to[h] /\ seen'[h] = seen[h]
              /\ arg'[h] = arg[h]
<1>1. 0 \in 0..MaxTime /\ 0 \in 0..BatchSize /\ 0 \in 0..MaxTokens
  BY ConfigAssumption
<1> QED BY <1>1 DEF Return, Goto, Zero, TypeOK, Labels, Methods

\* A call only reads the clock.
LEMMA CallStep ==
  ASSUME IsFiniteSet(Goroutines), IInv, NEW g \in Goroutines,
         NEW method \in Methods, NEW n \in Nat, Call(g, method, n)
  PROVE  IInv'
<1> USE DEF IInv, Call, At
<1>1. /\ pc' = [pc EXCEPT ![g] = "loadLast"] /\ clk' = [clk EXCEPT ![g] = now]
      /\ UNCHANGED <<fields, now, refill, take, history>>
  BY DEF Goto
<1>2. TypeOK'
  BY <1>1 DEF TypeOK, fields, refill, take, history, Labels, Methods
<1>3. Phases'
  BY <1>1 DEF Phases, TypeOK, refill, take, Fastest
<1>4. Past'
  BY <1>1 DEF Past, TypeOK, fields
<1>5. Credit'
  BY <1>1, <1>2, QuietStep DEF TypeOK, fields, refill, history
<1> QED BY <1>2, <1>3, <1>4, <1>5

LEMMA LoadLastStep ==
  ASSUME IsFiniteSet(Goroutines), IInv, NEW g \in Goroutines, LoadLast(g)
  PROVE  IInv'
<1> USE DEF IInv, LoadLast, At
<1>1. /\ pc' = [pc EXCEPT ![g] = "loadThreshold"]
      /\ UNCHANGED <<fields, now, op, arg, clk, add, to, take, history>>
  BY DEF Goto
<1>2. TypeOK'
  BY <1>1 DEF TypeOK, fields, take, history, Labels
<1>3. Phases'
  BY <1>1 DEF Phases, TypeOK, take, Fastest
<1>4. Past'
  BY <1>1 DEF Past, fields
<1>5. Credit'
  BY <1>1, <1>2, QuietStep DEF TypeOK, fields, history
<1> QED BY <1>2, <1>3, <1>4, <1>5

\* fastRefill ends without a change of the fields.
LEMMA EndRefillStep ==
  ASSUME IsFiniteSet(Goroutines), IInv, NEW g \in Goroutines,
         EndRefill(g), pc[g] # "add", UNCHANGED <<fields, now, history>>
  PROVE  IInv'
<1> USE DEF IInv
<1>1. TypeOK'
  BY EndRefillKnows DEF TypeOK, fields, history
<1>2. Phases'
  BY EndRefillKnows DEF Phases, TypeOK, fields, Fastest
<1>3. Past'
  BY EndRefillKnows DEF Past, TypeOK, fields
<1>4. Credit'
  BY <1>1, EndRefillKnows, QuietStep DEF TypeOK, fields, history
<1> QED BY <1>1, <1>2, <1>3, <1>4

LEMMA LoadThresholdStep ==
  ASSUME IsFiniteSet(Goroutines), IInv, NEW g \in Goroutines, LoadThreshold(g)
  PROVE  IInv'
<1>1. CASE Elapsed(g) < refillThreshold
  BY <1>1, EndRefillStep DEF LoadThreshold, At
<1>2. CASE ~(Elapsed(g) < refillThreshold)
  <2> USE DEF IInv
  <2>1. pc' = [pc EXCEPT ![g] = "loadRate"] /\ UNCHANGED <<fields, now, locals, history>>
    BY <1>2 DEF LoadThreshold, Goto
  <2>2. from[g] <= clk[g]
    <3>1. refillThreshold \in Rates /\ clk[g] \in 0..MaxTime /\ from[g] \in 0..MaxTime
      BY DEF TypeOK
    <3>2. ~(clk[g] - from[g] < refillThreshold)
      BY <1>2 DEF Elapsed
    <3>3. refillThreshold \in Nat \ {0} /\ MaxTime \in Nat
      BY <3>1, ConfigAssumption
    <3> QED BY <3>1, <3>2, <3>3
  <2>3. TypeOK'
    BY <2>1 DEF TypeOK, fields, locals, refill, take, history, Labels
  <2>4. Phases'
    BY <2>1, <2>2 DEF Phases, TypeOK, locals, refill, take, Fastest
  <2>5. Past'
    BY <2>1 DEF Past, fields, locals
  <2>6. Credit'
    BY <2>1, <2>3, QuietStep DEF LoadThreshold, At, TypeOK, fields, locals, refill, history
  <2> QED BY <2>3, <2>4, <2>5, <2>6
<1> QED BY <1>1, <1>2

\* What is added is paid for, at the fastest rate or more, with time that has
\* passed.
LEMMA LoadRateStep ==
  ASSUME IsFiniteSet(Goroutines), IInv, NEW g \in Goroutines, LoadRate(g)
  PROVE  IInv'
<1> DEFINE earned == Elapsed(g) \div refillRate
           n == Least(earned, BatchSize)
<1>1. CASE earned = 0
  BY <1>1, EndRefillStep DEF LoadRate, At
<1>2. CASE earned # 0
  <2> USE DEF IInv
  <2>1. pc[g] = "loadRate" /\ Elapsed(g) \in Nat /\ Elapsed(g) <= clk[g] - from[g]
    BY DEF LoadRate, At, Phases, TypeOK, Elapsed
  <2>2. refillRate \in Nat \ {0} /\ refillRate \in Rates
    BY ConfigAssumption DEF TypeOK
  <2>3. earned \in Nat /\ BatchSize \in Nat
    BY <2>1, <2>2, ConfigAssumption
  <2>4. n \in 0..BatchSize /\ n <= earned
    BY <2>3 DEF Least
  <2>5. n * refillRate <= Elapsed(g)
    <3> HIDE DEF n
    <3> QED BY <2>1, <2>2, <2>4, DivisionRoundsDown
  <2>6. /\ pc' = [pc EXCEPT ![g] = "claim"]
        /\ add' = [add EXCEPT ![g] = n]
        /\ to' = [to EXCEPT ![g] = from[g] + n * refillRate]
        /\ UNCHANGED <<fields, now, op, arg, clk, from, take, history>>
    BY <1>2 DEF LoadRate, Batch, Goto
  <2>7. Fastest * n <= n * refillRate /\ n * refillRate \in Nat
    <3> HIDE DEF n
    <3>1. Fastest \in Nat /\ Fastest <= refillRate /\ n \in Nat
      BY <2>2, <2>4, FastestRate
    <3>2. n * Fastest <= n * refillRate
      BY <2>2, <3>1, ProductMonotonic
    <3>3. n * Fastest = Fastest * n /\ n * refillRate \in Nat
      BY <2>2, <3>1, Z3
    <3> QED BY <3>2, <3>3
  <2> HIDE DEF n, earned
  <2> DEFINE paid == n * refillRate
  <2>8. /\ paid \in Nat /\ paid <= clk[g] - from[g] /\ Fastest * n <= paid
        /\ to' = [to EXCEPT ![g] = from[g] + paid]
    BY <2>1, <2>3, <2>5, <2>6, <2>7 DEF TypeOK
  <2> HIDE DEF paid
  <2>9. from[g] + paid \in 0..MaxTime /\ from[g] + paid <= now
    <3>1. /\ from[g] \in 0..MaxTime /\ clk[g] \in 0..MaxTime /\ now \in Nat
          /\ clk[g] <= now /\ MaxTime \in Nat
      BY ConfigAssumption DEF TypeOK, Past
    <3> QED BY <2>8, <3>1
  <2>10. TypeOK'
    BY <2>4, <2>6, <2>8, <2>9 DEF TypeOK, fields, take, history, Labels
  <2>11. Phases'
    <3> SUFFICES ASSUME NEW h \in Goroutines
                 PROVE  /\ pc'[h] = "loadRate" => from'[h] <= clk'[h]
                        /\ pc'[h] = "claim" => /\ to'[h] <= now'
                                               /\ Fastest * add'[h] <= to'[h] - from'[h]
                        /\ pc'[h] = "cas" => seen'[h] # 0
                        /\ pc'[h] = "setThreshold" => arg'[h] \in Rates
      BY DEF Phases, Fastest
    <3>1. CASE h = g
      <4>1. pc'[h] = "claim" /\ to'[h] = from[h] + paid /\ add'[h] = n /\ from'[h] = from[h]
        BY <2>6, <2>8, <3>1 DEF TypeOK
      <4>2. from[h] \in Int /\ paid \in Int
        BY <2>8, <3>1 DEF TypeOK
      <4>3. now' = now /\ to'[h] <= now'
        BY <2>6, <2>9, <3>1, <4>1
      <4>4. to'[h] - from'[h] = paid
        BY <4>1, <4>2
      <4>5. Fastest * add'[h] <= to'[h] - from'[h]
        BY <2>8, <4>1, <4>4
      <4> QED BY <4>1, <4>3, <4>5
    <3>2. CASE h # g
      BY <2>6, <2>8, <3>2 DEF Phases, TypeOK, take
    <3> QED BY <3>1, <3>2
  <2>12. Past'
    BY <2>6 DEF Past, fields
  <2>13. Credit'
    BY <2>1, <2>6, <2>10, QuietStep DEF TypeOK, fields, history
  <2> QED BY <2>10, <2>11, <2>12, <2>13
<1> QED BY <1>1, <1>2

\* Time is paid: lastRefill moves by what the pending tokens cost.
LEMMA ClaimStep ==
  ASSUME IsFiniteSet(Goroutines), IInv, NEW g \in Goroutines, Claim(g)
  PROVE  IInv'
<1>1. CASE lastRefill # from[g]
  BY <1>1, EndRefillStep DEF Claim, At, fields
<1>2. CASE lastRefill = from[g]
  <2> USE DEF IInv
  <2>1. /\ pc[g] = "claim" /\ lastRefill' = to[g]
        /\ pc' = [pc EXCEPT ![g] = "add"]
        /\ UNCHANGED <<tokens, refillRate, refillThreshold, locals, now, history>>
    BY <1>2 DEF Claim, At, Goto
  <2>2. /\ to[g] <= now /\ Fastest * add[g] <= to[g] - lastRefill
        /\ add[g] \in 0..BatchSize /\ to[g] \in Nat
    BY <1>2, <2>1 DEF Phases, TypeOK
  <2>3. TypeOK'
    BY <2>1 DEF TypeOK, locals, refill, take, history, Labels
  <2>4. Phases'
    BY <2>1 DEF Phases, TypeOK, locals, refill, take, Fastest
  <2>5. Past'
    BY <2>1, <2>2 DEF Past, locals
  <2>6. Credit'
    <3> DEFINE x == Tokens - MaxTokens * (1 + resets)
    <3>1. Pending(pc', add') = Pending(pc, add) + add[g]
      <4>1. /\ \A h \in Goroutines \ {g} : pc'[h] = pc[h] /\ add[h] = add[h]
            /\ pc[g] # "add" /\ pc'[g] = "add"
        BY <2>1 DEF TypeOK
      <4>2. Pending(pc', add) = Pending(pc, add) + add[g]
        BY <2>2, <4>1, PendingEnter
      <4> QED BY <2>1, <4>2 DEF locals, refill
    <3>2. Pending(pc, add) \in Nat /\ Pending(pc, add)' = Pending(pc', add')
      BY PendingNow
    <3>3. /\ x \in Int /\ add[g] \in Nat /\ Fastest \in Nat
          /\ lastRefill \in Nat /\ rewound \in Nat
      BY <2>2, <3>2, ConfigAssumption, FastestRate DEF TypeOK, Tokens
    <3>4. Tokens' - MaxTokens * (1 + resets') = x + add[g]
      BY <2>1, <3>1, <3>2, <3>3, ConfigAssumption DEF Tokens, TypeOK, history
    <3>5. Fastest * x <= lastRefill + rewound
      BY DEF Credit
    <3> HIDE DEF x
    <3>6. Fastest * (x + add[g]) = Fastest * x + Fastest * add[g]
      BY <3>3, Z3
    <3>7. Fastest * x \in Int /\ Fastest * add[g] \in Int
      BY <3>3
    <3>8. Fastest * (x + add[g]) <= to[g] + rewound
      BY <2>2, <3>3, <3>5, <3>6, <3>7
    <3> QED BY <2>1, <3>4, <3>8 DEF Credit, history, Fastest
  <2> QED BY <2>3, <2>4, <2>5, <2>6
<1> QED BY <1>1, <1>2

\* Pending tokens become tokens of the bucket, or are lost when it is full.
LEMMA AddStep ==
  ASSUME IsFiniteSet(Goroutines), IInv, NEW g \in Goroutines, Add(g)
  PROVE  IInv'
<1> USE DEF IInv
<1>1. /\ pc[g] = "add" /\ EndRefill(g) /\ tokens' = Least(tokens + add[g], MaxTokens)
      /\ UNCHANGED <<lastRefill, refillRate, refillThreshold, now, history>>
  BY DEF Add, At, Refilled
<1>2. add[g] \in Nat /\ add[g] \in 0..BatchSize /\ tokens \in 0..MaxTokens /\ MaxTokens \in Nat
  BY ConfigAssumption DEF TypeOK
<1>3. tokens' \in 0..MaxTokens /\ tokens' <= tokens + add[g]
  BY <1>1, <1>2 DEF Least
<1>4. TypeOK'
  BY <1>1, <1>3, EndRefillKnows DEF TypeOK, history
<1>5. Phases'
  BY <1>1, EndRefillKnows DEF Phases, TypeOK, Fastest
<1>6. Past'
  BY <1>1, EndRefillKnows DEF Past, TypeOK
<1>7. Balanced
  <2>1. Pending(pc, add) = Pending(pc', add') + add[g]
    <3>1. /\ \A h \in Goroutines \ {g} : pc[h] = pc'[h] /\ add[h] = add'[h]
          /\ pc'[g] # "add" /\ pc[g] = "add"
      BY <1>1, EndRefillKnows
    <3> QED BY <1>2, <3>1, PendingEnter
  <2>2. Pending(pc', add') \in Nat /\ Pending(pc, add)' = Pending(pc', add')
    BY PendingNow
  <2>3. Tokens' <= Tokens /\ Tokens' \in Int /\ Tokens \in Int
    BY <1>1, <1>2, <1>3, <2>1, <2>2 DEF Tokens, TypeOK, history
  <2>4. resets' = resets /\ MaxTokens * (1 + resets) \in Int
    BY <1>1, <1>2 DEF TypeOK, history
  <2>5. lastRefill' + rewound' = lastRefill + rewound /\ lastRefill + rewound \in Int
    BY <1>1 DEF TypeOK, history
  <2> QED BY <2>3, <2>4, <2>5 DEF Balanced
<1>8. Credit'
  BY <1>4, <1>7, BalancedKeepsCredit
<1> QED BY <1>4, <1>5, <1>6, <1>8

-----------------------------------------------------------------------------

\* A method returns after tokens have gone from the bucket to the caller.
LEMMA ReturnStep ==
  ASSUME IsFiniteSet(Goroutines), IInv, NEW g \in Goroutines, Return(g),
         pc[g] # "add",
         tokens' \in 0..MaxTokens, admitted' \in Nat,
         admitted' + tokens' = admitted + tokens,
         UNCHANGED <<lastRefill, refillRate, resets, rewound, now>>,
         refillThreshold' \in Rates
  PROVE  IInv'
<1> USE DEF IInv
<1>1. TypeOK'
  BY ReturnKnows DEF TypeOK
<1>2. Phases'
  BY ReturnKnows DEF Phases, Fastest
<1>3. Past'
  BY ReturnKnows DEF Past, TypeOK
<1>4. Credit'
  BY <1>1, ReturnKnows, QuietStep DEF TypeOK
<1> QED BY <1>1, <1>2, <1>3, <1>4

LEMMA TakeNStep ==
  ASSUME IsFiniteSet(Goroutines), IInv, NEW g \in Goroutines, TakeN(g)
  PROVE  IInv'
<1>1. /\ tokens \in 0..MaxTokens /\ arg[g] \in Nat /\ admitted \in Nat
      /\ MaxTokens \in Nat /\ refillThreshold \in Rates
  BY ConfigAssumption DEF IInv, TypeOK
<1>2. CASE tokens < arg[g]
  BY <1>1, <1>2, ReturnStep DEF TakeN, At, fields, history
<1>3. CASE ~(tokens < arg[g])
  <2>1. /\ tokens' = tokens - arg[g] /\ admitted' = admitted + arg[g]
        /\ Return(g) /\ pc[g] # "add"
        /\ UNCHANGED <<lastRefill, refillRate, refillThreshold, resets, rewound, now>>
    BY <1>3 DEF TakeN, Take, At
  <2>2. /\ tokens' \in 0..MaxTokens /\ admitted' \in Nat
        /\ admitted' + tokens' = admitted + tokens
    BY <1>1, <1>3, <2>1
  <2> QED BY <1>1, <2>1, <2>2, ReturnStep
<1> QED BY <1>2, <1>3

LEMMA LoadStep ==
  ASSUME IsFiniteSet(Goroutines), IInv, NEW g \in Goroutines, Load(g)
  PROVE  IInv'
<1>1. CASE tokens = 0
  BY <1>1, ReturnStep DEF Load, At, fields, history, IInv, TypeOK
<1>2. CASE tokens # 0
  <2> USE DEF IInv
  <2>1. /\ pc[g] = "load" /\ pc' = [pc EXCEPT ![g] = "cas"]
        /\ seen' = [seen EXCEPT ![g] = tokens]
        /\ UNCHANGED <<fields, now, op, arg, clk, refill, tries, history>>
    BY <1>2 DEF Load, At, Goto
  <2>2. TypeOK'
    BY <2>1 DEF TypeOK, fields, refill, history, Labels
  <2>3. Phases'
    BY <1>2, <2>1 DEF Phases, TypeOK, refill, Fastest
  <2>4. Past'
    BY <2>1 DEF Past, fields
  <2>5. Credit'
    BY <2>1, <2>2, QuietStep DEF TypeOK, fields, refill, history
  <2> QED BY <2>2, <2>3, <2>4, <2>5
<1> QED BY <1>1, <1>2

\* The comparison is what keeps the bucket out of debt.
LEMMA CasStep ==
  ASSUME IsFiniteSet(Goroutines), IInv, NEW g \in Goroutines, Cas(g)
  PROVE  IInv'
<1>1. /\ tokens \in 0..MaxTokens /\ admitted \in Nat
      /\ MaxTokens \in Nat /\ refillThreshold \in Rates
  BY ConfigAssumption DEF IInv, TypeOK
<1>2. CASE tokens = seen[g]
  <2>1. /\ tokens' = tokens - 1 /\ admitted' = admitted + 1
        /\ Return(g) /\ pc[g] = "cas"
        /\ UNCHANGED <<lastRefill, refillRate, refillThreshold, resets, rewound, now>>
    BY <1>2 DEF Cas, Take, At
  <2>2. tokens # 0
    BY <1>2, <2>1 DEF IInv, Phases
  <2>3. /\ tokens' \in 0..MaxTokens /\ admitted' \in Nat
        /\ admitted' + tokens' = admitted + tokens
    BY <1>1, <2>1, <2>2
  <2> QED BY <1>1, <2>1, <2>3, ReturnStep
<1>3. CASE tokens # seen[g] /\ MayRetry(g)
  <2> USE DEF IInv
  <2>1. /\ pc[g] = "cas" /\ pc' = [pc EXCEPT ![g] = "load"]
        /\ tries' = [tries EXCEPT ![g] = @ + 1] /\ seen' = [seen EXCEPT ![g] = 0]
        /\ UNCHANGED <<fields, now, op, arg, clk, refill, history>>
    BY <1>3 DEF Cas, Retry, At, Goto, Zero
  <2>2. tries[g] \in 0..2 /\ tries[g] < 2
    BY <1>3 DEF MayRetry, TypeOK
  <2>3. TypeOK'
    <3>1. tries' \in [Goroutines -> 0..2]
      BY <2>1, <2>2 DEF TypeOK
    <3>2. seen' \in [Goroutines -> 0..MaxTokens]
      BY <1>1, <2>1 DEF TypeOK
    <3> QED BY <2>1, <3>1, <3>2 DEF TypeOK, fields, refill, history, Labels
  <2>4. Phases'
    BY <2>1 DEF Phases, TypeOK, refill, Fastest
  <2>5. Past'
    BY <2>1 DEF Past, fields
  <2>6. Credit'
    BY <2>1, <2>3, QuietStep DEF TypeOK, fields, refill, history
  <2> QED BY <2>3, <2>4, <2>5, <2>6
<1>4. CASE tokens # seen[g] /\ ~MayRetry(g)
  BY <1>1, <1>4, ReturnStep DEF Cas, At, fields, history
<1> QED BY <1>2, <1>3, <1>4 DEF Cas

LEMMA SetRateStep ==
  ASSUME IsFiniteSet(Goroutines), IInv, NEW g \in Goroutines,
         NEW rate \in Rates, SetRate(g, rate)
  PROVE  IInv'
<1> USE DEF IInv
<1>1. /\ pc[g] = "idle" /\ pc' = [pc EXCEPT ![g] = "setThreshold"]
      /\ op' = [op EXCEPT ![g] = "SetRate"] /\ arg' = [arg EXCEPT ![g] = rate]
      /\ refillRate' = rate
      /\ UNCHANGED <<tokens, lastRefill, refillThreshold, now, clk, refill, take, history>>
  BY DEF SetRate, At, Goto
<1>2. rate \in Nat
  BY ConfigAssumption
<1>3. TypeOK'
  BY <1>1, <1>2 DEF TypeOK, refill, take, history, Labels, Methods
<1>4. Phases'
  BY <1>1 DEF Phases, TypeOK, refill, take, Fastest
<1>5. Past'
  BY <1>1 DEF Past
<1>6. Credit'
  BY <1>1, <1>3, QuietStep DEF TypeOK, refill, history
<1> QED BY <1>3, <1>4, <1>5, <1>6

LEMMA SetThresholdStep ==
  ASSUME IsFiniteSet(Goroutines), IInv, NEW g \in Goroutines, SetThreshold(g)
  PROVE  IInv'
<1>1. pc[g] = "setThreshold" /\ refillThreshold' \in Rates
  BY DEF SetThreshold, At, IInv, Phases
<1> QED BY <1>1, ReturnStep DEF SetThreshold, history, IInv, TypeOK

\* A bucketful for nothing.
LEMMA ResetStep ==
  ASSUME IsFiniteSet(Goroutines), IInv, NEW g \in Goroutines, Reset(g)
  PROVE  IInv'
<1> USE DEF IInv
<1>1. /\ pc[g] = "idle" /\ pc' = [pc EXCEPT ![g] = "readClock"]
      /\ op' = [op EXCEPT ![g] = "Reset"] /\ tokens' = MaxTokens /\ resets' = resets + 1
      /\ UNCHANGED <<lastRefill, refillRate, refillThreshold, now, arg, clk, refill, take,
                     admitted, rewound>>
  BY DEF Reset, At, Goto
<1>2. MaxTokens \in Nat /\ resets \in Nat /\ tokens \in Nat /\ admitted \in Nat
  BY ConfigAssumption DEF TypeOK
<1>3. TypeOK'
  BY <1>1, <1>2 DEF TypeOK, refill, take, Labels, Methods
<1>4. Phases'
  BY <1>1 DEF Phases, TypeOK, refill, take, Fastest
<1>5. Past'
  BY <1>1 DEF Past
<1>6. Balanced
  <2>1. Pending(pc', add') = Pending(pc, add)
    <3>1. /\ \A h \in Goroutines \ {g} : pc'[h] = pc[h] /\ add'[h] = add[h]
          /\ pc[g] # "add" /\ pc'[g] # "add"
      BY <1>1 DEF TypeOK, refill
    <3> QED BY <3>1, PendingStays
  <2>2. Pending(pc, add) \in Nat /\ Pending(pc, add)' = Pending(pc', add')
    BY PendingNow
  <2>3. Tokens' <= Tokens + MaxTokens /\ Tokens \in Int /\ Tokens' \in Int
    BY <1>1, <1>2, <2>1, <2>2 DEF Tokens
  <2>4. /\ MaxTokens * (1 + resets') = MaxTokens * (1 + resets) + MaxTokens
        /\ MaxTokens * (1 + resets) \in Int
    BY <1>1, <1>2, Z3
  <2>5. lastRefill' + rewound' = lastRefill + rewound /\ lastRefill + rewound \in Int
    BY <1>1 DEF TypeOK
  <2> QED BY <1>2, <2>3, <2>4, <2>5 DEF Balanced
<1>7. Credit'
  BY <1>3, <1>6, BalancedKeepsCredit
<1> QED BY <1>3, <1>4, <1>5, <1>7

LEMMA ReadClockStep ==
  ASSUME IsFiniteSet(Goroutines), IInv, NEW g \in Goroutines, ReadClock(g)
  PROVE  IInv'
<1> USE DEF IInv
<1>1. /\ pc[g] = "readClock" /\ pc' = [pc EXCEPT ![g] = "stamp"]
      /\ clk' = [clk EXCEPT ![g] = now]
      /\ UNCHANGED <<fields, now, op, arg, refill, take, history>>
  BY DEF ReadClock, At, Goto
<1>2. TypeOK'
  BY <1>1 DEF TypeOK, fields, refill, take, history, Labels
<1>3. Phases'
  BY <1>1 DEF Phases, TypeOK, refill, take, Fastest
<1>4. Past'
  BY <1>1 DEF Past, TypeOK, fields
<1>5. Credit'
  BY <1>1, <1>2, QuietStep DEF TypeOK, fields, refill, history
<1> QED BY <1>2, <1>3, <1>4, <1>5

\* What lastRefill loses is written down in rewound.
LEMMA StampStep ==
  ASSUME IsFiniteSet(Goroutines), IInv, NEW g \in Goroutines, Stamp(g)
  PROVE  IInv'
<1> USE DEF IInv
<1>1. /\ pc[g] = "stamp" /\ lastRefill' = clk[g] /\ Return(g)
      /\ rewound' = rewound + (IF clk[g] < lastRefill THEN lastRefill - clk[g] ELSE 0)
      /\ UNCHANGED <<tokens, refillRate, refillThreshold, now, admitted, resets>>
  BY DEF Stamp, At
<1>2. /\ clk[g] \in 0..MaxTime /\ clk[g] <= now /\ lastRefill \in 0..MaxTime
      /\ rewound \in Nat /\ MaxTime \in Nat
  BY ConfigAssumption DEF Past, TypeOK
<1>3. rewound' \in Nat /\ lastRefill + rewound <= lastRefill' + rewound'
  BY <1>1, <1>2
<1>4. TypeOK'
  BY <1>1, <1>2, <1>3, ReturnKnows DEF TypeOK
<1>5. Phases'
  BY <1>1, ReturnKnows DEF Phases, Fastest
<1>6. Past'
  BY <1>1, <1>2, ReturnKnows DEF Past, TypeOK
<1>7. Credit'
  BY <1>1, <1>3, <1>4, ReturnKnows, QuietStep DEF TypeOK
<1> QED BY <1>4, <1>5, <1>6, <1>7

LEMMA TickStep ==
  ASSUME IsFiniteSet(Goroutines), IInv, Tick
  PROVE  IInv'
<1> USE DEF IInv
<1>1. /\ now \in 0..MaxTime /\ now < MaxTime /\ now' = now + 1
      /\ UNCHANGED <<fields, pc, locals, admitted, resets, rewound>>
  BY DEF Tick, TypeOK
<1>2. now' \in 0..MaxTime /\ now <= now' /\ MaxTime \in Nat
  BY <1>1, ConfigAssumption
<1>3. TypeOK'
  BY <1>1, <1>2 DEF TypeOK, fields, locals, refill, take
<1>4. Phases'
  <2>1. SUFFICES ASSUME NEW g \in Goroutines, pc[g] = "claim", to[g] <= now
                 PROVE  to[g] <= now'
    BY <1>1 DEF Phases, locals, refill, take, Fastest
  <2>2. to[g] \in 0..MaxTime /\ now \in Nat /\ now' \in Nat
    BY <1>1, <1>2 DEF TypeOK
  <2> QED BY <2>1, <2>2, <1>2
<1>5. Past'
  BY <1>1, <1>2 DEF Past, TypeOK, fields, locals
<1>6. Credit'
  BY <1>1 DEF Credit, Tokens, Pending, Paid, Fastest, fields, locals, refill
<1> QED BY <1>3, <1>4, <1>5, <1>6

LEMMA StutterStep ==
  ASSUME IInv, UNCHANGED vars
  PROVE  IInv'
<1> USE DEF vars, fields, locals, refill, take, history
<1> QED BY DEF IInv, TypeOK, Phases, Past, Credit, Tokens, Pending, Paid, Fastest

-----------------------------------------------------------------------------

LEMMA InitHolds ==
  ASSUME IsFiniteSet(Goroutines), Init
  PROVE  IInv
<1>1. PICK zero \in {[g \in Goroutines |-> 0]} :
        arg = zero /\ clk = zero /\ from = zero /\ add = zero /\ to = zero
          /\ seen = zero /\ tries = zero
  BY DEF Init
<1>2. /\ 0 \in 0..MaxTime /\ 0 \in 0..BatchSize /\ 0 \in 0..MaxTokens
      /\ MaxTokens \in 0..MaxTokens /\ MaxTokens \in Nat
  BY ConfigAssumption
<1>3. TypeOK
  BY <1>1, <1>2 DEF Init, TypeOK, Labels, Methods
<1>4. Phases /\ Past
  BY <1>1 DEF Init, Phases, Past
<1>5. Credit
  <2>1. Pending(pc, add) = 0
    <3>1. Paid(pc, add) = {}
      BY DEF Init, Paid
    <3> QED BY <3>1, FS_EmptySet DEF Pending
  <2>2. Tokens - MaxTokens * (1 + resets) = 0
    BY <1>2, <2>1 DEF Init, Tokens
  <2>3. Fastest \in Nat
    BY FastestRate
  <2>4. Fastest * 0 = 0
    BY <2>3
  <2> QED BY <2>2, <2>4 DEF Init, Credit
<1> QED BY <1>3, <1>4, <1>5 DEF IInv

LEMMA Inductive ==
  ASSUME IsFiniteSet(Goroutines), IInv, [Next]_vars
  PROVE  IInv'
<1>1. CASE Tick
  BY <1>1, TickStep
<1>2. ASSUME NEW g \in Goroutines, Step(g)
      PROVE  IInv'
  <2>1. CASE Call(g, "Allow", 1) \/ Call(g, "Reserve", 1)
    BY <2>1, CallStep DEF Methods
  <2>2. CASE \E n \in 1..MaxTokens : Call(g, "AllowN", n)
    <3>1. 1..MaxTokens \subseteq Nat
      BY ConfigAssumption
    <3> QED BY <2>2, <3>1, CallStep DEF Methods
  <2> QED BY <1>2, <2>1, <2>2, LoadLastStep, LoadThresholdStep, LoadRateStep, ClaimStep,
             AddStep, TakeNStep, LoadStep, CasStep, SetThresholdStep, ResetStep,
             ReadClockStep, StampStep, SetRateStep DEF Step
<1>3. CASE UNCHANGED vars
  BY <1>3, StutterStep
<1> QED BY <1>1, <1>2, <1>3 DEF Next

LEMMA InvariantHolds ==
  ASSUME IsFiniteSet(Goroutines)
  PROVE  Spec => []IInv
<1>1. Init => IInv
  BY InitHolds
<1>2. IInv /\ [Next]_vars => IInv'
  BY Inductive
<1> QED BY <1>1, <1>2, PTL DEF Spec

\* Whatever the interleaving of any number of goroutines, the bucket holds
\* between none and MaxTokens tokens, and lastRefill is no time to come.
THEOREM TypeCorrect ==
  ASSUME IsFiniteSet(Goroutines)
  PROVE  Spec => []TypeOK
<1>1. IInv => TypeOK
  BY DEF IInv
<1> QED BY <1>1, InvariantHolds, PTL

\* The limiter never admits more than time has paid for, whatever the bucket,
\* the batch and the rates: a refill claims the time before it adds the tokens.
THEOREM RespectsRate ==
  ASSUME IsFiniteSet(Goroutines)
  PROVE  Spec => []RateRespected
<1>1. ASSUME IInv
      PROVE  RateRespected
  <2> DEFINE x == Tokens - MaxTokens * (1 + resets)
             y == admitted - MaxTokens * (1 + resets)
  <2>1. Pending(pc, add) \in Nat /\ Fastest \in Nat
    BY PendingType, FastestRate
  <2>2. x \in Int /\ y \in Int /\ y <= x
    BY <1>1, <2>1, ConfigAssumption DEF IInv, TypeOK, Tokens
  <2>3. Fastest * x <= lastRefill + rewound
    BY <1>1 DEF IInv, Credit
  <2>4. lastRefill \in Int /\ rewound \in Int /\ now \in Int /\ lastRefill <= now
    BY <1>1 DEF IInv, TypeOK, Past
  <2> HIDE DEF x, y
  <2>5. Fastest * y <= Fastest * x
    BY <2>1, <2>2, ProductMonotonic
  <2>6. Fastest * x \in Int /\ Fastest * y \in Int
    BY <2>1, <2>2
  <2>7. Fastest * y <= now + rewound
    BY <2>3, <2>4, <2>5, <2>6
  <2> QED BY <2>7 DEF RateRespected, y
<1> QED BY <1>1, InvariantHolds, PTL
=============================================================================
