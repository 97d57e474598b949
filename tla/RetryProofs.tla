---------------------------- MODULE RetryProofs ----------------------------
(***************************************************************************)
(* What retries guarantee, for every value of the constants.  The first    *)
(* part is about Retrying, with the arithmetic of Backoff and the options  *)
(* of Configuration: any number of options of any kind, in any order, any  *)
(* width of the integers, any requests and outcomes.  The second is about  *)
(* RetryBudget: any number of callers and any maximum, window and          *)
(* interleaving.                                                           *)
(***************************************************************************)
EXTENDS Retrying, RetryBudget, FiniteSetTheorems, WellFoundedInduction, TLAPS

-----------------------------------------------------------------------------
(* Numbers *)

\* The order of the naturals.
Less == {p \in Nat \X Nat : p[1] < p[2]}

\* Every set of naturals has an element with none below it.
LEMMA LessIsWellFounded == IsWellFoundedOn(Less, Nat)
<1>1. Less = OpToRel(<, Nat)
  BY DEF Less, OpToRel
<1> QED BY <1>1, NatLessThanWellFounded

\* A set of naturals that is not empty has a least element.
LEMMA FirstOne ==
  ASSUME NEW S, S \subseteq Nat, S # {}
  PROVE  \E n \in S : \A m \in S : n <= m
<1>1. PICK n \in S : \A m \in S : ~ (<<m, n>> \in Less)
  BY LessIsWellFounded, WFMin
<1>2. \A l, m \in Nat : <<l, m>> \in Less <=> l < m
  BY DEF Less
<1>3. ASSUME NEW m \in S
      PROVE  n <= m
  <2>1. ~ (<<m, n>> \in Less)
    BY <1>1
  <2>2. m \in Nat /\ n \in Nat
    OBVIOUS
  <2> QED BY <1>2, <2>1, <2>2
<1> QED BY <1>3

\* Min and Max of two or three numbers.
LEMMA LeastIs ==
  ASSUME NEW m \in Int, NEW n \in Int
  PROVE  Least(m, n) = IF m <= n THEN m ELSE n
BY DEF Least, Min

\* Max of two numbers.
LEMMA MaxOfTwo ==
  ASSUME NEW m \in Int, NEW n \in Int
  PROVE  Max({m, n}) = IF m >= n THEN m ELSE n
BY DEF Max

\* Max of three numbers.
LEMMA MaxOfThree ==
  ASSUME NEW l \in Int, NEW m \in Int, NEW n \in Int
  PROVE  /\ Max({l, m, n}) \in {l, m, n}
         /\ Max({l, m, n}) >= l /\ Max({l, m, n}) >= m /\ Max({l, m, n}) >= n
<1>1. \E x \in {l, m, n} : \A y \in {l, m, n} : x >= y
  <2>1. CASE l >= m /\ l >= n
    BY <2>1
  <2>2. CASE m >= l /\ m >= n
    BY <2>2
  <2>3. CASE n >= l /\ n >= m
    BY <2>3
  <2> QED BY <2>1, <2>2, <2>3
<1> QED BY <1>1 DEF Max

-----------------------------------------------------------------------------
(* The backoff strategies *)

\* The function that pow defines recursively exists, for every exponent.
PowFcn(base, n, f) ==
  f = [i \in 0..n |-> IF i = 0 THEN 1 ELSE f[i - 1] * base]

\* There is such a function.
LEMMA PowFcnExists ==
  ASSUME NEW base \in Int, NEW n \in Nat
  PROVE  \E f \in [0..n -> Int] : PowFcn(base, n, f)
<1> DEFINE Fails == {m \in Nat : ~ \E f \in [0..m -> Int] : PowFcn(base, m, f)}
<1> SUFFICES ASSUME Fails # {} PROVE FALSE
  OBVIOUS
<1>1. PICK m \in Fails : \A l \in Fails : m <= l
  BY FirstOne
<1>2. CASE m = 0
  <2> DEFINE f == [i \in 0..0 |-> 1]
  <2>1. f \in [0..m -> Int] /\ PowFcn(base, m, f)
    BY <1>2 DEF PowFcn
  <2> QED BY <2>1
<1>3. CASE m # 0
  <2>1. m - 1 \in Nat /\ m - 1 \notin Fails
    BY <1>1, <1>3
  <2>2. PICK f \in [0..(m - 1) -> Int] : PowFcn(base, m - 1, f)
    BY <2>1
  <2> DEFINE g == [i \in 0..m |-> IF i = m THEN f[m - 1] * base ELSE f[i]]
  <2>3. g \in [0..m -> Int]
    <3>1. f[m - 1] \in Int
      BY <2>1
    <3>2. \A i \in 0..m : i = m \/ i \in 0..(m - 1)
      BY <1>1
    <3> QED BY <3>1, <3>2
  <2>4. \A i \in 0..m : g[i] = IF i = 0 THEN 1 ELSE g[i - 1] * base
    <3> TAKE i \in 0..m
    <3>1. CASE i = m
      BY <1>3, <2>1, <3>1
    <3>2. CASE i # m
      <4>1. i \in 0..(m - 1)
        BY <3>2
      <4>2. f[i] = IF i = 0 THEN 1 ELSE f[i - 1] * base
        BY <2>2, <4>1 DEF PowFcn
      <4> QED BY <3>2, <4>1, <4>2
    <3> QED BY <3>1, <3>2
  <2>5. PowFcn(base, m, g)
    BY <2>4 DEF PowFcn
  <2> QED BY <2>3, <2>5
<1> QED BY <1>2, <1>3

\* What pow returns, as a sequence of products.
LEMMA PowIs ==
  ASSUME NEW base \in Int, NEW n \in Nat
  PROVE  \E f \in [0..n -> Int] :
           /\ \A i \in 0..n : f[i] = IF i = 0 THEN 1 ELSE f[i - 1] * base
           /\ pow(base, n) = f[n]
<1> DEFINE result == CHOOSE f : PowFcn(base, n, f)
<1>1. PICK f \in [0..n -> Int] : PowFcn(base, n, f)
  BY PowFcnExists
<1>2. PowFcn(base, n, result)
  BY <1>1
<1>3. pow(base, n) = result[n]
  BY DEF pow, PowFcn
<1> HIDE DEF result
<1>4. DOMAIN result = 0..n /\ \A i \in 0..n : result[i] = IF i = 0 THEN 1 ELSE result[i - 1] * base
  BY <1>2 DEF PowFcn
<1>5. \A i \in 0..n : result[i] \in Int
  <2> DEFINE Fails == {i \in 0..n : result[i] \notin Int}
  <2> SUFFICES ASSUME Fails # {} PROVE FALSE
    OBVIOUS
  <2>1. Fails \subseteq Nat
    OBVIOUS
  <2>2. PICK i \in Fails : \A j \in Fails : i <= j
    BY <2>1, FirstOne
  <2>3. CASE i = 0
    BY <1>4, <2>2, <2>3
  <2>4. CASE i # 0
    <3>1. i - 1 \in 0..n /\ i - 1 \notin Fails
      BY <2>2, <2>4
    <3>2. result[i - 1] * base \in Int
      BY <3>1
    <3> QED BY <1>4, <2>2, <2>4, <3>2
  <2> QED BY <2>3, <2>4
<1>6. result \in [0..n -> Int]
  BY <1>2, <1>4, <1>5 DEF PowFcn
<1> QED BY <1>3, <1>4, <1>6

\* A power of an integer is an integer.
LEMMA PowType ==
  ASSUME NEW base \in Int, NEW n \in Nat
  PROVE  pow(base, n) \in Int
<1>1. \E f \in [0..n -> Int] : pow(base, n) = f[n]
  BY PowIs, Zenon
<1> QED BY <1>1

\* Products are monotone.
LEMMA ProductsGrow ==
  ASSUME NEW a \in Nat, NEW b \in Nat, NEW c \in Nat, NEW d \in Nat, a <= b, c <= d
  PROVE  a * c \in Nat /\ b * d \in Nat /\ a * c <= b * d
<1>1. a * c \in Nat /\ b * c \in Nat /\ b * d \in Nat
  OBVIOUS
<1>2. (b - a) * c \in Nat /\ b * (d - c) \in Nat
  OBVIOUS
<1>3. b * c = a * c + (b - a) * c
  OBVIOUS
<1>4. b * d = b * c + b * (d - c)
  OBVIOUS
<1> QED BY <1>1, <1>2, <1>3, <1>4

\* Powers of a larger base are no smaller, and of a positive one are positive.
LEMMA PowGrows ==
  ASSUME NEW a \in Nat \ {0}, NEW b \in Nat, a <= b, NEW n \in Nat
  PROVE  pow(a, n) \in Nat \ {0} /\ pow(b, n) \in Nat /\ pow(a, n) <= pow(b, n)
<1>1. PICK f \in [0..n -> Int] :
        /\ \A i \in 0..n : f[i] = IF i = 0 THEN 1 ELSE f[i - 1] * a
        /\ pow(a, n) = f[n]
  <2>1. a \in Int
    OBVIOUS
  <2> QED BY <2>1, PowIs, Zenon
<1>2. PICK g \in [0..n -> Int] :
        /\ \A i \in 0..n : g[i] = IF i = 0 THEN 1 ELSE g[i - 1] * b
        /\ pow(b, n) = g[n]
  <2>1. b \in Int
    OBVIOUS
  <2> QED BY <2>1, PowIs, Zenon
<1> DEFINE Fails == {i \in 0..n : ~ (f[i] \in Nat \ {0} /\ g[i] \in Nat /\ f[i] <= g[i])}
<1>3. ASSUME Fails # {} PROVE FALSE
  <2>1. Fails \subseteq Nat
    OBVIOUS
  <2>2. PICK i \in Fails : \A j \in Fails : i <= j
    BY <1>3, <2>1, FirstOne
  <2>3. CASE i = 0
    BY <1>1, <1>2, <2>2, <2>3
  <2>4. CASE i # 0
    <3>1. i - 1 \in 0..n /\ i - 1 \notin Fails
      BY <2>2, <2>4
    <3>2. f[i] = f[i - 1] * a /\ g[i] = g[i - 1] * b
      BY <1>1, <1>2, <2>2, <2>4
    <3>3. f[i - 1] \in Nat \ {0} /\ g[i - 1] \in Nat /\ f[i - 1] <= g[i - 1]
      BY <3>1
    <3>4. f[i - 1] * a \in Nat \ {0}
      BY <3>3, ProductsGrow
    <3>5. f[i - 1] * a <= g[i - 1] * b /\ g[i - 1] * b \in Nat
      BY <3>3, ProductsGrow
    <3> QED BY <2>2, <3>2, <3>4, <3>5
  <2> QED BY <2>3, <2>4
<1>4. n \notin Fails
  BY <1>3
<1> QED BY <1>1, <1>2, <1>4

-----------------------------------------------------------------------------
\* Division by a positive number.
LEMMA Division ==
  ASSUME NEW n \in Int, NEW d \in Nat \ {0}
  PROVE  /\ n \div d \in Int /\ n % d \in 0..(d - 1)
         /\ n = d * (n \div d) + (n % d)
OBVIOUS

\* What a quotient is compared with can be multiplied instead.
LEMMA DivisionAtLeast ==
  ASSUME NEW n \in Int, NEW d \in Nat \ {0}, NEW q \in Int, d * q <= n
  PROVE  q <= n \div d
<1> DEFINE k == n \div d
<1>1. k \in Int /\ n % d \in 0..(d - 1) /\ n = d * k + (n % d)
  BY Division
<1> HIDE DEF k
<1> SUFFICES ASSUME k + 1 <= q PROVE FALSE
  BY <1>1 DEF k
<1>2. d * (q - (k + 1)) \in Nat
  BY <1>1
<1>3. d * q = d * (q - (k + 1)) + d * k + d
  BY <1>1
<1> QED BY <1>1, <1>2, <1>3

\* The same from above.
LEMMA DivisionAtMost ==
  ASSUME NEW n \in Int, NEW d \in Nat \ {0}, NEW q \in Int, n <= d * q
  PROVE  n \div d <= q
<1> DEFINE k == n \div d
<1>1. k \in Int /\ n % d \in 0..(d - 1) /\ n = d * k + (n % d)
  BY Division
<1> HIDE DEF k
<1> SUFFICES ASSUME q + 1 <= k PROVE FALSE
  BY <1>1 DEF k
<1>2. d * (k - (q + 1)) \in Nat
  BY <1>1
<1>3. d * k = d * (k - (q + 1)) + d * q + d
  BY <1>1
<1> QED BY <1>1, <1>2, <1>3

\* Quotient truncates towards zero.
LEMMA QuotientType ==
  ASSUME NEW n \in Int, NEW d \in Nat \ {0}
  PROVE  Quotient(n, d) \in Int /\ (n >= 0 => Quotient(n, d) = n \div d /\ Quotient(n, d) \in Nat)
<1>1. n \div d \in Int /\ (-n) \div d \in Int
  BY Division
<1>2. n >= 0 => n \div d \in Nat
  BY <1>1, DivisionAtLeast
<1> QED BY <1>1, <1>2 DEF Quotient

\* Durations wrap.
LEMMA WrapType ==
  ASSUME NEW n \in Int
  PROVE  Wrap(n) \in Durations /\ (n \in Durations => Wrap(n) = n)
<1>1. Half \in Nat \ {0} /\ 2 * Half \in Nat \ {0}
  BY BackoffAssumption
<1>2. (n + Half) % (2 * Half) \in 0..(2 * Half - 1)
  BY <1>1, Division
<1>3. ASSUME n \in Durations PROVE (n + Half) % (2 * Half) = n + Half
  <2>1. n + Half \in 0..(2 * Half - 1)
    BY <1>1, <1>3 DEF Durations
  <2> QED BY <1>1, <2>1
<1> QED BY <1>1, <1>2, <1>3 DEF Wrap, Durations

\* A share of a number is no more than the number.
LEMMA SharesAreLess ==
  ASSUME NEW n \in Nat, NEW share \in 0..Unit
  PROVE  Fractions(n * share) \subseteq 0..n
<1>1. Unit \in Nat \ {0} /\ share \in Nat /\ share <= Unit
  BY BackoffAssumption
<1>2. n * share \in Nat /\ n * share <= n * Unit
  BY <1>1, ProductsGrow
<1>3. n * share - 1 <= Unit * n
  BY <1>1, <1>2
<1>4. (n * share - 1) \div Unit <= n
  BY <1>1, <1>2, <1>3, DivisionAtMost
<1> DEFINE m == n * share
<1>5. m \in Nat /\ (m - 1) \div Unit <= n
  BY <1>2, <1>4
<1> HIDE DEF m
<1>6. (m - 1) \div Unit \in Int
  BY <1>1, <1>5, Division
<1>7. Fractions(m) \subseteq 0..n
  BY <1>5, <1>6 DEF Fractions
<1> QED BY <1>7 DEF m

\* What random numbers lead to is an integer.
LEMMA FractionsType ==
  ASSUME NEW n \in Int
  PROVE  Fractions(n) \subseteq Int
BY DEF Fractions

\* A jitter is a share.
LEMMA ClampType ==
  ASSUME NEW f \in Int
  PROVE  clampJitter(f) \in 0..Unit
<1>1. Unit \in Nat
  BY BackoffAssumption
<1>2. Least(f, Unit) = IF f <= Unit THEN f ELSE Unit
  BY <1>1, LeastIs
<1> QED BY <1>1, <1>2 DEF clampJitter

\* What a strategy reads.
Backoffs(p) ==
  /\ {p.initialBackoff, p.maxBackoff} \subseteq Durations
  /\ {p.backoffMultiplier, p.jitter, p.maxRetries} \subseteq Int

\* When the bounds of a client's delays are promised.
Ordered(p) == p.initialBackoff \in 1..p.maxBackoff /\ 2 * p.maxBackoff < Half

\* What jitter adds to a backoff.
LEMMA JitteredBounds ==
  ASSUME NEW p, Backoffs(p), NEW b \in Int, NEW d \in Jittered(b, p)
  PROVE  /\ d \in Durations
         /\ Ordered(p) /\ b \in 0..p.maxBackoff => d \in b..p.maxBackoff
<1>1. clampJitter(p.jitter) \in 0..Unit /\ Half \in Nat /\ Unit \in Nat
  BY ClampType, BackoffAssumption DEF Backoffs
<1>2. PICK a \in Fractions(b * clampJitter(p.jitter)) : d = Least(Wrap(b + a), p.maxBackoff)
  BY DEF Jittered
<1>3. a \in Int
  <2>1. b * clampJitter(p.jitter) \in Int
    BY <1>1
  <2> QED BY <2>1, FractionsType
<1>4. Wrap(b + a) \in Durations /\ (b + a \in Durations => Wrap(b + a) = b + a)
  BY <1>3, WrapType
<1>5. p.maxBackoff \in Durations /\ Durations \subseteq Int
  BY <1>1 DEF Backoffs, Durations
<1>6. d = IF Wrap(b + a) <= p.maxBackoff THEN Wrap(b + a) ELSE p.maxBackoff
  BY <1>2, <1>4, <1>5, LeastIs
<1>7. ASSUME Ordered(p), b \in 0..p.maxBackoff
      PROVE  d \in b..p.maxBackoff
  <2>1. b \in Nat /\ b <= p.maxBackoff
    BY <1>5, <1>7
  <2>2. a \in 0..b
    BY <1>1, <1>2, <2>1, SharesAreLess
  <2>3. b + a \in Durations
    BY <1>1, <1>5, <1>7, <2>2 DEF Ordered, Durations
  <2>4. Wrap(b + a) = b + a
    BY <1>4, <2>3
  <2>5. d = IF b + a <= p.maxBackoff THEN b + a ELSE p.maxBackoff
    BY <1>6, <2>4
  <2>6. p.maxBackoff \in Int /\ a \in Nat
    BY <1>1, <1>5, <2>2 DEF Durations
  <2> QED BY <2>1, <2>5, <2>6
<1> QED BY <1>4, <1>5, <1>6, <1>7

\* The exponential strategy: within the backoffs, or below the initial one if the
\* multiplier makes the delays shrink.
LEMMA ExponentialBounds ==
  ASSUME NEW p, Backoffs(p), NEW n \in Nat, NEW d \in ExponentialJitter(n, p)
  PROVE  /\ d \in Durations
         /\ Ordered(p) => d \in 0..p.maxBackoff
         /\ Ordered(p) /\ p.backoffMultiplier >= Unit => d >= p.initialBackoff
<1> DEFINE e == Least(n, MaxExponent)
           scale == pow(Unit, e)
           grown == Quotient(p.initialBackoff * pow(p.backoffMultiplier, e), scale)
<1>1. MaxExponent \in Nat /\ Unit \in Nat \ {0} /\ Half \in Nat \ {0}
  BY BackoffAssumption
<1>2. e \in Nat
  BY <1>1, LeastIs
<1>3. p.initialBackoff \in Int /\ p.maxBackoff \in Int /\ p.backoffMultiplier \in Int
  BY <1>1 DEF Backoffs, Durations
<1>4. PICK b \in ToDuration(grown) : d \in Jittered(Capped(b, p.maxBackoff), p)
  BY DEF ExponentialJitter
<1> HIDE DEF e
<1>5. scale \in Nat \ {0} /\ pow(p.backoffMultiplier, e) \in Int
  <2>1. Unit \in Nat \ {0} /\ Unit \in Nat /\ Unit <= Unit
    BY <1>1
  <2> QED BY <1>2, <1>3, <2>1, PowGrows, PowType
<1>6. grown \in Int
  <2>1. p.initialBackoff * pow(p.backoffMultiplier, e) \in Int
    BY <1>3, <1>5
  <2> HIDE DEF scale
  <2> QED BY <1>5, <2>1, QuotientType
<1>7. ASSUME p.initialBackoff >= 1, p.backoffMultiplier >= Unit
      PROVE  grown >= p.initialBackoff
  <2> DEFINE power == pow(p.backoffMultiplier, e)
  <2>1. power \in Nat /\ scale <= power
    BY <1>1, <1>2, <1>3, <1>7, PowGrows
  <2> HIDE DEF power, scale
  <2>2. p.initialBackoff * scale <= p.initialBackoff * power /\ p.initialBackoff * power \in Nat
    BY <1>3, <1>5, <1>7, <2>1, ProductsGrow DEF scale
  <2>3. p.initialBackoff <= (p.initialBackoff * power) \div scale
    BY <1>3, <1>5, <2>2, DivisionAtLeast DEF scale
  <2> QED BY <1>5, <2>2, <2>3, QuotientType DEF power, scale
<1> HIDE DEF grown
<1>8. b \in Int /\ (b = grown \/ grown >= Half \/ grown < -Half)
  BY <1>1, <1>4, <1>6 DEF ToDuration
<1> DEFINE c == Capped(b, p.maxBackoff)
<1>9. c \in Int /\ (p.maxBackoff >= 0 => c \in 0..p.maxBackoff)
  BY <1>3, <1>8 DEF Capped
<1>10. ASSUME Ordered(p), p.backoffMultiplier >= Unit
       PROVE  c >= p.initialBackoff
  <2>1. grown >= p.initialBackoff /\ p.initialBackoff <= p.maxBackoff /\ p.initialBackoff >= 1
    BY <1>3, <1>7, <1>10 DEF Ordered
  <2>2. p.maxBackoff < Half
    BY <1>1, <1>3 DEF Backoffs, Durations
  <2>3. b \in {grown, -Half, Half - 1}
    BY <1>1, <1>4, <1>6, <2>1 DEF ToDuration
  <2> QED BY <1>1, <1>3, <1>6, <2>1, <2>2, <2>3 DEF Capped
<1> HIDE DEF c
<1>11. /\ d \in Durations
       /\ Ordered(p) /\ c \in 0..p.maxBackoff => d \in c..p.maxBackoff
  BY <1>4, <1>9, JitteredBounds DEF c
<1> QED BY <1>1, <1>3, <1>9, <1>10, <1>11 DEF Ordered

\* The decorrelated strategy: within the backoffs.
LEMMA DecorrelatedBounds ==
  ASSUME NEW p, Backoffs(p), NEW n \in Nat, NEW d \in DecorrelatedJitter(n, p)
  PROVE  /\ d \in Durations
         /\ Ordered(p) => d \in p.initialBackoff..p.maxBackoff
<1> DEFINE base == p.initialBackoff
           e == Least(n, MaxDecorrelated)
           upper == Max({base, Capped(base * pow(3, e), p.maxBackoff)})
<1>1. MaxDecorrelated \in Nat /\ Unit \in Nat \ {0} /\ Half \in Nat \ {0}
  BY BackoffAssumption
<1>2. base \in Durations /\ p.maxBackoff \in Durations /\ base \in Int /\ p.maxBackoff \in Int
  BY <1>1 DEF Backoffs, Durations
<1>3. CASE n = 0
  BY <1>2, <1>3 DEF DecorrelatedJitter, Ordered
<1>4. CASE n # 0
  <2>1. PICK r \in Fractions((upper - base) * Unit) : d = Capped(base + r, p.maxBackoff)
    BY <1>4 DEF DecorrelatedJitter
  <2>2. e \in Nat
    BY <1>1, LeastIs
  <2> HIDE DEF e
  <2>3. base * pow(3, e) \in Int
    BY <1>2, <2>2, PowType
  <2>4. Capped(base * pow(3, e), p.maxBackoff) \in Int
        /\ Capped(base * pow(3, e), p.maxBackoff) <= p.maxBackoff
    BY <1>2, <2>3 DEF Capped
  <2>5. upper \in Int /\ upper >= base /\ (upper <= base \/ upper <= p.maxBackoff)
    BY <1>2, <2>4, MaxOfTwo
  <2> HIDE DEF upper
  <2>6. r \in 0..(upper - base)
    <3>1. upper - base \in Nat /\ Unit \in 0..Unit
      BY <1>1, <1>2, <2>5
    <3> QED BY <2>1, <3>1, SharesAreLess
  <2>7. base + r >= base /\ base + r <= upper /\ r \in Int
    BY <1>2, <2>5, <2>6
  <2>8. d \in Durations
    BY <1>1, <1>2, <2>1, <2>5, <2>7 DEF Capped, Durations
  <2>9. ASSUME Ordered(p) PROVE d \in base..p.maxBackoff
    BY <1>2, <2>1, <2>5, <2>7, <2>9 DEF Capped, Ordered
  <2> QED BY <2>8, <2>9
<1> QED BY <1>3, <1>4

\* The least delay of a strategy.
Shortest(p) == IF p.backoffMultiplier < Unit THEN 0 ELSE p.initialBackoff

\* Either strategy.
LEMMA CalculateBounds ==
  ASSUME NEW p, Backoffs(p), NEW n \in Nat, NEW d \in Calculate(n, p)
  PROVE  /\ d \in Durations
         /\ Ordered(p) => d \in Shortest(p)..p.maxBackoff
<1>1. /\ p.initialBackoff \in Int /\ p.maxBackoff \in Int /\ p.backoffMultiplier \in Int
      /\ Unit \in Int /\ Durations \subseteq Int
  BY BackoffAssumption DEF Backoffs, Durations
<1>2. CASE p.backoffStrategy = "DecorrelatedJitter"
  <2>1. d \in DecorrelatedJitter(n, p)
    BY <1>2 DEF Calculate
  <2>2. d \in Durations /\ (Ordered(p) => d \in p.initialBackoff..p.maxBackoff)
    BY <2>1, DecorrelatedBounds
  <2> QED BY <1>1, <2>2 DEF Ordered, Shortest
<1>3. CASE p.backoffStrategy # "DecorrelatedJitter"
  <2>1. d \in ExponentialJitter(n, p)
    BY <1>3 DEF Calculate
  <2>2. /\ d \in Durations
        /\ Ordered(p) => d \in 0..p.maxBackoff
        /\ Ordered(p) /\ p.backoffMultiplier >= Unit => d >= p.initialBackoff
    BY <2>1, ExponentialBounds
  <2> QED BY <1>1, <2>2 DEF Ordered, Shortest
<1> QED BY <1>2, <1>3

\* What the header is understood as.
LEMMA HeaderBounds ==
  ASSUME NEW h \in [form : STRING, n : Int]
  PROVE  /\ parseRetryAfter(h) \in Durations
         /\ h.form = "seconds" /\ h.n > 0 /\ h.n * Second < Half =>
              parseRetryAfter(h) = Least(h.n * Second, Hour) /\ parseRetryAfter(h) # 0
         /\ h.form = "date" /\ h.n \in 1..Hour => parseRetryAfter(h) = h.n
         /\ h.form \notin {"seconds", "date"} => parseRetryAfter(h) = 0
         /\ h.form = "seconds" /\ h.n <= 0 => parseRetryAfter(h) = 0
         /\ h.form = "date" /\ h.n \notin 1..Hour => parseRetryAfter(h) = 0
<1>1. Half \in Nat \ {0} /\ Second \in Nat \ {0} /\ Hour \in Nat \ {0} /\ Hour < Half
  BY BackoffAssumption
<1>2. h.n \in Int /\ h.n * Second \in Int
  BY <1>1
<1>3. 0 \in Durations /\ \A i \in 1..Hour : i \in Durations
  BY <1>1 DEF Durations
<1>4. CASE h.form = "seconds" /\ h.n > 0
  <2> DEFINE length == h.n * Second
  <2>1. parseRetryAfter(h) = Least(Wrap(length), Hour)
    BY <1>4 DEF parseRetryAfter
  <2>2. Wrap(length) \in Durations /\ (length \in Durations => Wrap(length) = length)
    BY <1>2, WrapType
  <2>3. Wrap(length) \in Int /\ Hour \in Int
    BY <1>1, <2>2 DEF Durations
  <2>4. parseRetryAfter(h) = IF Wrap(length) <= Hour THEN Wrap(length) ELSE Hour
    BY <2>1, <2>3, LeastIs
  <2>5. parseRetryAfter(h) \in Durations
    BY <1>1, <1>3, <2>2, <2>4
  <2>6. length >= 1
    <3>1. (h.n - 1) * Second \in Nat
      BY <1>1, <1>2, <1>4
    <3>2. length = (h.n - 1) * Second + Second
      BY <1>1, <1>2
    <3> QED BY <1>1, <3>1, <3>2
  <2> HIDE DEF length
  <2>7. ASSUME length < Half
        PROVE  parseRetryAfter(h) = Least(length, Hour) /\ parseRetryAfter(h) # 0
    <3>1. length \in Int
      BY <1>2 DEF length
    <3>2. Wrap(length) = length
      BY <1>1, <2>2, <2>6, <2>7, <3>1 DEF Durations
    <3>3. parseRetryAfter(h) # 0
      BY <1>1, <2>4, <2>6, <3>1, <3>2
    <3> QED BY <2>1, <3>2, <3>3
  <2> QED BY <1>4, <2>5, <2>7 DEF length
<1>5. CASE h.form = "date" /\ h.n \in 1..Hour
  BY <1>3, <1>5 DEF parseRetryAfter
<1>6. CASE ~ (h.form = "seconds" /\ h.n > 0) /\ ~ (h.form = "date" /\ h.n \in 1..Hour)
  <2>1. parseRetryAfter(h) = 0
    BY <1>6 DEF parseRetryAfter
  <2> QED BY <1>2, <1>3, <1>6, <2>1
<1> QED BY <1>4, <1>5, <1>6

\* The retries of a policy: the header or the strategy decides on the delay.
LEMMA PolicyDelaysBounds ==
  ASSUME NEW p, Backoffs(p), NEW n \in Nat, NEW o \in Outcome, NEW method,
         NEW d \in PolicyDelays(n, o, method, p)
  PROVE  /\ d \in Durations
         /\ n < p.maxRetries
         /\ o.error \/ o.status >= 500 \/ o.status = 429
         /\ method = "POST" => o.error
         /\ LET after == o.retryAfter
            IN  CASE ~o.error /\ after.form = "seconds" /\ after.n > 0 ->
                       after.n * Second < Half => d = Least(after.n * Second, Hour)
                  [] ~o.error /\ after.form = "date" /\ after.n \in 1..Hour -> d = after.n
                  [] OTHER -> Ordered(p) => d \in Shortest(p)..p.maxBackoff
<1> DEFINE h == o.retryAfter
           after == IF o.error THEN 0 ELSE parseRetryAfter(h)
<1>1. p.maxRetries \in Int /\ o.error \in BOOLEAN /\ h \in [form : STRING, n : Int]
  BY DEF Backoffs, Outcome
<1>2. /\ ~ (n >= p.maxRetries) /\ ~Refuses(o, method)
      /\ Failed(o) \/ o.status = 429
      /\ d \in IF after = 0 THEN Calculate(n, p) ELSE {after}
  BY DEF PolicyDelays
<1>3. n < p.maxRetries
  BY <1>1, <1>2
<1>4. /\ o.error \/ o.status >= 500 \/ o.status = 429
      /\ method = "POST" => o.error
  BY <1>2 DEF Failed, Refuses
<1>5. after = 0 => d \in Durations /\ (Ordered(p) => d \in Shortest(p)..p.maxBackoff)
  BY <1>2, CalculateBounds
<1>6. after # 0 => d = parseRetryAfter(h) /\ ~o.error
  BY <1>2
<1> HIDE DEF h
<1>7. d \in Durations
  BY <1>1, <1>5, <1>6, HeaderBounds
<1>8. CASE ~o.error /\ h.form = "seconds" /\ h.n > 0
  <2>1. h.n * Second < Half => d = Least(h.n * Second, Hour)
    BY <1>1, <1>2, <1>8, HeaderBounds
  <2> QED BY <1>3, <1>4, <1>7, <1>8, <2>1 DEF h
<1>9. CASE ~o.error /\ h.form = "date" /\ h.n \in 1..Hour
  <2>1. d = h.n
    BY <1>1, <1>2, <1>9, HeaderBounds
  <2> QED BY <1>3, <1>4, <1>7, <1>9, <2>1 DEF h
<1>10. CASE /\ ~ (~o.error /\ h.form = "seconds" /\ h.n > 0)
            /\ ~ (~o.error /\ h.form = "date" /\ h.n \in 1..Hour)
  <2>1. after = 0
    <3>1. h.n \in Int
      BY <1>1
    <3> QED BY <1>1, <1>10, <3>1, HeaderBounds
  <2> QED BY <1>3, <1>4, <1>5, <1>7, <1>10, <2>1 DEF h
<1> QED BY <1>8, <1>9, <1>10

\* The HTTP client has the client's timeout.
TimeoutsAgree(c) ==
  c.httpClient # None /\ c.timeout # 0 => c.httpClient.Timeout = c.timeout

\* The fields of a client that requests depend on have their types and agree.
ClientInv ==
  /\ DOMAIN client = DOMAIN Defaults
  /\ Backoffs(client)
  /\ client.jitter \in 0..Unit
  /\ client.retryPolicy \in RetryPolicy \union {None}
  /\ TimeoutsAgree(client)

\* Whoever decides on retries, the client or its policy, has backoffs.
LEMMA RetriesType ==
  ASSUME ClientInv
  PROVE  Backoffs(Retries)
BY DEF ClientInv, Backoffs, Retries, RetryPolicy

\* A delay before a retry is a duration.
LEMMA DelaysType ==
  ASSUME ClientInv, attempt \in Nat, outcome \in Outcome
  PROVE  Delays \subseteq Durations
<1> SUFFICES ASSUME NEW d \in Delays PROVE d \in Durations
  OBVIOUS
<1>1. Backoffs(Retries)
  BY RetriesType
<1>2. CASE client.retryPolicy = None
  <2>1. Retries = client /\ d \in Calculate(attempt, client)
    BY <1>2 DEF Retries, Delays, LegacyDelays
  <2> QED BY <1>1, <2>1, CalculateBounds
<1>3. CASE client.retryPolicy # None
  <2>1. d \in PolicyDelays(attempt, outcome, request.method, Retries)
    BY <1>3 DEF Retries, Delays
  <2> QED BY <1>1, <2>1, PolicyDelaysBounds
<1> QED BY <1>2, <1>3

\* A retry has its reasons, and its delay is within the bounds.
LEMMA DelaysBounds ==
  ASSUME ClientInv, attempt \in Nat, outcome \in Outcome, delay \in Delays
  PROVE  delay \in Durations /\ Justified /\ InBounds
<1>1. Backoffs(Retries)
  BY RetriesType
<1> DEFINE p == Retries
           after == outcome.retryAfter
<1>2. CASE client.retryPolicy = None
  <2>1. p = client
    BY <1>2 DEF Retries
  <2>2. attempt < client.maxRetries /\ Failed(outcome) /\ delay \in Calculate(attempt, client)
    BY <1>2 DEF Delays, LegacyDelays
  <2>3. delay \in Durations /\ (Ordered(client) => delay \in Shortest(client)..client.maxBackoff)
    BY <1>1, <2>1, <2>2, CalculateBounds
  <2>4. Justified
    BY <1>2, <2>1, <2>2 DEF Justified, Failed
  <2>5. InBounds
    BY <1>2, <2>1, <2>3 DEF InBounds, Ordered, Shortest
  <2> QED BY <2>3, <2>4, <2>5
<1>3. CASE client.retryPolicy # None
  <2>1. p = client.retryPolicy
    BY <1>3 DEF Retries
  <2>2. delay \in PolicyDelays(attempt, outcome, request.method, p)
    BY <1>3, <2>1 DEF Delays
  <2> HIDE DEF p
  <2>3. /\ delay \in Durations
        /\ attempt < p.maxRetries
        /\ outcome.error \/ outcome.status >= 500 \/ outcome.status = 429
        /\ request.method = "POST" => outcome.error
        /\ CASE ~outcome.error /\ after.form = "seconds" /\ after.n > 0 ->
                  after.n * Second < Half => delay = Least(after.n * Second, Hour)
             [] ~outcome.error /\ after.form = "date" /\ after.n \in 1..Hour -> delay = after.n
             [] OTHER -> Ordered(p) => delay \in Shortest(p)..p.maxBackoff
    BY <1>1, <2>2, PolicyDelaysBounds DEF p
  <2>4. Justified
    BY <1>3, <2>3 DEF Justified, p
  <2>5. InBounds
    BY <1>3, <2>3 DEF InBounds, Ordered, Shortest, p
  <2> QED BY <2>3, <2>4, <2>5
<1> QED BY <1>2, <1>3

-----------------------------------------------------------------------------
(* The options *)

\* The fields that options may set and that no option treats in a way of its own.
PlainFields ==
  DOMAIN Defaults \ {"limiterRegistry", "limiterKeyFunc", "jitter", "timeout", "httpClient",
                     "middleware", "debug", "logger", "metrics"}

\* The client an option leaves, field by field.
Effect(c, o, d) ==
  /\ DOMAIN d = DOMAIN Defaults
  /\ \A name \in PlainFields : d[name] = IF name \in DOMAIN o THEN o[name] ELSE c[name]
  /\ d.jitter = IF "jitter" \in DOMAIN o THEN clampJitter(o.jitter) ELSE c.jitter
  /\ d.limiterKeyFunc = IF "limiterKeyFunc" \in DOMAIN o THEN o.limiterKeyFunc ELSE c.limiterKeyFunc
  /\ "limiterFor" \in DOMAIN o =>
       d.limiterRegistry =
         RegisterLimiter(IF c.limiterRegistry = None
                           THEN NewRateLimiterRegistry(c.limiterKeyFunc, c.rateLimiter)
                           ELSE c.limiterRegistry, o.limiterFor, o.limiter)
  /\ "limiterKeyFunc" \in DOMAIN o =>
       d.limiterRegistry = IF c.limiterRegistry = None THEN None
                           ELSE NewRateLimiterRegistry(o.limiterKeyFunc, c.rateLimiter)
  /\ "limiterFor" \notin DOMAIN o /\ "limiterKeyFunc" \notin DOMAIN o =>
       d.limiterRegistry = c.limiterRegistry
  /\ TimeoutsAgree(c) => TimeoutsAgree(d)

\* An option that only sets fields.
LEMMA EffectOfFields ==
  ASSUME NEW c, DOMAIN c = DOMAIN Defaults, NEW o,
         DOMAIN o \subseteq DOMAIN Defaults \ {"limiterRegistry", "limiterKeyFunc", "jitter",
                                               "timeout", "httpClient", "middleware"}
  PROVE  Effect(c, o, Applied(c, o))
<1>1. DOMAIN o \intersect {"limiterFor", "limiterKeyFunc", "jitter", "timeout", "httpClient",
                           "newMetrics", "moreMiddleware", "debugSettings", "limiterRegistry"} = {}
  BY DEF Defaults
<1>2. Applied(c, o) = Over(o, c)
  BY <1>1 DEF Applied
<1>3. DOMAIN Over(o, c) = DOMAIN Defaults
  BY DEF Over
<1>4. \A name \in DOMAIN Defaults : Over(o, c)[name] = IF name \in DOMAIN o THEN o[name] ELSE c[name]
  BY DEF Over
<1>5. {"jitter", "limiterKeyFunc", "limiterRegistry", "httpClient", "timeout"} \subseteq DOMAIN Defaults
  BY DEF Defaults
<1> QED BY <1>1, <1>2, <1>3, <1>4, <1>5 DEF Effect, PlainFields, TimeoutsAgree

\* Which names are fields of a client.
LEMMA FieldNames ==
  /\ {"jitter", "limiterKeyFunc", "limiterRegistry", "httpClient", "timeout", "middleware",
      "debug", "logger", "metrics"} \subseteq DOMAIN Defaults
  /\ {"limiterFor", "limiter", "newMetrics", "moreMiddleware", "debugSettings"} \intersect DOMAIN Defaults = {}
BY DEF Defaults

\* The options that do more than that, each with the effect it has.
LEMMA EffectOfLimiterFor ==
  ASSUME NEW c, DOMAIN c = DOMAIN Defaults, NEW o, DOMAIN o = {"limiterFor", "limiter"}
  PROVE  Effect(c, o, Applied(c, o))
<1>1. Applied(c, o) = WithLimiterFor(c, o.limiterFor, o.limiter)
  BY DEF Applied
<1> QED BY <1>1, FieldNames DEF WithLimiterFor, Effect, PlainFields, TimeoutsAgree

\* The key function, and the registry it empties.
LEMMA EffectOfKeyFunc ==
  ASSUME NEW c, DOMAIN c = DOMAIN Defaults, NEW o, DOMAIN o = {"limiterKeyFunc"}
  PROVE  Effect(c, o, Applied(c, o))
<1>1. Applied(c, o) = WithLimiterKeyFunc(c, o.limiterKeyFunc)
  BY DEF Applied
<1> QED BY <1>1, FieldNames DEF WithLimiterKeyFunc, Effect, PlainFields, TimeoutsAgree

\* The options with one field of their own each.
LEMMA EffectOfOthers ==
  ASSUME NEW c, DOMAIN c = DOMAIN Defaults, NEW o,
         NEW name \in {"jitter", "timeout", "httpClient", "newMetrics", "moreMiddleware"},
         DOMAIN o = {name}
  PROVE  Effect(c, o, Applied(c, o))
<1>1. CASE name = "jitter"
  <2>1. Applied(c, o) = WithJitter(c, o.jitter)
    BY <1>1 DEF Applied
  <2> QED BY <1>1, <2>1, FieldNames DEF WithJitter, Effect, PlainFields, TimeoutsAgree
<1>2. CASE name = "timeout"
  <2> DEFINE d == WithTimeout(c, o.timeout)
  <2>1. /\ DOMAIN d = DOMAIN c
        /\ \A field \in DOMAIN c : field \notin {"timeout", "httpClient"} => d[field] = c[field]
    BY DEF WithTimeout
  <2>2. d.httpClient # None => d.httpClient.Timeout = d.timeout
    BY FieldNames DEF WithTimeout
  <2>3. Applied(c, o) = d
    BY <1>2 DEF Applied
  <2> HIDE DEF d
  <2> QED BY <1>2, <2>1, <2>2, <2>3, FieldNames DEF Effect, PlainFields, TimeoutsAgree
<1>3. CASE name = "httpClient"
  <2>1. Applied(c, o) = WithHTTPClient(c, o.httpClient)
    BY <1>3 DEF Applied
  <2> QED BY <1>3, <2>1, FieldNames DEF WithHTTPClient, Effect, PlainFields, TimeoutsAgree
<1>4. CASE name = "moreMiddleware"
  <2>1. Applied(c, o) = [c EXCEPT !.middleware = @ \o o.moreMiddleware]
    BY <1>4 DEF Applied
  <2> QED BY <1>4, <2>1, FieldNames DEF Effect, PlainFields, TimeoutsAgree
<1>5. CASE name = "newMetrics"
  <2>1. Applied(c, o) = WithMetrics(c, o.newMetrics)
    BY <1>5 DEF Applied
  <2> QED BY <1>5, <2>1, FieldNames DEF WithMetrics, Effect, PlainFields, TimeoutsAgree
<1> QED BY <1>1, <1>2, <1>3, <1>4, <1>5

\* The options that change debug settings.
LEMMA EffectOfDebug ==
  ASSUME NEW c, DOMAIN c = DOMAIN Defaults, NEW o,
         "debugSettings" \in DOMAIN o, DOMAIN o \subseteq {"debugSettings", "logger"}
  PROVE  Effect(c, o, Applied(c, o))
<1> DEFINE debugged == WithDebug(c, o.debugSettings)
<1>1. Applied(c, o) = [debugged EXCEPT !.logger = IF "logger" \in DOMAIN o THEN o.logger ELSE @]
  BY DEF Applied
<1>2. DOMAIN debugged = DOMAIN c /\ \A name \in DOMAIN c : name # "debug" => debugged[name] = c[name]
  BY DEF WithDebug
<1> HIDE DEF debugged
<1> QED BY <1>1, <1>2, FieldNames DEF Effect, PlainFields, TimeoutsAgree

\* Every option has the effect on the fields that Effect says.
LEMMA EffectOfOption ==
  ASSUME NEW c, DOMAIN c = DOMAIN Defaults, NEW o, IsOption(o)
  PROVE  Effect(c, o, Applied(c, o))
<1>1. CASE DOMAIN o = {"limiterFor", "limiter"}
  BY <1>1, EffectOfLimiterFor
<1>2. CASE \E name \in {"limiterKeyFunc", "jitter", "timeout", "httpClient", "newMetrics",
                         "moreMiddleware"} :
             DOMAIN o = {name}
  BY <1>2, EffectOfKeyFunc, EffectOfOthers
<1>3. CASE "debugSettings" \in DOMAIN o /\ DOMAIN o \subseteq {"debugSettings", "logger"}
  BY <1>3, EffectOfDebug
<1>4. CASE DOMAIN o \subseteq DOMAIN Defaults \ {"limiterRegistry", "limiterKeyFunc", "jitter",
                                               "timeout", "httpClient", "middleware"}
  BY <1>4, EffectOfFields
<1> QED BY <1>1, <1>2, <1>3, <1>4 DEF IsOption

-----------------------------------------------------------------------------
(* What holds of the limiters, and of each step of doWithRetry *)

\* Fallback and key function were given before the limiters for keys.
InOrder ==
  \A i \in Given("limiterFor"), j \in Given("rateLimiter") \union Given("limiterKeyFunc") : j < i

\* The positions of the limiters given for a key.
ForKey(key) == {i \in Given("limiterFor") : given[i].limiterFor = key}

\* What a registry holds.
RegistryInv(r) ==
  /\ r \in Registry
  /\ r.keyFunc = client.limiterKeyFunc
  /\ r.fallback = NilPointer =>
       \E i \in Given("limiterFor") : \A j \in Given("rateLimiter") : i < j
  /\ InOrder =>
       /\ r.fallback = IF client.rateLimiter = None THEN NilPointer ELSE client.rateLimiter
       /\ DOMAIN r.limiters = {given[i].limiterFor : i \in Given("limiterFor")}
       /\ \A key \in DOMAIN r.limiters : r.limiters[key] = given[Max(ForKey(key))].limiter

LimitersInv ==
  /\ client.limiterKeyFunc = Last("limiterKeyFunc")
  /\ client.rateLimiter = Last("rateLimiter")
  /\ client.limiterRegistry = None <=> Given("limiterFor") = {}
  /\ client.limiterRegistry # None => RegistryInv(client.limiterRegistry)

Asking == {"breaker", "upstream", "decide", "sleep"}

\* What doWithRetry knows at each of its steps.
PhaseInv ==
  /\ attempt \in Nat /\ (attempt = 0 \/ attempt <= Retries.maxRetries)
  /\ phase \in {"options", "ready"} => request = None /\ attempt = 0
  /\ phase \notin {"options", "panicked"} => invalid = ValidateConfiguration(client)
  /\ phase \in Asking \union {"limit"} => request \in Requests
  /\ phase \in Asking => asked = Asked(client, request) /\ asked # NilPointer
  /\ phase \in {"decide", "sleep"} => outcome \in Outcomes
  /\ phase = "sleep" => delay \in Delays

-----------------------------------------------------------------------------
(* Positions *)

\* A set of positions that is not empty has a last one, and a new one is the last.
LEMMA LastPosition ==
  ASSUME NEW n \in Nat, NEW S, S \subseteq 1..n, S # {}
  PROVE  Max(S) \in S
<1> DEFINE T == {n - i : i \in S}
<1>1. T \subseteq Nat /\ T # {}
  <2>1. \A i \in S : i \in 1..n
    OBVIOUS
  <2>2. \A i \in S : n - i \in Nat
    BY <2>1
  <2> QED BY <2>2
<1>2. PICK t \in T : \A u \in T : t <= u
  BY <1>1, FirstOne
<1>3. PICK m \in S : t = n - m
  OBVIOUS
<1>4. \A i \in S : m >= i
  <2> TAKE i \in S
  <2>1. n - i \in T /\ i \in 1..n /\ m \in 1..n
    OBVIOUS
  <2>2. n - m <= n - i
    BY <1>2, <1>3, <2>1
  <2> QED BY <2>1, <2>2
<1> QED BY <1>4 DEF Max

\* A position after all others is the last.
LEMMA NewLastPosition ==
  ASSUME NEW n \in Nat, NEW S, S \subseteq 1..n
  PROVE  Max(S \union {n + 1}) = n + 1
<1> DEFINE T == S \union {n + 1}
<1>1. T \subseteq 1..(n + 1) /\ T # {} /\ n + 1 \in Nat /\ n + 1 \in T
  OBVIOUS
<1>2. \A i \in T : n + 1 >= i
  BY <1>1
<1>3. \A i \in T : (\A j \in T : i >= j) => i = n + 1
  BY <1>1, <1>2
<1> QED BY <1>1, <1>2, <1>3 DEF Max

\* What New was given under a name.
LEMMA GivenType ==
  ASSUME given \in Seq(Options), NEW name
  PROVE  /\ Len(given) \in Nat /\ Given(name) \subseteq 1..Len(given)
         /\ \A i \in Given(name) : given[i] \in Options /\ name \in DOMAIN given[i]
                                   /\ given[i][name] \in Values(name)
BY DEF Given, Values

\* The last value given under a name, or nil.
LEMMA LastIs ==
  ASSUME given \in Seq(Options), NEW name
  PROVE  \/ Given(name) = {} /\ Last(name) = None
         \/ /\ Given(name) # {} /\ Max(Given(name)) \in Given(name)
            /\ Last(name) = given[Max(Given(name))][name] /\ Last(name) \in Values(name)
<1>1. CASE Given(name) = {}
  BY <1>1 DEF Last
<1>2. CASE Given(name) # {}
  <2>1. Max(Given(name)) \in Given(name)
    BY <1>2, GivenType, LastPosition
  <2> QED BY <1>2, <2>1, GivenType DEF Last
<1> QED BY <1>1, <1>2

\* What one option more makes of it.
LEMMA GivenOneMore ==
  ASSUME given \in Seq(Options), NEW o \in Options, given' = Append(given, o)
  PROVE  /\ given' \in Seq(Options)
         /\ given'[Len(given) + 1] = o
         /\ \A i \in 1..Len(given) : given'[i] = given[i]
         /\ \A name : Given(name)' = IF name \in DOMAIN o
                                       THEN Given(name) \union {Len(given) + 1}
                                       ELSE Given(name)
<1> DEFINE n == Len(given)
<1>1. n \in Nat /\ DOMAIN given = 1..n /\ DOMAIN given' = 1..(n + 1) /\ n + 1 \in 1..(n + 1)
  OBVIOUS
<1>2. given' \in Seq(Options) /\ given'[n + 1] = o /\ \A i \in 1..n : given'[i] = given[i]
  OBVIOUS
<1>3. ASSUME NEW name
      PROVE  Given(name)' = IF name \in DOMAIN o THEN Given(name) \union {n + 1} ELSE Given(name)
  <2> HIDE DEF n
  <2>1. 1..(n + 1) = (1..n) \union {n + 1} /\ n + 1 \notin 1..n
    BY <1>1
  <2>2. Given(name)' = {i \in 1..(n + 1) : name \in DOMAIN given'[i]}
    BY <1>1 DEF Given
  <2>3. Given(name) = {i \in 1..n : name \in DOMAIN given[i]}
    BY <1>1 DEF Given
  <2> QED BY <1>2, <2>1, <2>2, <2>3
<1> QED BY <1>2, <1>3

\* The last value under a name is the new option's, if it has the name.
LEMMA LastOneMore ==
  ASSUME given \in Seq(Options), NEW o \in Options, given' = Append(given, o), NEW name
  PROVE  Last(name)' = IF name \in DOMAIN o THEN o[name] ELSE Last(name)
<1>1. Given(name) \subseteq 1..Len(given) /\ Len(given) \in Nat
  BY GivenType
<1>2. CASE name \in DOMAIN o
  <2>1. Given(name)' = Given(name) \union {Len(given) + 1}
    BY <1>2, GivenOneMore
  <2>2. Max(Given(name)') = Len(given) + 1
    BY <1>1, <2>1, NewLastPosition
  <2> QED BY <1>2, <2>1, <2>2, GivenOneMore DEF Last
<1>3. CASE name \notin DOMAIN o
  <2>1. Given(name)' = Given(name)
    BY <1>3, GivenOneMore
  <2>2. Given(name) # {} => given'[Max(Given(name))] = given[Max(Given(name))]
    BY <1>1, LastIs, GivenOneMore
  <2> QED BY <1>3, <2>1, <2>2 DEF Last
<1> QED BY <1>2, <1>3

\* What options set has the type it should have.
LEMMA OptionFacts ==
  ASSUME NEW o \in Options
  PROVE  /\ IsOption(o)
         /\ \A name \in DOMAIN o \intersect DOMAIN Types : o[name] \in Types[name]
         /\ \A name \in DOMAIN o : o[name] \in Values(name)
         /\ "limiterFor" \in DOMAIN o => DOMAIN o = {"limiterFor", "limiter"}
         /\ "limiterKeyFunc" \in DOMAIN o => DOMAIN o = {"limiterKeyFunc"}
         /\ "httpClient" \in DOMAIN o => DOMAIN o = {"httpClient"}
         /\ "newMetrics" \in DOMAIN o => DOMAIN o = {"newMetrics"}
         /\ "limiterRegistry" \notin DOMAIN o
<1>1. IsOption(o)
  BY RetryingAssumption
<1>2. \A name \in DOMAIN o : o[name] \in Values(name)
  BY DEF Values
<1> QED BY <1>1, <1>2, FieldNames DEF IsOption

\* Limiters that are given are limiters.
LEMMA ValuesTyped ==
  /\ Values("rateLimiter") \subseteq Limiter
  /\ \A o \in Options : "limiterFor" \in DOMAIN o => o.limiter \in Limiter \union {None}
<1>1. {"rateLimiter", "limiter"} \subseteq DOMAIN Types
      /\ Types.rateLimiter = Limiter /\ Types.limiter = Limiter \union {None}
  BY DEF Types
<1> QED BY <1>1, OptionFacts DEF Values

\* A limiter is not nil, and so nil means that none was given.
LEMMA NoLimiterGiven ==
  ASSUME given \in Seq(Options), Last("rateLimiter") = None
  PROVE  Given("rateLimiter") = {}
BY LastIs, ValuesTyped, RetryingAssumption

\* The limiter given last for a key.
LEMMA LastPositionForKey ==
  ASSUME given \in Seq(Options), NEW key, ForKey(key) # {}
  PROVE  Max(ForKey(key)) \in ForKey(key) /\ Max(ForKey(key)) \in 1..Len(given)
<1>1. ForKey(key) \subseteq 1..Len(given) /\ Len(given) \in Nat
  BY GivenType DEF ForKey
<1> QED BY <1>1, LastPosition

\* An option that is not about limiters for keys leaves the registry true to
\* what was given.
LEMMA RegistryUntouched ==
  ASSUME given \in Seq(Options), LimitersInv, NEW o \in Options, given' = Append(given, o),
         "limiterFor" \notin DOMAIN o, "limiterKeyFunc" \notin DOMAIN o,
         client'.limiterRegistry = client.limiterRegistry,
         client'.limiterKeyFunc = client.limiterKeyFunc,
         client'.rateLimiter = IF "rateLimiter" \in DOMAIN o THEN o.rateLimiter ELSE client.rateLimiter
  PROVE  LimitersInv'
<1> DEFINE n == Len(given)
<1>1. n \in Nat /\ Given("limiterFor") \subseteq 1..n
  BY GivenType
<1>2. /\ Given("limiterFor")' = Given("limiterFor")
      /\ Given("limiterKeyFunc")' = Given("limiterKeyFunc")
      /\ Given("rateLimiter")' = IF "rateLimiter" \in DOMAIN o THEN Given("rateLimiter") \union {n + 1}
                                 ELSE Given("rateLimiter")
  BY GivenOneMore
<1>3. /\ \A i \in Given("limiterFor") : given'[i] = given[i]
      /\ client'.limiterKeyFunc = Last("limiterKeyFunc")'
      /\ client'.rateLimiter = Last("rateLimiter")'
  BY <1>1, GivenOneMore, LastOneMore DEF LimitersInv
<1>4. \A key : ForKey(key)' = ForKey(key)
  BY <1>2, <1>3 DEF ForKey
<1>5. ASSUME client.limiterRegistry # None
      PROVE  RegistryInv(client.limiterRegistry)'
  <2> DEFINE r == client.limiterRegistry
  <2>1. RegistryInv(r) /\ Given("limiterFor") # {}
    BY <1>5 DEF LimitersInv
  <2>2. r \in Registry /\ r.keyFunc = client'.limiterKeyFunc
    BY <2>1 DEF RegistryInv
  <2> HIDE DEF n
  <2>3. ASSUME r.fallback = NilPointer
        PROVE  \E i \in Given("limiterFor")' : \A j \in Given("rateLimiter")' : i < j
    <3>1. PICK i \in Given("limiterFor") : \A j \in Given("rateLimiter") : i < j
      BY <2>1, <2>3 DEF RegistryInv
    <3>2. i < n + 1
      BY <1>1
    <3> QED BY <1>2, <3>1, <3>2
  <2>4. ASSUME InOrder'
        PROVE  InOrder /\ "rateLimiter" \notin DOMAIN o
    <3>1. \A i \in Given("limiterFor") : ~ (n + 1 < i)
      BY <1>1
    <3> QED BY <1>2, <2>1, <2>4, <3>1 DEF InOrder
  <2>5. ASSUME InOrder'
        PROVE  /\ r.fallback = IF client'.rateLimiter = None THEN NilPointer ELSE client'.rateLimiter
               /\ DOMAIN r.limiters = {given'[i].limiterFor : i \in Given("limiterFor")'}
               /\ \A key \in DOMAIN r.limiters : r.limiters[key] = given'[Max(ForKey(key)')].limiter
    <3>1. /\ r.fallback = IF client.rateLimiter = None THEN NilPointer ELSE client.rateLimiter
          /\ DOMAIN r.limiters = {given[i].limiterFor : i \in Given("limiterFor")}
          /\ \A key \in DOMAIN r.limiters : r.limiters[key] = given[Max(ForKey(key))].limiter
          /\ client'.rateLimiter = client.rateLimiter
      BY <2>1, <2>4, <2>5 DEF RegistryInv
    <3>2. DOMAIN r.limiters = {given'[i].limiterFor : i \in Given("limiterFor")'}
      <4>1. \A i \in Given("limiterFor") : given'[i].limiterFor = given[i].limiterFor
        BY <1>3
      <4>2. {given'[i].limiterFor : i \in Given("limiterFor")}
              = {given[i].limiterFor : i \in Given("limiterFor")}
        BY <4>1
      <4> QED BY <1>2, <3>1, <4>2
    <3>3. ASSUME NEW key \in DOMAIN r.limiters
          PROVE  r.limiters[key] = given'[Max(ForKey(key)')].limiter
      <4>1. ForKey(key) # {}
        BY <3>1 DEF ForKey
      <4>2. Max(ForKey(key)) \in Given("limiterFor")
        BY <4>1, LastPositionForKey DEF ForKey
      <4> QED BY <1>3, <1>4, <3>1, <4>2
    <3> QED BY <3>1, <3>2, <3>3
  <2> QED BY <2>2, <2>3, <2>5 DEF RegistryInv
<1> QED BY <1>2, <1>3, <1>5 DEF LimitersInv

\* What a new registry and one with a limiter more hold.
LEMMA NewRegistryType ==
  ASSUME NEW keyFunc \in Values("limiterKeyFunc") \union {None},
         NEW limiter \in Limiter \union {None}
  PROVE  LET r == NewRateLimiterRegistry(keyFunc, limiter) IN
         /\ r \in Registry
         /\ r.keyFunc = keyFunc /\ DOMAIN r.limiters = {}
         /\ r.fallback = IF limiter = None THEN NilPointer ELSE limiter
<1>1. <<>> \in [{} -> Limiter \union {None}] /\ {} \subseteq Values("limiterFor")
  OBVIOUS
<1>2. DOMAIN <<>> = {}
  OBVIOUS
<1> QED BY <1>1, <1>2 DEF NewRateLimiterRegistry, Registry

\* What a registry with one limiter more holds.
LEMMA RegisteredType ==
  ASSUME NEW r \in Registry, NEW key \in Values("limiterFor"), NEW limiter \in Limiter \union {None}
  PROVE  LET s == RegisterLimiter(r, key, limiter) IN
         /\ s \in Registry
         /\ s.keyFunc = r.keyFunc /\ s.fallback = r.fallback
         /\ DOMAIN s.limiters = DOMAIN r.limiters \union {key}
         /\ \A k \in DOMAIN s.limiters : s.limiters[k] = IF k = key THEN limiter ELSE r.limiters[k]
<1> DEFINE limiters == Over([k \in {key} |-> limiter], r.limiters)
<1>1. PICK S \in SUBSET Values("limiterFor") : r.limiters \in [S -> Limiter \union {None}]
  BY DEF Registry
<1>2. DOMAIN limiters = S \union {key}
  BY <1>1 DEF Over
<1>3. \A k \in S \union {key} : limiters[k] = IF k = key THEN limiter ELSE r.limiters[k]
  BY <1>1 DEF Over
<1>4. limiters \in [S \union {key} -> Limiter \union {None}]
  <2>1. \A k \in S \union {key} : limiters[k] \in Limiter \union {None}
    <3> HIDE DEF limiters
    <3> QED BY <1>1, <1>3
  <2>2. limiters = [k \in DOMAIN limiters |-> limiters[k]]
    BY DEF Over
  <2> HIDE DEF limiters
  <2> QED BY <1>2, <2>1, <2>2
<1>5. RegisterLimiter(r, key, limiter) = [r EXCEPT !.limiters = limiters]
  BY DEF RegisterLimiter
<1> HIDE DEF limiters
<1> QED BY <1>1, <1>2, <1>3, <1>4, <1>5 DEF Registry

\* An option keeps the backoffs of a client in their types and its timeouts equal.
LEMMA ClientAfterOption ==
  ASSUME ClientInv, NEW o \in Options, client' = Applied(client, o)
  PROVE  ClientInv' /\ Effect(client, o, client')
<1>1. Effect(client, o, client')
  BY OptionFacts, EffectOfOption DEF ClientInv
<1>2. \A name \in {"maxRetries", "initialBackoff", "maxBackoff", "backoffMultiplier", "retryPolicy"} :
        client'[name] = IF name \in DOMAIN o THEN o[name] ELSE client[name]
  <2>1. {"maxRetries", "initialBackoff", "maxBackoff", "backoffMultiplier", "retryPolicy"}
          \subseteq PlainFields
    BY DEF PlainFields, Defaults
  <2> QED BY <1>1, <2>1 DEF Effect
<1>3. /\ "maxRetries" \in DOMAIN o => o.maxRetries \in Int
      /\ "initialBackoff" \in DOMAIN o => o.initialBackoff \in Durations
      /\ "maxBackoff" \in DOMAIN o => o.maxBackoff \in Durations
      /\ "backoffMultiplier" \in DOMAIN o => o.backoffMultiplier \in Int
      /\ "jitter" \in DOMAIN o => o.jitter \in Int
      /\ "retryPolicy" \in DOMAIN o => o.retryPolicy \in RetryPolicy \union {None}
  BY OptionFacts DEF Types
<1>4. client'.jitter \in 0..Unit /\ client'.jitter \in Int
  <2>1. Unit \in Nat
    BY BackoffAssumption
  <2>2. client'.jitter = IF "jitter" \in DOMAIN o THEN clampJitter(o.jitter) ELSE client.jitter
    BY <1>1 DEF Effect
  <2> QED BY <1>3, <2>1, <2>2, ClampType DEF ClientInv
<1>5. Backoffs(client')
  BY <1>2, <1>3, <1>4 DEF ClientInv, Backoffs
<1>6. client'.retryPolicy \in RetryPolicy \union {None}
  BY <1>2, <1>3 DEF ClientInv
<1>7. /\ DOMAIN client' = DOMAIN Defaults
      /\ TimeoutsAgree(client')
  BY <1>1 DEF ClientInv, Effect
<1> QED BY <1>1, <1>4, <1>5, <1>6, <1>7 DEF ClientInv

\* WithLimiterFor makes the registry if there is none, and the new limiter is
\* from then on the last one of its key.
LEMMA LimiterForRegistered ==
  ASSUME given \in Seq(Options), ClientInv, LimitersInv,
         NEW o \in Options, "limiterFor" \in DOMAIN o,
         given' = Append(given, o), client' = Applied(client, o)
  PROVE  LimitersInv'
<1> DEFINE n == Len(given)
           key == o.limiterFor
           r == IF client.limiterRegistry = None
                  THEN NewRateLimiterRegistry(client.limiterKeyFunc, client.rateLimiter)
                  ELSE client.limiterRegistry
           s == RegisterLimiter(r, key, o.limiter)
<1>1. /\ DOMAIN o = {"limiterFor", "limiter"} /\ key \in Values("limiterFor")
      /\ o.limiter \in Limiter \union {None}
  BY OptionFacts, ValuesTyped
<1>2. Effect(client, o, client')
  BY ClientAfterOption
<1>3. /\ client'.limiterKeyFunc = client.limiterKeyFunc /\ client'.rateLimiter = client.rateLimiter
      /\ client'.limiterRegistry = s
  BY <1>1, <1>2, FieldNames DEF Effect, PlainFields, Defaults
<1>4. /\ n \in Nat /\ Given("limiterFor") \subseteq 1..n
      /\ Given("limiterFor")' = Given("limiterFor") \union {n + 1}
      /\ Given("rateLimiter")' = Given("rateLimiter")
      /\ Given("limiterKeyFunc")' = Given("limiterKeyFunc")
      /\ Last("rateLimiter")' = Last("rateLimiter")
      /\ Last("limiterKeyFunc")' = Last("limiterKeyFunc")
      /\ given'[n + 1] = o
      /\ \A i \in 1..n : given'[i] = given[i]
  BY <1>1, GivenType, GivenOneMore, LastOneMore
<1> HIDE DEF n
<1>5. client.rateLimiter \in Limiter \union {None}
      /\ client.limiterKeyFunc \in Values("limiterKeyFunc") \union {None}
  BY LastIs, ValuesTyped DEF LimitersInv
<1>6. \A k : ForKey(k)' = IF k = key THEN ForKey(k) \union {n + 1} ELSE ForKey(k)
  <2> TAKE k
  <2>1. n + 1 \notin 1..n
    BY <1>4
  <2>2. n + 1 \notin Given("limiterFor") /\ \A i \in Given("limiterFor") : given'[i] = given[i]
    BY <1>4, <2>1
  <2> QED BY <1>4, <2>2 DEF ForKey
<1>7. /\ r \in Registry /\ r.keyFunc = client.limiterKeyFunc
      /\ r.fallback = NilPointer =>
           \/ Given("rateLimiter") = {}
           \/ \E i \in Given("limiterFor") : \A j \in Given("rateLimiter") : i < j
      /\ InOrder =>
           /\ r.fallback = IF client.rateLimiter = None THEN NilPointer ELSE client.rateLimiter
           /\ DOMAIN r.limiters = {given[i].limiterFor : i \in Given("limiterFor")}
           /\ \A k \in DOMAIN r.limiters : r.limiters[k] = given[Max(ForKey(k))].limiter
  <2>1. CASE client.limiterRegistry = None
    <3>1. /\ r \in Registry /\ r.keyFunc = client.limiterKeyFunc /\ DOMAIN r.limiters = {}
          /\ r.fallback = IF client.rateLimiter = None THEN NilPointer ELSE client.rateLimiter
      <4>1. r = NewRateLimiterRegistry(client.limiterKeyFunc, client.rateLimiter)
        BY <2>1
      <4> HIDE DEF r
      <4> QED BY <1>5, <4>1, NewRegistryType
    <3>2. Given("limiterFor") = {}
      BY <2>1 DEF LimitersInv
    <3>3. r.fallback = NilPointer => Given("rateLimiter") = {}
      BY <1>5, <3>1, NoLimiterGiven, RetryingAssumption DEF LimitersInv
    <3> QED BY <3>1, <3>2, <3>3
  <2>2. CASE client.limiterRegistry # None
    BY <2>2 DEF LimitersInv, RegistryInv
  <2> QED BY <2>1, <2>2
<1> HIDE DEF r
<1>8. /\ s \in Registry /\ s.keyFunc = r.keyFunc /\ s.fallback = r.fallback
      /\ DOMAIN s.limiters = DOMAIN r.limiters \union {key}
      /\ \A k \in DOMAIN s.limiters : s.limiters[k] = IF k = key THEN o.limiter ELSE r.limiters[k]
  BY <1>1, <1>7, RegisteredType
<1> HIDE DEF s
<1>9. s # None
  BY <1>8, RetryingAssumption
<1>10. s.fallback = NilPointer => \E i \in Given("limiterFor")' : \A j \in Given("rateLimiter")' : i < j
  BY <1>4, <1>7, <1>8
<1>11. ASSUME InOrder'
       PROVE  /\ s.fallback = IF client'.rateLimiter = None THEN NilPointer ELSE client'.rateLimiter
              /\ DOMAIN s.limiters = {given'[i].limiterFor : i \in Given("limiterFor")'}
              /\ \A k \in DOMAIN s.limiters : s.limiters[k] = given'[Max(ForKey(k)')].limiter
  <2>1. InOrder
    BY <1>4, <1>11 DEF InOrder
  <2>2. /\ s.fallback = IF client'.rateLimiter = None THEN NilPointer ELSE client'.rateLimiter
        /\ DOMAIN r.limiters = {given[i].limiterFor : i \in Given("limiterFor")}
        /\ \A k \in DOMAIN r.limiters : r.limiters[k] = given[Max(ForKey(k))].limiter
    BY <1>3, <1>7, <1>8, <2>1
  <2>3. {given'[i].limiterFor : i \in Given("limiterFor")'}
          = {given[i].limiterFor : i \in Given("limiterFor")} \union {key}
    <3>1. \A i \in Given("limiterFor") : given'[i].limiterFor = given[i].limiterFor
      BY <1>4
    <3>2. given'[n + 1].limiterFor = key
      BY <1>4
    <3>3. Given("limiterFor")' = Given("limiterFor") \union {n + 1}
      BY <1>4
    <3> DEFINE before == {given[i].limiterFor : i \in Given("limiterFor")}
               after == {given'[i].limiterFor : i \in Given("limiterFor")'}
    <3>4. ASSUME NEW i \in Given("limiterFor")'
          PROVE  given'[i].limiterFor \in before \union {key}
      <4>1. CASE i = n + 1
        BY <3>2, <4>1
      <4>2. CASE i \in Given("limiterFor")
        BY <3>1, <4>2
      <4> QED BY <3>3, <3>4, <4>1, <4>2
    <3>5. ASSUME NEW i \in Given("limiterFor")
          PROVE  given[i].limiterFor \in after
      <4>1. given[i].limiterFor = given'[i].limiterFor /\ i \in Given("limiterFor")'
        BY <3>1, <3>3
      <4> QED BY <4>1
    <3>6. key \in after
      <4>1. key = given'[n + 1].limiterFor /\ n + 1 \in Given("limiterFor")'
        BY <3>2, <3>3
      <4> QED BY <4>1
    <3>7. after \subseteq before \union {key}
      BY <3>4
    <3>8. before \union {key} \subseteq after
      BY <3>5, <3>6
    <3> QED BY <3>7, <3>8
  <2>4. ASSUME NEW k \in DOMAIN s.limiters
        PROVE  s.limiters[k] = given'[Max(ForKey(k)')].limiter
    <3>1. CASE k = key
      <4>1. ForKey(k) \subseteq 1..n
        BY <1>4 DEF ForKey
      <4>2. Max(ForKey(k)') = n + 1
        BY <1>4, <1>6, <3>1, <4>1, NewLastPosition
      <4> QED BY <1>4, <1>8, <3>1, <4>2
    <3>2. CASE k # key
      <4>1. k \in DOMAIN r.limiters /\ s.limiters[k] = r.limiters[k]
        BY <1>8, <3>2
      <4>2. ForKey(k) # {}
        BY <2>2, <4>1 DEF ForKey
      <4>3. Max(ForKey(k)) \in 1..n
        BY <4>2, LastPositionForKey DEF n
      <4> QED BY <1>4, <1>6, <2>2, <3>2, <4>1, <4>3
    <3> QED BY <3>1, <3>2
  <2> QED BY <1>8, <2>2, <2>3, <2>4
<1>12. RegistryInv(client.limiterRegistry)'
  BY <1>3, <1>7, <1>8, <1>10, <1>11 DEF RegistryInv
<1> QED BY <1>3, <1>4, <1>9, <1>12 DEF LimitersInv

\* WithLimiterKeyFunc empties the registry. Limiters for keys have then been given
\* before the key function, and nothing is promised of them.
LEMMA KeyFuncReplaced ==
  ASSUME given \in Seq(Options), ClientInv, LimitersInv,
         NEW o \in Options, "limiterKeyFunc" \in DOMAIN o,
         given' = Append(given, o), client' = Applied(client, o)
  PROVE  LimitersInv'
<1> DEFINE n == Len(given)
           r == NewRateLimiterRegistry(o.limiterKeyFunc, client.rateLimiter)
<1>1. DOMAIN o = {"limiterKeyFunc"} /\ o.limiterKeyFunc \in Values("limiterKeyFunc")
  BY OptionFacts
<1>2. Effect(client, o, client')
  BY ClientAfterOption
<1>3. /\ client'.limiterKeyFunc = o.limiterKeyFunc /\ client'.rateLimiter = client.rateLimiter
      /\ client'.limiterRegistry = IF client.limiterRegistry = None THEN None ELSE r
  BY <1>1, <1>2, FieldNames DEF Effect, PlainFields, Defaults
<1>4. /\ n \in Nat /\ Given("limiterFor") \subseteq 1..n
      /\ Given("limiterFor")' = Given("limiterFor")
      /\ Given("rateLimiter")' = Given("rateLimiter")
      /\ Given("limiterKeyFunc")' = Given("limiterKeyFunc") \union {n + 1}
      /\ Last("rateLimiter")' = Last("rateLimiter")
      /\ Last("limiterKeyFunc")' = o.limiterKeyFunc
  BY <1>1, GivenType, GivenOneMore, LastOneMore
<1> HIDE DEF n
<1>5. client.rateLimiter \in Limiter \union {None}
  BY LastIs, ValuesTyped DEF LimitersInv
<1>6. /\ r \in Registry /\ r.keyFunc = o.limiterKeyFunc
      /\ r.fallback = IF client.rateLimiter = None THEN NilPointer ELSE client.rateLimiter
  BY <1>1, <1>5, NewRegistryType
<1> HIDE DEF r
<1>7. r # None /\ (r.fallback = NilPointer => Given("rateLimiter") = {})
  BY <1>5, <1>6, NoLimiterGiven, RetryingAssumption DEF LimitersInv
<1>8. ASSUME client.limiterRegistry # None
      PROVE  RegistryInv(client.limiterRegistry)'
  <2>1. Given("limiterFor") # {}
    BY <1>8 DEF LimitersInv
  <2>2. ~ InOrder'
    <3>1. \A i \in Given("limiterFor") : ~ (n + 1 < i)
      BY <1>4
    <3> QED BY <1>4, <2>1, <3>1 DEF InOrder
  <2> QED BY <1>3, <1>4, <1>6, <1>7, <1>8, <2>1, <2>2 DEF RegistryInv
<1> QED BY <1>3, <1>4, <1>7, <1>8 DEF LimitersInv

\* Every option, and a panic in one, keeps the client's limiters true to what New
\* was given.
LEMMA LimitersAfterOption ==
  ASSUME given \in Seq(Options), ClientInv, LimitersInv, NEW o \in Options,
         given' = Append(given, o),
         \/ client' = Applied(client, o)
         \/ PanicsOn(client, o, Registered) /\ client' = client
  PROVE  LimitersInv'
<1>1. CASE "limiterFor" \in DOMAIN o
  <2>1. ~ PanicsOn(client, o, Registered)
    BY <1>1, OptionFacts DEF PanicsOn
  <2> QED BY <1>1, <2>1, LimiterForRegistered
<1>2. CASE "limiterKeyFunc" \in DOMAIN o
  <2>1. ~ PanicsOn(client, o, Registered)
    BY <1>2, OptionFacts DEF PanicsOn
  <2> QED BY <1>2, <2>1, KeyFuncReplaced
<1>3. CASE "limiterFor" \notin DOMAIN o /\ "limiterKeyFunc" \notin DOMAIN o
  <2>1. CASE client' = Applied(client, o)
    <3>1. Effect(client, o, client')
      BY <2>1, ClientAfterOption
    <3>2. /\ client'.limiterRegistry = client.limiterRegistry
          /\ client'.limiterKeyFunc = client.limiterKeyFunc
          /\ client'.rateLimiter = IF "rateLimiter" \in DOMAIN o THEN o.rateLimiter
                                   ELSE client.rateLimiter
      BY <1>3, <3>1 DEF Effect, PlainFields, Defaults
    <3> QED BY <1>3, <3>2, RegistryUntouched
  <2>2. CASE PanicsOn(client, o, Registered) /\ client' = client
    <3>1. "rateLimiter" \notin DOMAIN o
      BY <2>2, OptionFacts DEF PanicsOn
    <3> QED BY <1>3, <2>2, <3>1, RegistryUntouched
  <2> QED BY <2>1, <2>2
<1> QED BY <1>1, <1>2, <1>3

-----------------------------------------------------------------------------
(* The steps *)

\* The simple types, which TypeOK asserts among other things.
StateTypes ==
  /\ elsewhere \in BOOLEAN
  /\ phase \in Phases
  /\ given \in Seq(Options)
  /\ request \in Requests \union {None}
  /\ outcome \in Outcomes \union {None}
  /\ delay \in Durations

RetryingInv == StateTypes /\ ClientInv /\ LimitersInv /\ PhaseInv /\ PanicsExplained

\* A client with New's defaults.
LEMMA InitRetryingInv == Init => RetryingInv
<1> SUFFICES ASSUME Init PROVE RetryingInv
  OBVIOUS
<1>1. /\ Unit \in Nat /\ Half \in Nat \ {0} /\ DefaultJitter \in 0..Unit
      /\ DefaultInitialBackoff \in 1..(Half - 1) /\ DefaultMaxBackoff \in 1..(Half - 1)
  BY BackoffAssumption, DefaultsAssumption
<1>2. 1..(Half - 1) \subseteq Durations /\ 0 \in Durations /\ 2 * Unit \in Int /\ DefaultJitter \in Int
  BY <1>1 DEF Durations
<1>3. /\ client = Defaults
      /\ client.initialBackoff = DefaultInitialBackoff /\ client.maxBackoff = DefaultMaxBackoff
      /\ client.jitter = DefaultJitter /\ client.backoffMultiplier = 2 * Unit
      /\ client.maxRetries = 3 /\ client.retryPolicy = None
      /\ client.httpClient.Timeout = DefaultTimeout /\ client.timeout = DefaultTimeout
      /\ client.limiterKeyFunc = None /\ client.rateLimiter = None /\ client.limiterRegistry = None
  BY DEF Init, Defaults
<1>4. ClientInv
  BY <1>1, <1>2, <1>3 DEF ClientInv, Backoffs, TimeoutsAgree
<1>5. \A name : Given(name) = {} /\ Last(name) = None
  BY DEF Init, Given, Last
<1>6. LimitersInv
  BY <1>3, <1>5 DEF LimitersInv
<1>7. StateTypes
  BY <1>2 DEF Init, StateTypes, Phases
<1>8. PhaseInv /\ PanicsExplained
  BY DEF Init, PhaseInv, PanicsExplained, Asking
<1> QED BY <1>4, <1>6, <1>7, <1>8 DEF RetryingInv

\* The options stay, once they are applied.
LEMMA OptionsStay ==
  ASSUME ClientInv, LimitersInv, UNCHANGED <<client, given>>
  PROVE  /\ ClientInv' /\ LimitersInv' /\ Retries' = Retries
         /\ \A name : Given(name)' = Given(name) /\ Last(name)' = Last(name)
<1>1. ClientInv' /\ Retries' = Retries
  BY DEF ClientInv, Backoffs, TimeoutsAgree, Retries
<1>2. \A name : Given(name)' = Given(name) /\ Last(name)' = Last(name)
  BY DEF Given, Last
<1>3. InOrder' = InOrder
  BY <1>2 DEF InOrder
<1>4. \A key : ForKey(key)' = ForKey(key)
  BY <1>2 DEF ForKey
<1>5. client.limiterRegistry # None => RegistryInv(client.limiterRegistry)'
  BY <1>2, <1>3, <1>4 DEF LimitersInv, RegistryInv
<1>6. LimitersInv'
  BY <1>2, <1>5 DEF LimitersInv
<1> QED BY <1>1, <1>2, <1>6

\* The steps of New.
LEMMA OptionKeeps ==
  ASSUME RetryingInv, NEW o \in Options, Option(o)
  PROVE  RetryingInv'
<1>1. /\ phase = "options" /\ given' = Append(given, o) /\ UNCHANGED <<elsewhere, invalid, inside>>
      /\ \/ PanicsOn(client, o, Registered) /\ phase' = "panicked" /\ client' = client
         \/ ~PanicsOn(client, o, Registered) /\ phase' = "options" /\ client' = Applied(client, o)
  BY DEF Option
<1>2. /\ given \in Seq(Options) /\ ClientInv /\ LimitersInv /\ PhaseInv
      /\ request = None /\ attempt = 0
  BY <1>1 DEF RetryingInv, StateTypes, PhaseInv
<1>3. StateTypes'
  BY <1>1, GivenOneMore DEF RetryingInv, StateTypes, Phases, inside
<1>4. ClientInv'
  <2>1. CASE client' = client
    BY <1>2, <2>1 DEF ClientInv, Backoffs, TimeoutsAgree
  <2>2. CASE client' = Applied(client, o)
    BY <1>2, <2>2, ClientAfterOption
  <2> QED BY <1>1, <2>1, <2>2
<1>5. LimitersInv'
  BY <1>1, <1>2, LimitersAfterOption
<1>6. PhaseInv'
  BY <1>1, <1>2 DEF PhaseInv, Asking, inside
<1>7. PanicsExplained'
  <2>1. ASSUME "httpClient" \in DOMAIN o, o.httpClient = None
        PROVE  Last("httpClient")' = None /\ Given("httpClient")' # {}
    <3>1. Last("httpClient")' = o.httpClient
      BY <1>1, <1>2, <2>1, LastOneMore
    <3>2. Given("httpClient")' = Given("httpClient") \union {Len(given) + 1}
      BY <1>1, <1>2, <2>1, GivenOneMore
    <3> QED BY <2>1, <3>1, <3>2
  <2>2. ASSUME "newMetrics" \in DOMAIN o, Registered
        PROVE  MetricsTwice'
    <3>1. Given("newMetrics")' = Given("newMetrics") \union {Len(given) + 1}
      BY <1>1, <1>2, <2>2, GivenOneMore
    <3>2. \A j \in Given("newMetrics") : j < Len(given) + 1
      BY <1>2, GivenType
    <3>3. elsewhere' = elsewhere
      BY <1>1
    <3> QED BY <2>2, <3>1, <3>2, <3>3 DEF Registered, MetricsTwice
  <2>3. phase' = "panicked" => MetricsTwice' \/ (Given("httpClient")' # {} /\ Last("httpClient")' = None)
    BY <1>1, <2>1, <2>2 DEF PanicsOn
  <2> QED BY <1>1, <1>2, <2>3 DEF PanicsExplained, inside
<1> QED BY <1>3, <1>4, <1>5, <1>6, <1>7 DEF RetryingInv

\* The validation.
LEMMA NewKeeps ==
  ASSUME RetryingInv, New
  PROVE  RetryingInv'
<1>1. ClientInv' /\ LimitersInv' /\ Retries' = Retries
  BY OptionsStay DEF RetryingInv, New
<1>2. StateTypes'
  BY DEF RetryingInv, StateTypes, New, inside, Phases
<1>3. invalid' = ValidateConfiguration(client')
  BY DEF New
<1>4. PhaseInv' /\ PanicsExplained'
  BY <1>3 DEF RetryingInv, PhaseInv, PanicsExplained, New, inside, Asking
<1> QED BY <1>1, <1>2, <1>4 DEF RetryingInv

\* The steps of doWithRetry.
LEMMA ReturnKeeps ==
  ASSUME RetryingInv, phase \in Asking \union {"limit"}, Return, UNCHANGED <<elsewhere, client, given, invalid>>
  PROVE  RetryingInv'
<1>1. ClientInv' /\ LimitersInv'
  BY OptionsStay DEF RetryingInv
<1>2. 0 \in Durations
  BY BackoffAssumption DEF Durations
<1>3. StateTypes'
  BY <1>2 DEF RetryingInv, StateTypes, Return, Phases
<1>4. invalid' = ValidateConfiguration(client')
  BY DEF RetryingInv, PhaseInv, Asking
<1>5. PhaseInv' /\ PanicsExplained'
  BY <1>4 DEF PhaseInv, PanicsExplained, Return, Asking
<1> QED BY <1>1, <1>3, <1>5 DEF RetryingInv

\* The validation finds what would panic in executeMiddleware, and what would for want
\* of a function of the deduplication.
LEMMA ValidationFinds ==
  ASSUME NEW c,
         \/ c.httpClient = None
         \/ \E i \in DOMAIN c.middleware : c.middleware[i] = None
         \/ c.deduplication # None /\ None \in {c.dedupCondition, c.dedupKeyFunc}
  PROVE  ValidateConfiguration(c) # {}
<1>1. CASE c.httpClient = None
  <2>1. "httpClient" \in validateHTTPClientConfig(c)
    BY <1>1 DEF validateHTTPClientConfig, Wrong
  <2> QED BY <2>1 DEF ValidateConfiguration
<1>2. CASE \E i \in DOMAIN c.middleware : c.middleware[i] = None
  <2>1. "middleware" \in validateMiddlewareConfig(c)
    BY <1>2 DEF validateMiddlewareConfig, Wrong
  <2> QED BY <2>1 DEF ValidateConfiguration
<1>3. CASE c.deduplication # None /\ None \in {c.dedupCondition, c.dedupKeyFunc}
  <2>1. "deduplication" \in validateDeduplicationConfig(c)
    BY <1>3 DEF validateDeduplicationConfig, Wrong
  <2> QED BY <2>1 DEF ValidateConfiguration
<1> QED BY <1>1, <1>2, <1>3

\* A request enters doWithRetry, or panics on a function that is nil.
LEMMA DoKeeps ==
  ASSUME RetryingInv, NEW r \in Requests, Do(r)
  PROVE  RetryingInv'
<1>1. /\ phase = "ready" /\ request' = r /\ phase' \in {"limit", "panicked"}
      /\ UNCHANGED <<elsewhere, client, given, invalid, attempt, asked, outcome, delay>>
  BY DEF Do, settings
<1>2. ClientInv' /\ LimitersInv' /\ Retries' = Retries
  BY <1>1, OptionsStay DEF RetryingInv
<1>3. r # None /\ attempt = 0 /\ invalid = ValidateConfiguration(client)
  BY <1>1, RetryingAssumption DEF RetryingInv, PhaseInv
<1>4. StateTypes'
  BY <1>1 DEF RetryingInv, StateTypes, Phases
<1>5. invalid' = ValidateConfiguration(client')
  BY <1>1, <1>3
<1>6. PhaseInv'
  BY <1>1, <1>3, <1>5 DEF PhaseInv, Asking
<1>7. phase' = "panicked" =>
        invalid # {} \/ (Caches /\ None \in {client.cacheCondition, client.cacheKeyFunc})
  <2>1. CASE Panics(Deduplicates, client.dedupCondition, client.dedupKeyFunc)
    <3>1. client.deduplication # None /\ None \in {client.dedupCondition, client.dedupKeyFunc}
      BY <2>1 DEF Panics, Deduplicates
    <3>2. ValidateConfiguration(client) # {}
      BY <3>1, ValidationFinds
    <3> QED BY <1>3, <3>2
  <2>2. CASE Panics(Caches, client.cacheCondition, client.cacheKeyFunc)
    BY <2>2 DEF Panics
  <2>3. CASE phase' = "limit"
    BY <2>3
  <2> QED BY <2>1, <2>2, <2>3 DEF Do
<1>8. PanicsExplained'
  BY <1>1, <1>3, <1>7 DEF PanicsExplained, Caches
<1> QED BY <1>2, <1>4, <1>6, <1>8 DEF RetryingInv

\* Only a registry can lead to a nil pointer, and only its fallback.
LEMMA NilPointerExplained ==
  ASSUME RetryingInv, Asked(client, request) = NilPointer
  PROVE  FallbackTooLate
<1> DEFINE r == client.limiterRegistry
<1>1. NilPointer \notin Limiter \union {None}
  BY RetryingAssumption
<1>2. client.rateLimiter \in Limiter \union {None}
  BY LastIs, ValuesTyped DEF RetryingInv, StateTypes, LimitersInv
<1>3. r # None /\ GetLimiter(r, request) = NilPointer
  BY <1>1, <1>2 DEF Asked
<1>4. RegistryInv(r)
  BY <1>3 DEF RetryingInv, LimitersInv
<1>5. \A key \in DOMAIN r.limiters : r.limiters[key] \in Limiter \union {None}
  BY <1>4 DEF RegistryInv, Registry
<1>6. r.fallback = NilPointer
  BY <1>1, <1>3, <1>5 DEF GetLimiter
<1> QED BY <1>4, <1>6 DEF RegistryInv, FallbackTooLate

\* A limiter is asked; a nil pointer panics.
LEMMA LimiterAllowKeeps ==
  ASSUME RetryingInv, LimiterAllow
  PROVE  RetryingInv'
<1> DEFINE limiter == Asked(client, request)
<1>1. phase = "limit" /\ UNCHANGED <<elsewhere, client, given, invalid>>
  BY DEF LimiterAllow, settings
<1>2. CASE Return
  BY <1>1, <1>2, ReturnKeeps
<1>3. CASE /\ phase' = IF limiter = NilPointer THEN "panicked" ELSE "breaker"
           /\ asked' = limiter
           /\ UNCHANGED <<request, attempt, outcome, delay>>
  <2>1. /\ ClientInv' /\ LimitersInv' /\ Retries' = Retries
        /\ \A name : Given(name)' = Given(name) /\ Last(name)' = Last(name)
    BY <1>1, OptionsStay DEF RetryingInv
  <2>2. request \in Requests /\ attempt \in Nat /\ (attempt = 0 \/ attempt <= Retries.maxRetries)
        /\ invalid = ValidateConfiguration(client)
    BY <1>1 DEF RetryingInv, PhaseInv
  <2>3. asked' = Asked(client', request')
    BY <1>1, <1>3
  <2>4. StateTypes'
    BY <1>1, <1>3 DEF RetryingInv, StateTypes, Phases
  <2>5. invalid' = ValidateConfiguration(client')
    BY <1>1, <2>2
  <2>6. PhaseInv'
    BY <1>1, <1>3, <2>1, <2>2, <2>3, <2>5 DEF PhaseInv, Asking
  <2>7. phase' = "panicked" => asked' = NilPointer /\ FallbackTooLate'
    BY <1>3, <2>1, NilPointerExplained DEF FallbackTooLate
  <2>8. PanicsExplained'
    BY <1>3, <2>2, <2>7, RetryingAssumption DEF PanicsExplained
  <2> QED BY <2>1, <2>4, <2>6, <2>8 DEF RetryingInv
<1> QED BY <1>2, <1>3 DEF LimiterAllow

\* The breaker refuses or lets the attempt through.
LEMMA BreakerAllowKeeps ==
  ASSUME RetryingInv, BreakerAllow
  PROVE  RetryingInv'
<1>1. phase = "breaker" /\ UNCHANGED <<elsewhere, client, given, invalid>>
  BY DEF BreakerAllow, settings
<1>2. CASE Return
  BY <1>1, <1>2, ReturnKeeps DEF Asking
<1>3. CASE phase' = "upstream" /\ UNCHANGED inside
  <2>1. ClientInv' /\ LimitersInv' /\ Retries' = Retries
    BY <1>1, OptionsStay DEF RetryingInv
  <2>2. StateTypes'
    BY <1>1, <1>3 DEF RetryingInv, StateTypes, Phases, inside
  <2>3. invalid' = ValidateConfiguration(client') /\ asked' = Asked(client', request')
    BY <1>1, <1>3 DEF RetryingInv, PhaseInv, Asking, inside
  <2>4. PhaseInv' /\ PanicsExplained'
    BY <1>1, <1>3, <2>1, <2>3 DEF RetryingInv, PhaseInv, PanicsExplained, Asking, inside
  <2> QED BY <2>1, <2>2, <2>4 DEF RetryingInv
<1> QED BY <1>2, <1>3 DEF BreakerAllow

\* An attempt that panics does so in an invalid client.
LEMMA UpstreamReturnsKeeps ==
  ASSUME RetryingInv, UpstreamReturns
  PROVE  RetryingInv'
<1>1. phase = "upstream" /\ UNCHANGED <<elsewhere, client, given, invalid, request, attempt, asked, delay>>
  BY DEF UpstreamReturns, settings
<1>2. ClientInv' /\ LimitersInv' /\ Retries' = Retries
  BY <1>1, OptionsStay DEF RetryingInv
<1>3. /\ request \in Requests /\ request # None /\ attempt \in Nat
      /\ invalid = ValidateConfiguration(client) /\ asked = Asked(client, request) /\ asked # NilPointer
      /\ attempt = 0 \/ attempt <= Retries.maxRetries
  BY <1>1, RetryingAssumption DEF RetryingInv, PhaseInv, Asking
<1>4. asked' = Asked(client', request') /\ invalid' = ValidateConfiguration(client')
  BY <1>1, <1>3
<1>5. CASE phase' = "decide" /\ outcome' \in Outcomes
  <2>1. StateTypes'
    BY <1>1, <1>5 DEF RetryingInv, StateTypes, Phases
  <2>2. PhaseInv' /\ PanicsExplained'
    BY <1>1, <1>2, <1>3, <1>4, <1>5 DEF PhaseInv, PanicsExplained, Asking
  <2> QED BY <1>2, <2>1, <2>2 DEF RetryingInv
<1>6. CASE SomeNil /\ phase' = "panicked" /\ outcome' = outcome
  <2>1. StateTypes'
    BY <1>1, <1>6 DEF RetryingInv, StateTypes, Phases
  <2>2. invalid # {}
    BY <1>3, <1>6, ValidationFinds DEF SomeNil
  <2>3. PhaseInv' /\ PanicsExplained'
    BY <1>1, <1>2, <1>3, <1>6, <2>2 DEF PhaseInv, PanicsExplained, Asking
  <2> QED BY <1>2, <2>1, <2>3 DEF RetryingInv
<1> QED BY <1>5, <1>6 DEF UpstreamReturns

\* A retry is entered on with a delay of Delays.
LEMMA DecideKeeps ==
  ASSUME RetryingInv, Decide
  PROVE  RetryingInv'
<1>1. phase = "decide" /\ UNCHANGED <<elsewhere, client, given, invalid>>
  BY DEF Decide, settings
<1>2. CASE Return
  BY <1>1, <1>2, ReturnKeeps DEF Asking
<1>3. ClientInv' /\ LimitersInv' /\ Retries' = Retries
  BY <1>1, OptionsStay DEF RetryingInv
<1>4. /\ request \in Requests /\ outcome \in Outcomes /\ attempt \in Nat
      /\ invalid = ValidateConfiguration(client) /\ asked = Asked(client, request) /\ asked # NilPointer
      /\ attempt = 0 \/ attempt <= Retries.maxRetries
  BY <1>1 DEF RetryingInv, PhaseInv, Asking
<1>5. CASE (DecisionPanics \/ StoringPanics) /\ phase' = "panicked" /\ UNCHANGED inside
  <2>1. StateTypes'
    BY <1>1, <1>5 DEF RetryingInv, StateTypes, Phases, inside
  <2>2. request # None /\ outcome # None
    BY <1>4, RetryingAssumption
  <2>3. PhaseInv'
    BY <1>1, <1>3, <1>4, <1>5 DEF PhaseInv, Asking, inside
  <2>4. PanicsExplained'
    BY <1>1, <1>5, <2>2 DEF DecisionPanics, StoringPanics, PanicsExplained, Response, inside
  <2> QED BY <1>3, <2>1, <2>3, <2>4 DEF RetryingInv
<1>6. CASE delay' \in Delays /\ phase' = "sleep" /\ UNCHANGED <<request, attempt, asked, outcome>>
  <2>1. Delays' = Delays
    BY <1>1, <1>6 DEF Delays
  <2>2. delay' \in Durations
    BY <1>4, <1>6, DelaysType, RetryingAssumption DEF RetryingInv
  <2>3. StateTypes'
    BY <1>1, <1>6, <2>2 DEF RetryingInv, StateTypes, Phases
  <2>4. asked' = Asked(client', request') /\ invalid' = ValidateConfiguration(client')
    BY <1>1, <1>4, <1>6
  <2>5. PhaseInv' /\ PanicsExplained'
    BY <1>1, <1>3, <1>4, <1>6, <2>1, <2>4 DEF PhaseInv, PanicsExplained, Asking
  <2> QED BY <1>3, <2>3, <2>5 DEF RetryingInv
<1> QED BY <1>2, <1>5, <1>6 DEF Decide

\* A retry was justified, and so the attempt after it is within the maximum.
LEMMA RetryKeeps ==
  ASSUME RetryingInv, Retry
  PROVE  RetryingInv'
<1>1. /\ phase = "sleep" /\ phase' = "limit" /\ UNCHANGED <<elsewhere, client, given, invalid, request>>
      /\ attempt' = attempt + 1 /\ delay' = 0 /\ asked' = None /\ outcome' = None
  BY DEF Retry, settings
<1>2. ClientInv' /\ LimitersInv' /\ Retries' = Retries
  BY <1>1, OptionsStay DEF RetryingInv
<1>3. /\ request \in Requests /\ outcome \in Outcome /\ attempt \in Nat /\ delay \in Delays
      /\ invalid = ValidateConfiguration(client)
  BY <1>1, RetryingAssumption DEF RetryingInv, PhaseInv, Asking
<1>4. attempt < Retries.maxRetries /\ Retries.maxRetries \in Int
  BY <1>3, DelaysBounds, RetriesType DEF RetryingInv, Justified, Backoffs
<1>5. attempt' \in Nat /\ attempt' <= Retries'.maxRetries
  BY <1>1, <1>2, <1>3, <1>4
<1>6. 0 \in Durations
  BY BackoffAssumption DEF Durations
<1>7. StateTypes'
  BY <1>1, <1>6 DEF RetryingInv, StateTypes, Phases
<1>8. invalid' = ValidateConfiguration(client')
  BY <1>1, <1>3
<1>9. PhaseInv' /\ PanicsExplained'
  BY <1>1, <1>3, <1>5, <1>8 DEF PhaseInv, PanicsExplained, Asking
<1> QED BY <1>2, <1>7, <1>9 DEF RetryingInv

\* Every step of New and of doWithRetry.
LEMMA RetryingInvKept == RetryingInv /\ [Next]_vars => RetryingInv'
<1> SUFFICES ASSUME RetryingInv, [Next]_vars PROVE RetryingInv'
  OBVIOUS
<1>1. ASSUME NEW o \in Options, Option(o) PROVE RetryingInv'
  BY <1>1, OptionKeeps
<1>2. CASE New
  BY <1>2, NewKeeps
<1>3. ASSUME NEW r \in Requests, Do(r) PROVE RetryingInv'
  BY <1>3, DoKeeps
<1>4. CASE doWithRetry
  BY <1>4, LimiterAllowKeeps, BreakerAllowKeeps, UpstreamReturnsKeeps, DecideKeeps, RetryKeeps
     DEF doWithRetry
<1>5. CASE UNCHANGED vars
  <2>1. ClientInv' /\ LimitersInv' /\ Retries' = Retries
        /\ \A name : Given(name)' = Given(name) /\ Last(name)' = Last(name)
    BY <1>5, OptionsStay DEF RetryingInv, vars, settings
  <2>2. StateTypes'
    BY <1>5 DEF RetryingInv, StateTypes, vars, inside, settings
  <2>3. Delays' = Delays /\ Asked(client', request') = Asked(client, request)
        /\ ValidateConfiguration(client') = ValidateConfiguration(client)
    BY <1>5 DEF Delays, vars, inside, settings
  <2>4. PhaseInv'
    BY <1>5, <2>1, <2>3 DEF RetryingInv, PhaseInv, vars, inside, settings
  <2>5. PanicsExplained'
    BY <1>5, <2>1 DEF RetryingInv, PanicsExplained, MetricsTwice, Caches, FallbackTooLate, Response,
                      vars, inside, settings
  <2> QED BY <2>1, <2>2, <2>4, <2>5 DEF RetryingInv
<1> QED BY <1>1, <1>2, <1>3, <1>4, <1>5 DEF Next

\* Whatever options New is given, and whatever becomes of the requests, the
\* invariant holds.
THEOREM RetryingInvariance == Spec => []RetryingInv
BY InitRetryingInv, RetryingInvKept, PTL DEF Spec

\* What the invariant says of the bound of attempt and of the derived fields.
LEMMA InvTypeOK == RetryingInv => TypeOK
<1> SUFFICES ASSUME RetryingInv PROVE TypeOK
  OBVIOUS
<1> DEFINE ofPolicy == IF client.retryPolicy = None THEN 0 ELSE client.retryPolicy.maxRetries
           most == Max({0, client.maxRetries, ofPolicy})
<1>1. /\ client.maxRetries \in Int /\ Retries.maxRetries \in Int
      /\ client.retryPolicy # None => Retries.maxRetries = ofPolicy
      /\ client.retryPolicy = None => Retries.maxRetries = client.maxRetries
  BY RetriesType DEF RetryingInv, ClientInv, Backoffs, Retries
<1>2. ofPolicy \in Int
  BY <1>1
<1> HIDE DEF ofPolicy
<1>3. /\ most \in {0, client.maxRetries, ofPolicy}
      /\ most >= 0 /\ most >= client.maxRetries /\ most >= ofPolicy
  <2>1. 0 \in Int /\ client.maxRetries \in Int
    BY <1>1
  <2> QED BY <1>2, <2>1, MaxOfThree, Zenon
<1> HIDE DEF most
<1>4. attempt \in 0..most
  BY <1>1, <1>2, <1>3 DEF RetryingInv, PhaseInv
<1>5. client.limiterRegistry # None => client.limiterRegistry.keyFunc = client.limiterKeyFunc
  BY DEF RetryingInv, LimitersInv, RegistryInv
<1> QED BY <1>4, <1>5
        DEF RetryingInv, StateTypes, ClientInv, TimeoutsAgree, TypeOK, most, ofPolicy

\* Fields that an option derives from those of another agree, in whatever order the
\* options are given, and no attempt follows the last retry (options.go,
\* client.go:438).
THEOREM RetryingTypes == Spec => []TypeOK
BY RetryingInvariance, InvTypeOK, PTL

\* New and doWithRetry panic in the cases PanicsExplained names, and in no other.
THEOREM PanicsAreExplained == Spec => []PanicsExplained
<1>1. RetryingInv => PanicsExplained
  BY DEF RetryingInv
<1> QED BY <1>1, RetryingInvariance, PTL

\* The delay slept is one of those the strategies or the header give.
LEMMA InvRetries == RetryingInv => RetriesInBounds
BY DelaysBounds, RetryingAssumption DEF RetryingInv, PhaseInv, RetriesInBounds

\* Every retry of doWithRetry has a reason and comes after a delay within its bounds.
THEOREM RetriesBounded == Spec => []RetriesInBounds
BY RetryingInvariance, InvRetries, PTL

\* The limiter asked is the one that governs the request.
LEMMA InvLimiter == RetryingInv => LimiterInForce
<1> SUFFICES ASSUME RetryingInv, InOrder, phase \in Asking
             PROVE  asked = Governing(request)
  BY DEF LimiterInForce, InOrder, Asking
<1> DEFINE r == client.limiterRegistry
           keyFunc == Last("limiterKeyFunc")
           fallback == Last("rateLimiter")
<1>1. /\ asked = Asked(client, request) /\ asked # NilPointer
      /\ keyFunc = client.limiterKeyFunc /\ fallback = client.rateLimiter
      /\ r = None <=> Given("limiterFor") = {}
      /\ given \in Seq(Options)
  BY DEF RetryingInv, StateTypes, PhaseInv, LimitersInv
<1>2. Governing(request) = IF keyFunc = None \/ ForKey(keyFunc[request]) = {} THEN fallback
                           ELSE given[Max(ForKey(keyFunc[request]))].limiter
  BY DEF Governing, ForKey
<1>3. CASE r = None
  <2>1. ForKey(keyFunc[request]) = {}
    BY <1>1, <1>3 DEF ForKey
  <2> QED BY <1>1, <1>2, <1>3, <2>1 DEF Asked
<1>4. CASE r # None
  <2>1. /\ r.keyFunc = keyFunc
        /\ r.fallback = IF fallback = None THEN NilPointer ELSE fallback
        /\ DOMAIN r.limiters = {given[i].limiterFor : i \in Given("limiterFor")}
        /\ \A key \in DOMAIN r.limiters : r.limiters[key] = given[Max(ForKey(key))].limiter
    BY <1>1, <1>4 DEF RetryingInv, LimitersInv, RegistryInv
  <2>2. asked = IF keyFunc # None /\ keyFunc[request] \in DOMAIN r.limiters
                  THEN r.limiters[keyFunc[request]] ELSE r.fallback
    BY <1>1, <1>4, <2>1 DEF Asked, GetLimiter
  <2>3. \A key : key \in DOMAIN r.limiters <=> ForKey(key) # {}
    BY <2>1 DEF ForKey
  <2> QED BY <1>1, <1>2, <2>1, <2>2, <2>3
<1> QED BY <1>3, <1>4

\* doWithRetry asks the limiter the options say, as long as the fallback and the key
\* function are given before the limiters for keys.
THEOREM LimitersInForce == Spec => []LimiterInForce
BY RetryingInvariance, InvLimiter, PTL

-----------------------------------------------------------------------------
(* The retry budget *)

N == Cardinality(Goroutines)

\* How many goroutines are at one of the labels.
CountAt(labels) == Cardinality({g \in Goroutines : pc[g] \in labels})

Adders == CountAt({"add"})
Zeroers == CountAt({"zero"})

\* The types alone, without the bound of current.
BudgetTypes ==
  /\ windowStart \in 0..MaxTime
  /\ current \in Nat
  /\ now \in 0..MaxTime
  /\ pc \in [Goroutines -> Labels]
  /\ clk \in [Goroutines -> 0..MaxTime]
  /\ start \in [Goroutines -> 0..MaxTime]
  /\ granted \in Nat
  /\ windows \in Nat
  /\ overlapped \in BOOLEAN

\* An adder passed its check when current was below MaxRetries, and only
\* adders have added since.
CurrentInv == current + Adders <= MaxRetries + N - 1

\* Each goroutine that has yet to zero current may let one more budget
\* through; when all are there, nobody is left to be granted anything.
GrantsInv ==
  \/ Zeroers = N /\ granted = 0
  \/ granted + MaxRetries * Zeroers <= MaxRetries * (N - 1) + (IF current <= MaxRetries THEN current ELSE MaxRetries)

\* What a goroutine read before its CAS still holds when the CAS succeeds.
WindowInv ==
  /\ WindowsApart
  /\ \A g \in Goroutines : At(g, "open") => WindowOver(clk[g], start[g])

BudgetInv == BudgetTypes /\ CurrentInv /\ GrantsInv /\ WindowInv

\* How many goroutines are at some labels.
LEMMA CountType ==
  ASSUME NEW CONSTANT labels
  PROVE  CountAt(labels) \in 0..N /\ N \in Nat
<1>1. {g \in Goroutines : pc[g] \in labels} \subseteq Goroutines
  OBVIOUS
<1> QED BY <1>1, FS_Subset, FS_CardinalityType, ConfigAssumption DEF CountAt, N

\* Nobody is at some labels.
LEMMA CountNone ==
  ASSUME NEW CONSTANT labels, \A g \in Goroutines : pc[g] \notin labels
  PROVE  CountAt(labels) = 0
<1>1. {g \in Goroutines : pc[g] \in labels} = {}
  OBVIOUS
<1> QED BY <1>1, FS_EmptySet DEF CountAt

\* Somebody is elsewhere.
LEMMA CountNotAll ==
  ASSUME NEW CONSTANT labels, NEW g \in Goroutines, pc[g] \notin labels
  PROVE  CountAt(labels) <= N - 1
<1>1. {h \in Goroutines : pc[h] \in labels} \subseteq Goroutines \ {g}
  OBVIOUS
<1>2. IsFiniteSet(Goroutines \ {g}) /\ Cardinality(Goroutines \ {g}) = N - 1
  BY FS_RemoveElement, ConfigAssumption DEF N
<1> QED BY <1>1, <1>2, FS_Subset DEF CountAt

\* Where goroutine g goes decides what its step does to a count.
LEMMA CountMoves ==
  ASSUME BudgetTypes, NEW CONSTANT labels, NEW g \in Goroutines, NEW l, Goto(g, l)
  PROVE  /\ pc[g] \in labels /\ l \notin labels => CountAt(labels)' = CountAt(labels) - 1
         /\ pc[g] \notin labels /\ l \in labels => CountAt(labels)' = CountAt(labels) + 1
         /\ (pc[g] \in labels <=> l \in labels) => CountAt(labels)' = CountAt(labels)
<1> DEFINE S == {h \in Goroutines : pc[h] \in labels}
           T == {h \in Goroutines : pc'[h] \in labels}
<1>1. pc'[g] = l /\ \A h \in Goroutines \ {g} : pc'[h] = pc[h]
  BY DEF BudgetTypes, Goto
<1>2. CountAt(labels) = Cardinality(S) /\ CountAt(labels)' = Cardinality(T)
  BY DEF CountAt
<1>3. IsFiniteSet(S) /\ (g \in S <=> pc[g] \in labels)
  BY FS_Subset, ConfigAssumption
<1>4. T = IF l \in labels THEN S \union {g} ELSE S \ {g}
  BY <1>1
<1> HIDE DEF S, T
<1> QED BY <1>2, <1>3, <1>4, FS_AddElement, FS_RemoveElement

\* The numbers of goroutines are numbers.
LEMMA Numbers ==
  ASSUME TRUE
  PROVE  /\ N \in Nat \ {0}
         /\ Adders \in 0..N
         /\ Zeroers \in 0..N
  BY ConfigAssumption, CountType, FS_EmptySet DEF N, Adders, Zeroers

\* The solver needs to be told that a product of numbers is a number.
LEMMA Product ==
  ASSUME NEW a \in Nat, NEW b \in Nat
  PROVE  a * b \in Nat
  OBVIOUS

\* The products of the bounds.
LEMMA Products ==
  ASSUME TRUE
  PROVE  /\ MaxRetries * N = MaxRetries * (N - 1) + MaxRetries
         /\ MaxRetries * (N - 1) \in Nat
         /\ MaxRetries * Zeroers \in Nat
<1>1. N - 1 \in Nat /\ N \in Nat /\ MaxRetries \in Nat /\ Zeroers \in Nat
  BY Numbers, ConfigAssumption
<1>2. MaxRetries * N = MaxRetries * (N - 1) + MaxRetries
  BY <1>1
<1>3. MaxRetries * (N - 1) \in Nat
  BY <1>1, Product
<1>4. MaxRetries * Zeroers \in Nat
  BY <1>1, Product
<1> QED BY <1>2, <1>3, <1>4

\* The bounds follow from the invariant.
LEMMA BudgetBounds ==
  ASSUME BudgetInv
  PROVE  BudgetTypeOK /\ GrantsBounded /\ WindowsApart
<1>1. BudgetTypeOK
  <2>1. current \in 0..(MaxRetries + N - 1)
    BY Numbers, ConfigAssumption DEF BudgetInv, BudgetTypes, CurrentInv
  <2> QED BY <2>1 DEF BudgetInv, BudgetTypes, BudgetTypeOK, N
<1>2. GrantsBounded
  <2>1. granted <= MaxRetries * N
    BY ConfigAssumption, Numbers, Products DEF BudgetInv, BudgetTypes, GrantsInv
  <2> QED BY <2>1 DEF GrantsBounded, N
<1> QED BY <1>1, <1>2 DEF BudgetInv, WindowInv

\* A new budget.
LEMMA InitBudgetInv ==
  ASSUME BudgetInit
  PROVE  BudgetInv
<1> USE ConfigAssumption, Numbers
<1>1. BudgetTypes
  <2>1. 0 \in 0..MaxTime /\ 0 \in Nat
    BY ConfigAssumption
  <2> QED BY <2>1, Zenon DEF BudgetInit, BudgetTypes, Labels
<1>2. Adders = 0 /\ Zeroers = 0
  BY CountNone DEF BudgetInit, Adders, Zeroers
<1>3. CurrentInv
  BY <1>2 DEF BudgetInit, CurrentInv
<1>4. GrantsInv
  BY <1>2, Products DEF BudgetInit, GrantsInv
<1>5. WindowInv
  BY DEF BudgetInit, WindowInv, WindowsApart, At
<1> QED BY <1>1, <1>3, <1>4, <1>5 DEF BudgetInv

\* The steps of one goroutine, as they change the counts.
LEMMA MoveAdders ==
  ASSUME BudgetTypes, NEW g \in Goroutines, NEW l, Goto(g, l)
  PROVE  /\ At(g, "add") /\ l # "add" => Adders' = Adders - 1
         /\ ~At(g, "add") /\ l = "add" => Adders' = Adders + 1
         /\ (At(g, "add") <=> l = "add") => Adders' = Adders
BY CountMoves DEF Adders, At

\* The same of those that have yet to zero current.
LEMMA MoveZeroers ==
  ASSUME BudgetTypes, NEW g \in Goroutines, NEW l, Goto(g, l)
  PROVE  /\ At(g, "zero") /\ l # "zero" => Zeroers' = Zeroers - 1
         /\ ~At(g, "zero") /\ l = "zero" => Zeroers' = Zeroers + 1
         /\ (At(g, "zero") <=> l = "zero") => Zeroers' = Zeroers
BY CountMoves DEF Zeroers, At

\* Every step keeps the types.
LEMMA NextBudgetTypes ==
  ASSUME BudgetInv, [BudgetNext]_budgetVars
  PROVE  BudgetTypes'
<1> USE ConfigAssumption DEF BudgetInv, BudgetTypes, Labels
<1>1. CASE UNCHANGED budgetVars
  BY <1>1 DEF budgetVars, budget, history
<1>2. CASE Tick
  BY <1>2 DEF Tick, budget, history
<1>3. ASSUME NEW g \in Goroutines, Allow(g)
      PROVE  BudgetTypes'
  <2> USE DEF Goto, budget, history
  <2>1. CASE ReadClock(g)
    BY <2>1 DEF ReadClock
  <2>2. CASE LoadStart(g)
    BY <2>2 DEF LoadStart
  <2>3. CASE OpenWindow(g)
    BY <2>3 DEF OpenWindow
  <2>4. CASE ZeroCurrent(g)
    BY <2>4 DEF ZeroCurrent
  <2>5. CASE Check(g)
    BY <2>5 DEF Check
  <2>6. CASE Add(g)
    BY <2>6 DEF Add
  <2> QED BY <1>3, <2>1, <2>2, <2>3, <2>4, <2>5, <2>6 DEF Allow
<1> QED BY <1>1, <1>2, <1>3 DEF BudgetNext

\* Only Check makes adders, and only below the maximum.
LEMMA NextCurrentInv ==
  ASSUME BudgetInv, [BudgetNext]_budgetVars
  PROVE  CurrentInv'
<1> USE ConfigAssumption, Numbers DEF BudgetInv, BudgetTypes, CurrentInv, N
<1>0. ASSUME UNCHANGED <<pc, current>>
      PROVE  CurrentInv'
  BY <1>0 DEF Adders, CountAt
<1>1. CASE UNCHANGED budgetVars
  BY <1>0, <1>1 DEF budgetVars, budget
<1>2. CASE Tick
  BY <1>0, <1>2 DEF Tick, budget
<1>3. ASSUME NEW g \in Goroutines, Allow(g)
      PROVE  CurrentInv'
  <2>1. CASE ReadClock(g)
    BY <2>1, MoveAdders DEF ReadClock, budget, At
  <2>2. CASE LoadStart(g)
    BY <2>2, MoveAdders DEF LoadStart, budget, At
  <2>3. CASE OpenWindow(g)
    BY <2>3, MoveAdders DEF OpenWindow, At
  <2>4. CASE ZeroCurrent(g)
    BY <2>4, MoveAdders DEF ZeroCurrent, At
  <2>5. CASE Check(g)
    <3>1. At(g, "check") /\ current' = current
      BY <2>5 DEF Check, budget
    <3>2. CASE Spent(current)
      BY <2>5, <3>1, <3>2, MoveAdders DEF Check, At
    <3>3. CASE ~Spent(current)
      <4>1. Adders <= N - 1
        BY <3>1, CountNotAll DEF Adders, At
      <4>2. Adders' = Adders + 1
        BY <2>5, <3>1, <3>3, MoveAdders DEF Check, At
      <4> QED BY <3>1, <3>3, <4>1, <4>2 DEF Spent
    <3> QED BY <3>2, <3>3
  <2>6. CASE Add(g)
    <3>1. Adders' = Adders - 1
      BY <2>6, MoveAdders DEF Add, At
    <3>2. current' = current + 1
      BY <2>6 DEF Add
    <3> QED BY <3>1, <3>2
  <2> QED BY <1>3, <2>1, <2>2, <2>3, <2>4, <2>5, <2>6 DEF Allow
<1> QED BY <1>1, <1>2, <1>3 DEF BudgetNext

\* A grant raises current; a window that opens takes its grants away and adds
\* a goroutine that owes the zeroing; the zeroing gives one budget back.
LEMMA NextGrantsInv ==
  ASSUME BudgetInv, [BudgetNext]_budgetVars
  PROVE  GrantsInv'
<1> USE ConfigAssumption, Numbers DEF BudgetInv, BudgetTypes, GrantsInv, N
<1>0. ASSUME UNCHANGED <<current, granted>>, Zeroers' = Zeroers
      PROVE  GrantsInv'
  BY <1>0
<1>1. CASE UNCHANGED budgetVars
  BY <1>0, <1>1 DEF budgetVars, budget, history, Zeroers, CountAt
<1>2. CASE Tick
  BY <1>0, <1>2 DEF Tick, budget, history, Zeroers, CountAt
<1>3. ASSUME NEW g \in Goroutines, Allow(g)
      PROVE  GrantsInv'
  <2>1. CASE ReadClock(g)
    BY <1>0, <2>1, MoveZeroers DEF ReadClock, budget, history, At
  <2>2. CASE LoadStart(g)
    BY <1>0, <2>2, MoveZeroers DEF LoadStart, budget, history, At
  <2>3. CASE OpenWindow(g)
    <3>1. CASE windowStart # start[g]
      BY <1>0, <2>3, <3>1, MoveZeroers DEF OpenWindow, history, At
    <3>2. CASE windowStart = start[g]
      <4>1. granted' = 0 /\ current' = current
        BY <2>3, <3>2 DEF OpenWindow
      <4>2. Zeroers' = Zeroers + 1
        BY <2>3, <3>2, MoveZeroers DEF OpenWindow, At
      <4>3. Zeroers <= N - 1
        BY <2>3, CountNotAll DEF OpenWindow, Zeroers, At
      <4>4. CASE Zeroers = N - 1
        BY <4>1, <4>2, <4>4
      <4>5. CASE Zeroers + 1 <= N - 1
        <5>1. MaxRetries * (Zeroers + 1) <= MaxRetries * (N - 1)
          BY <4>5
        <5> QED BY <4>1, <4>2, <5>1
      <4> QED BY <4>3, <4>4, <4>5
    <3> QED BY <3>1, <3>2
  <2>4. CASE ZeroCurrent(g)
    <3>1. granted' = granted /\ current' = 0 /\ Zeroers' = Zeroers - 1
      BY <2>4, MoveZeroers DEF ZeroCurrent, history, At
    <3>2. MaxRetries * (Zeroers - 1) = MaxRetries * Zeroers - MaxRetries
      OBVIOUS
    <3>3. MaxRetries * Zeroers \in Nat /\ MaxRetries * (N - 1) \in Nat
      BY Products DEF N
    <3> QED BY <3>1, <3>2, <3>3
  <2>5. CASE Check(g)
    BY <1>0, <2>5, MoveZeroers DEF Check, budget, history, At
  <2>6. CASE Add(g)
    <3>1. Zeroers' = Zeroers
      BY <2>6, MoveZeroers DEF Add, At
    <3>2. Zeroers <= N - 1
      BY <2>6, CountNotAll DEF Add, Zeroers, At
    <3>3. MaxRetries * Zeroers \in Nat /\ MaxRetries * (N - 1) \in Nat
      BY Products DEF N
    <3>4. current' = current + 1
      BY <2>6 DEF Add
    <3>5. granted' = IF current + 1 <= MaxRetries THEN granted + 1 ELSE granted
      BY <2>6 DEF Add, Within
    <3> QED BY <3>1, <3>2, <3>3, <3>4, <3>5
  <2> QED BY <1>3, <2>1, <2>2, <2>3, <2>4, <2>5, <2>6 DEF Allow
<1> QED BY <1>1, <1>2, <1>3 DEF BudgetNext

\* A CAS that succeeds moves windowStart on by a whole window.
LEMMA NextWindowInv ==
  ASSUME BudgetInv, [BudgetNext]_budgetVars
  PROVE  WindowInv'
<1> USE ConfigAssumption DEF BudgetInv, BudgetTypes, WindowInv, WindowsApart, WindowOver
<1>1. CASE UNCHANGED budgetVars
  BY <1>1 DEF budgetVars, budget, history, At
<1>2. CASE Tick
  BY <1>2 DEF Tick, budget, history, At
<1>3. ASSUME NEW g \in Goroutines, Allow(g)
      PROVE  WindowInv'
  <2> USE DEF At, Goto
  <2>1. CASE ReadClock(g)
    BY <2>1 DEF ReadClock, budget, history
  <2>2. CASE LoadStart(g)
    BY <2>2 DEF LoadStart, budget, history
  <2>3. CASE OpenWindow(g)
    <3>1. \A h \in Goroutines : (At(h, "open"))' => WindowOver(clk[h], start[h])'
      BY <2>3 DEF OpenWindow
    <3>2. (windows * PerWindow <= windowStart)'
      <4>1. CASE windowStart # start[g]
        BY <2>3, <4>1 DEF OpenWindow, history
      <4>2. CASE windowStart = start[g]
        <5>1. windows' = windows + 1 /\ windowStart' = clk[g]
          BY <2>3, <4>2 DEF OpenWindow
        <5>2. clk[g] - windowStart >= PerWindow
          BY <2>3, <4>2 DEF OpenWindow
        <5>3. (windows + 1) * PerWindow = windows * PerWindow + PerWindow
          OBVIOUS
        <5>4. windows * PerWindow \in Nat
          OBVIOUS
        <5> QED BY <5>1, <5>2, <5>3, <5>4
      <4> QED BY <4>1, <4>2
    <3> QED BY <3>1, <3>2
  <2>4. CASE ZeroCurrent(g)
    BY <2>4 DEF ZeroCurrent, history
  <2>5. CASE Check(g)
    BY <2>5 DEF Check, budget, history
  <2>6. CASE Add(g)
    BY <2>6 DEF Add
  <2> QED BY <1>3, <2>1, <2>2, <2>3, <2>4, <2>5, <2>6 DEF Allow
<1> QED BY <1>1, <1>2, <1>3 DEF BudgetNext

\* The invariant of RetryBudget.Allow, for any number of callers.
THEOREM BudgetInvariance == BudgetSpec => []BudgetInv
<1>1. BudgetInit => BudgetInv
  BY InitBudgetInv
<1>2. BudgetInv /\ [BudgetNext]_budgetVars => BudgetInv'
  <2> SUFFICES ASSUME BudgetInv, [BudgetNext]_budgetVars
               PROVE  BudgetInv'
    OBVIOUS
  <2> QED BY NextBudgetTypes, NextCurrentInv, NextGrantsInv, NextWindowInv DEF BudgetInv
<1> QED BY <1>1, <1>2, PTL DEF BudgetSpec

\* The types, and current at most MaxRetries + N - 1.
THEOREM BudgetTypeCorrect == BudgetSpec => []BudgetTypeOK
<1>1. BudgetInv => BudgetTypeOK
  BY BudgetBounds
<1> QED BY <1>1, BudgetInvariance, PTL

\* However the callers of RetryBudget.Allow interleave, a window grants at
\* most MaxRetries retries for each of them.
THEOREM GrantsAreBounded == BudgetSpec => []GrantsBounded
<1>1. BudgetInv => GrantsBounded
  BY BudgetBounds
<1> QED BY <1>1, BudgetInvariance, PTL

\* Windows begin at least PerWindow apart: no CAS is won on an old reading.
THEOREM WindowsAreApart == BudgetSpec => []WindowsApart
<1>1. BudgetInv => WindowsApart
  BY BudgetBounds
<1> QED BY <1>1, BudgetInvariance, PTL

-----------------------------------------------------------------------------
(* Calls of Allow that do not overlap *)

\* Only one goroutine is in Allow, and what has been granted has been counted.
OneAtATime ==
  ~overlapped =>
    /\ \A g, h \in Goroutines : g # h => At(g, "idle") \/ At(h, "idle")
    /\ granted <= current /\ granted <= MaxRetries
    /\ \A g \in Goroutines : At(g, "zero") => granted = 0

\* Without an overlap, calls of Allow follow each other.
LEMMA NextOneAtATime ==
  ASSUME BudgetInv, OneAtATime, [BudgetNext]_budgetVars
  PROVE  OneAtATime'
<1> USE ConfigAssumption DEF BudgetInv, BudgetTypes, OneAtATime, At, Goto
<1>1. CASE UNCHANGED budgetVars
  BY <1>1 DEF budgetVars, budget, history
<1>2. CASE Tick
  BY <1>2 DEF Tick, budget, history
<1>3. ASSUME NEW g \in Goroutines, Allow(g)
      PROVE  OneAtATime'
  <2>1. CASE ReadClock(g)
    BY <2>1 DEF ReadClock, budget, history
  <2>2. CASE LoadStart(g)
    BY <2>2 DEF LoadStart, budget, history
  <2>3. CASE OpenWindow(g)
    BY <2>3 DEF OpenWindow, history
  <2>4. CASE ZeroCurrent(g)
    BY <2>4 DEF ZeroCurrent, history
  <2>5. CASE Check(g)
    BY <2>5 DEF Check, budget, history
  <2>6. CASE Add(g)
    BY <2>6 DEF Add, Within
  <2> QED BY <1>3, <2>1, <2>2, <2>3, <2>4, <2>5, <2>6 DEF Allow
<1> QED BY <1>1, <1>2, <1>3 DEF BudgetNext

\* "Cap retries per time window": calls that do not overlap, of whichever
\* goroutines, never get more than MaxRetries in a window.
THEOREM SequentialCallsAreCapped == BudgetSpec => []SequentialBudget
<1>1. BudgetInit => OneAtATime
  BY ConfigAssumption DEF BudgetInit, OneAtATime, At
<1>2. BudgetInv /\ OneAtATime /\ [BudgetNext]_budgetVars => OneAtATime'
  BY NextOneAtATime
<1>3. OneAtATime => SequentialBudget
  BY DEF OneAtATime, SequentialBudget
<1> QED BY <1>1, <1>2, <1>3, BudgetInvariance, PTL DEF BudgetSpec
=============================================================================
