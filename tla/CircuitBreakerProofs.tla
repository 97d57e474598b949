------------------------ MODULE CircuitBreakerProofs ------------------------
(***************************************************************************)
(* What the circuit breakers guarantee under every interleaving of any     *)
(* number of goroutines, for all thresholds and timeouts.                  *)
(***************************************************************************)
EXTENDS OptimizedCircuitBreaker, FiniteSetTheorems, TLAPS

N == Cardinality(Goroutines)

\* RecordSuccess between the AddInt64 that reached the threshold and the store
\* that zeroes successes; RecordFailure between storing lastFailure and AddInt64.
ClosingLabels == {"succClose", "succZeroFailures", "succZeroSuccesses"}
ReportingLabels == {"failLoad", "failAdd"}

\* RecordFailure with a state other than Closed, or about to open the breaker.
OpeningLabels ==
  {"failOpen", "failHalfAdd", "failHalfOpen", "optFailZero", "optFailCount"}

\* A step of either breaker.
AnyStep(g) == Step(g) \/ OptStep(g)
AnyNext == Tick \/ \E g \in Goroutines : AnyStep(g)

\* How many goroutines are at one of the labels.
CountAt(labels) == Cardinality({g \in Goroutines : pc[g] \in labels})

Closing == CountAt(ClosingLabels)
Reporting == CountAt(ReportingLabels)

\* The types.
Types ==
  /\ state \in States
  /\ failures \in Nat
  /\ lastFailure \in 0..MaxTime
  /\ successes \in Nat
  /\ now \in 0..MaxTime
  /\ pc \in [Goroutines -> Labels]
  /\ clk \in [Goroutines -> 0..MaxTime]
  /\ recorded \in 0..FailureThreshold
  /\ openedAt \in 0..MaxTime
  /\ overlapped \in BOOLEAN

\* Past the threshold, each success belongs to a goroutine that will zero them.
SuccessesInv == successes <= SuccessThreshold - 1 + Closing

\* Below the threshold the breaker is closed, nobody is about to open it, and
\* a failure that has been recorded is counted at most once.
ClosedInv ==
  recorded < FailureThreshold =>
    /\ state = Closed
    /\ failures + Reporting <= recorded
    /\ \A g \in Goroutines : pc[g] \notin OpeningLabels

IInv == Types /\ SuccessesInv /\ ClosedInv

LEMMA CountType ==
  ASSUME NEW CONSTANT labels
  PROVE  CountAt(labels) \in 0..N /\ N \in Nat
<1>1. {g \in Goroutines : pc[g] \in labels} \subseteq Goroutines
  OBVIOUS
<1> QED BY <1>1, FS_Subset, FS_CardinalityType, ConfigAssumption DEF CountAt, N

LEMMA CountNone ==
  ASSUME NEW CONSTANT labels, \A g \in Goroutines : pc[g] \notin labels
  PROVE  CountAt(labels) = 0
<1>1. {g \in Goroutines : pc[g] \in labels} = {}
  OBVIOUS
<1> QED BY <1>1, FS_EmptySet DEF CountAt

LEMMA CountSome ==
  ASSUME NEW CONSTANT labels, NEW g \in Goroutines, pc[g] \in labels
  PROVE  CountAt(labels) >= 1
<1> DEFINE S == {h \in Goroutines : pc[h] \in labels}
<1>1. IsFiniteSet(S) /\ S # {}
  BY FS_Subset, ConfigAssumption
<1>2. Cardinality(S) \in Nat /\ Cardinality(S) # 0
  BY <1>1, FS_EmptySet, FS_CardinalityType
<1> QED BY <1>2 DEF CountAt

\* Where goroutine g goes decides what its step does to a count.
LEMMA CountMoves ==
  ASSUME Types, NEW CONSTANT labels, NEW g \in Goroutines, NEW l, Goto(g, l)
  PROVE  /\ pc[g] \in labels /\ l \notin labels => CountAt(labels)' = CountAt(labels) - 1
         /\ pc[g] \notin labels /\ l \in labels => CountAt(labels)' = CountAt(labels) + 1
         /\ (pc[g] \in labels <=> l \in labels) => CountAt(labels)' = CountAt(labels)
<1> DEFINE S == {h \in Goroutines : pc[h] \in labels}
           T == {h \in Goroutines : pc'[h] \in labels}
<1>1. pc'[g] = l /\ \A h \in Goroutines \ {g} : pc'[h] = pc[h]
  BY DEF Types, Goto
<1>2. CountAt(labels) = Cardinality(S) /\ CountAt(labels)' = Cardinality(T)
  BY DEF CountAt
<1>3. IsFiniteSet(S) /\ (g \in S <=> pc[g] \in labels)
  BY FS_Subset, ConfigAssumption
<1>4. T = IF l \in labels THEN S \union {g} ELSE S \ {g}
  BY <1>1
<1> HIDE DEF S, T
<1> QED BY <1>2, <1>3, <1>4, FS_AddElement, FS_RemoveElement

LEMMA Numbers ==
  ASSUME TRUE
  PROVE  /\ N \in Nat
         /\ Closing \in 0..N
         /\ Reporting \in 0..N
  BY ConfigAssumption, CountType DEF N, Closing, Reporting

LEMMA InitIInv ==
  ASSUME Init
  PROVE  IInv
<1>1. Types
  <2>1. 0 \in 0..MaxTime /\ 0 \in Nat /\ 0 \in 0..FailureThreshold
    BY ConfigAssumption
  <2> QED BY <2>1, Zenon DEF Init, Types, Labels, States
<1>2. Closing = 0 /\ Reporting = 0
  BY CountNone DEF Init, Closing, Reporting, ClosingLabels, ReportingLabels
<1>3. SuccessesInv
  BY <1>2, ConfigAssumption DEF Init, SuccessesInv
<1>4. ClosedInv
  BY <1>2 DEF Init, ClosedInv, OpeningLabels
<1> QED BY <1>1, <1>3, <1>4 DEF IInv

LEMMA MoveClosing ==
  ASSUME Types, NEW g \in Goroutines, NEW l, Goto(g, l)
  PROVE  /\ pc[g] \in ClosingLabels /\ l \notin ClosingLabels => Closing' = Closing - 1
         /\ pc[g] \notin ClosingLabels /\ l \in ClosingLabels => Closing' = Closing + 1
         /\ (pc[g] \in ClosingLabels <=> l \in ClosingLabels) => Closing' = Closing
BY CountMoves DEF Closing, ClosingLabels

LEMMA MoveReporting ==
  ASSUME Types, NEW g \in Goroutines, NEW l, Goto(g, l)
  PROVE  /\ pc[g] \in ReportingLabels /\ l \notin ReportingLabels => Reporting' = Reporting - 1
         /\ pc[g] \notin ReportingLabels /\ l \in ReportingLabels => Reporting' = Reporting + 1
         /\ (pc[g] \in ReportingLabels <=> l \in ReportingLabels) => Reporting' = Reporting
BY CountMoves DEF Reporting, ReportingLabels

\* Every step keeps the types.
LEMMA NextTypes ==
  ASSUME Types, [AnyNext]_vars
  PROVE  Types'
<1> USE ConfigAssumption DEF Types, Labels, States, Closed, Open, HalfOpen, breakerVars, history, Call,
      Goto, ReadClock, DropClock, BecomeOpen
<1>1. CASE UNCHANGED vars
  BY <1>1 DEF vars
<1>2. CASE Tick
  BY <1>2 DEF Tick
<1>3. ASSUME NEW g \in Goroutines, AnyStep(g)
      PROVE  Types'
  <2>1. CASE AllowClock(g)
    BY <2>1 DEF AllowClock
  <2>2. CASE AllowLoad(g)
    BY <2>2 DEF AllowLoad
  <2>3. CASE AllowLast(g)
    BY <2>3 DEF AllowLast
  <2>4. CASE AllowCas(g)
    BY <2>4 DEF AllowCas
  <2>5. CASE AllowReset(g)
    BY <2>5 DEF AllowReset
  <2>6. CASE RequestFails(g)
    BY <2>6 DEF RequestFails
  <2>7. CASE RequestSucceeds(g)
    BY <2>7 DEF RequestSucceeds
  <2>8. CASE FailStore(g)
    BY <2>8 DEF FailStore
  <2>9. CASE FailLoad(g)
    BY <2>9 DEF FailLoad
  <2>10. CASE FailAdd(g)
    BY <2>10 DEF FailAdd
  <2>11. CASE FailOpen(g)
    BY <2>11 DEF FailOpen
  <2>12. CASE FailHalfAdd(g)
    BY <2>12 DEF FailHalfAdd
  <2>13. CASE FailHalfOpen(g)
    BY <2>13 DEF FailHalfOpen
  <2>14. CASE FailHalfReset(g)
    BY <2>14 DEF FailHalfReset
  <2>15. CASE SuccLoad(g)
    BY <2>15 DEF SuccLoad
  <2>16. CASE SuccAdd(g)
    BY <2>16 DEF SuccAdd
  <2>17. CASE SuccClose(g)
    BY <2>17 DEF SuccClose
  <2>18. CASE SuccZeroFailures(g)
    BY <2>18 DEF SuccZeroFailures
  <2>19. CASE SuccZeroSuccesses(g)
    BY <2>19 DEF SuccZeroSuccesses
  <2>20. CASE OptAllowLoad(g)
    BY <2>20 DEF OptAllowLoad
  <2>21. CASE OptAllowClock(g)
    BY <2>21 DEF OptAllowClock
  <2>22. CASE OptAllowCas(g)
    BY <2>22 DEF OptAllowCas
  <2>23. CASE OptAllowReload(g)
    BY <2>23 DEF OptAllowReload
  <2>24. CASE OptFailLoad(g)
    BY <2>24 DEF OptFailLoad
  <2>25. CASE OptFailCount(g)
    BY <2>25 DEF OptFailCount
  <2>26. CASE OptFailOpen(g)
    BY <2>26 DEF OptFailOpen
  <2>27. CASE OptFailZero(g)
    BY <2>27 DEF OptFailZero
  <2>28. CASE OptFailHalfOpen(g)
    BY <2>28 DEF OptFailHalfOpen
  <2>29. CASE OptSuccClose(g)
    BY <2>29 DEF OptSuccClose
  <2>30. CASE ResetState(g)
    BY <2>30 DEF ResetState
  <2>31. CASE ResetFailures(g)
    BY <2>31 DEF ResetFailures
  <2>32. CASE ResetSuccesses(g)
    BY <2>32 DEF ResetSuccesses
  <2>33. CASE ResetLastFailure(g)
    BY <2>33 DEF ResetLastFailure
  <2> QED BY <1>3, <2>1, <2>2, <2>3, <2>4, <2>5, <2>6, <2>7, <2>8, <2>9, <2>10,
            <2>11, <2>12, <2>13, <2>14, <2>15, <2>16, <2>17, <2>18, <2>19, <2>20,
            <2>21, <2>22, <2>23, <2>24, <2>25, <2>26, <2>27, <2>28, <2>29, <2>30, <2>31, <2>32, <2>33
         DEF AnyStep, Step, Allow, RecordFailure, RecordSuccess,
             OptStep, OptAllow, OptRecordFailure, OptRecordSuccess, Reset
<1> QED BY <1>1, <1>2, <1>3 DEF AnyNext

\* Only SuccAdd raises successes, and past the threshold it raises Closing too.
LEMMA NextSuccessesInv ==
  ASSUME Types, SuccessesInv, [Next]_vars
  PROVE  SuccessesInv'
<1> USE ConfigAssumption, Numbers DEF Types, SuccessesInv
<1>1. CASE UNCHANGED vars
  BY <1>1 DEF vars, breakerVars, Closing, CountAt
<1>2. CASE Tick
  BY <1>2 DEF Tick, breakerVars, Closing, CountAt
<1>3. ASSUME NEW g \in Goroutines, Step(g)
      PROVE  SuccessesInv'
  <2>1. CASE AllowClock(g)
    BY <2>1, MoveClosing DEF AllowClock, ClosingLabels, At, breakerVars
  <2>2. CASE AllowLoad(g)
    BY <2>2, MoveClosing DEF AllowLoad, ClosingLabels, At, breakerVars
  <2>3. CASE AllowLast(g)
    BY <2>3, MoveClosing DEF AllowLast, ClosingLabels, At, breakerVars
  <2>4. CASE AllowCas(g)
    BY <2>4, MoveClosing DEF AllowCas, ClosingLabels, At, breakerVars
  <2>5. CASE AllowReset(g)
    <3>1. successes' = 0 /\ Closing' = Closing
      BY <2>5, MoveClosing DEF AllowReset, ClosingLabels, At
    <3> QED BY <3>1
  <2>6. CASE RequestFails(g)
    BY <2>6, MoveClosing DEF RequestFails, ClosingLabels, At, breakerVars
  <2>7. CASE RequestSucceeds(g)
    BY <2>7, MoveClosing DEF RequestSucceeds, ClosingLabels, At, breakerVars
  <2>8. CASE FailStore(g)
    BY <2>8, MoveClosing DEF FailStore, ClosingLabels, At, breakerVars
  <2>9. CASE FailLoad(g)
    BY <2>9, MoveClosing DEF FailLoad, ClosingLabels, At, breakerVars
  <2>10. CASE FailAdd(g)
    BY <2>10, MoveClosing DEF FailAdd, ClosingLabels, At, breakerVars
  <2>11. CASE FailOpen(g)
    BY <2>11, MoveClosing DEF FailOpen, ClosingLabels, At, breakerVars
  <2>12. CASE FailHalfAdd(g)
    BY <2>12, MoveClosing DEF FailHalfAdd, ClosingLabels, At, breakerVars
  <2>13. CASE FailHalfOpen(g)
    BY <2>13, MoveClosing DEF FailHalfOpen, ClosingLabels, At, breakerVars
  <2>14. CASE FailHalfReset(g)
    <3>1. successes' = 0 /\ Closing' = Closing
      BY <2>14, MoveClosing DEF FailHalfReset, ClosingLabels, At
    <3> QED BY <3>1
  <2>15. CASE SuccLoad(g)
    BY <2>15, MoveClosing DEF SuccLoad, ClosingLabels, At, breakerVars
  <2>16. CASE SuccAdd(g)
    <3>1. pc[g] = "succAdd" /\ successes' = successes + 1
      BY <2>16 DEF SuccAdd, At
    <3>2. CASE Closes(successes + 1)
      <4>1. Closing' = Closing + 1
        BY <2>16, <3>1, <3>2, MoveClosing DEF SuccAdd, ClosingLabels
      <4> QED BY <3>1, <4>1
    <3>3. CASE ~Closes(successes + 1)
      <4>1. Closing' = Closing
        BY <2>16, <3>1, <3>3, MoveClosing DEF SuccAdd, ClosingLabels
      <4>2. successes + 1 <= SuccessThreshold - 1
        BY <3>3 DEF Closes
      <4> QED BY <3>1, <4>1, <4>2
    <3> QED BY <3>2, <3>3
  <2>17. CASE SuccClose(g)
    BY <2>17, MoveClosing DEF SuccClose, ClosingLabels, At, breakerVars
  <2>18. CASE SuccZeroFailures(g)
    BY <2>18, MoveClosing DEF SuccZeroFailures, ClosingLabels, At, breakerVars
  <2>19. CASE SuccZeroSuccesses(g)
    <3>1. successes' = 0 /\ Closing' = Closing - 1
      BY <2>19, MoveClosing DEF SuccZeroSuccesses, ClosingLabels, At
    <3>2. Closing' \in Nat
      BY <2>19, <3>1, CountSome DEF SuccZeroSuccesses, Closing, ClosingLabels, At
    <3> QED BY <3>1, <3>2
  <2> QED BY <1>3, <2>1, <2>2, <2>3, <2>4, <2>5, <2>6, <2>7, <2>8, <2>9, <2>10,
            <2>11, <2>12, <2>13, <2>14, <2>15, <2>16, <2>17, <2>18, <2>19
         DEF Step, Allow, RecordFailure, RecordSuccess
<1> QED BY <1>1, <1>2, <1>3 DEF Next

\* Each failure recorded is added to failures at most once.
LEMMA NextClosedInv ==
  ASSUME Types, ClosedInv, [AnyNext]_vars
  PROVE  ClosedInv'
<1> USE ConfigAssumption, Numbers DEF Types, ClosedInv, OpeningLabels
<1>1. CASE UNCHANGED vars
  BY <1>1 DEF vars, breakerVars, history, Reporting, CountAt
<1>2. CASE Tick
  BY <1>2 DEF Tick, breakerVars, history, Reporting, CountAt
<1>3. ASSUME NEW g \in Goroutines, AnyStep(g)
      PROVE  ClosedInv'
  <2>1. CASE AllowClock(g)
    <3>1. Reporting' = Reporting
      BY <2>1, MoveReporting DEF AllowClock, ReportingLabels, At
    <3>2. \A h \in Goroutines :
            pc'[h] \in OpeningLabels => pc'[h] = pc[h]
      BY <2>1 DEF AllowClock, Goto, Labels
    <3> QED BY <2>1, <3>1, <3>2 DEF AllowClock, breakerVars, history
  <2>2. CASE AllowLoad(g)
    <3>1. Reporting' = Reporting
      BY <2>2, MoveReporting DEF AllowLoad, ReportingLabels, At
    <3>2. \A h \in Goroutines :
            pc'[h] \in OpeningLabels => pc'[h] = pc[h]
      BY <2>2 DEF AllowLoad, Goto, Labels
    <3> QED BY <2>2, <3>1, <3>2 DEF AllowLoad, breakerVars, history
  <2>3. CASE AllowLast(g)
    <3>1. Reporting' = Reporting
      BY <2>3, MoveReporting DEF AllowLast, ReportingLabels, At
    <3>2. \A h \in Goroutines :
            pc'[h] \in OpeningLabels => pc'[h] = pc[h]
      BY <2>3 DEF AllowLast, Goto, Labels
    <3> QED BY <2>3, <3>1, <3>2 DEF AllowLast, breakerVars, history
  <2>4. CASE AllowCas(g)
    BY <2>4, MoveReporting DEF AllowCas, ReportingLabels, At, Goto, Labels, history, Open, Closed
  <2>5. CASE AllowReset(g)
    <3>1. Reporting' = Reporting
      BY <2>5, MoveReporting DEF AllowReset, ReportingLabels, At
    <3>2. \A h \in Goroutines :
            pc'[h] \in OpeningLabels => pc'[h] = pc[h]
      BY <2>5 DEF AllowReset, Goto, Labels
    <3> QED BY <2>5, <3>1, <3>2 DEF AllowReset, breakerVars, history
  <2>6. CASE RequestFails(g)
    <3>1. Reporting' = Reporting
      BY <2>6, MoveReporting DEF RequestFails, ReportingLabels, At
    <3>2. \A h \in Goroutines :
            pc'[h] \in OpeningLabels => pc'[h] = pc[h]
      BY <2>6 DEF RequestFails, Goto, Labels
    <3> QED BY <2>6, <3>1, <3>2 DEF RequestFails, breakerVars, history
  <2>7. CASE RequestSucceeds(g)
    <3>1. Reporting' = Reporting
      BY <2>7, MoveReporting DEF RequestSucceeds, ReportingLabels, At
    <3>2. \A h \in Goroutines :
            pc'[h] \in OpeningLabels => pc'[h] = pc[h]
      BY <2>7 DEF RequestSucceeds, Goto, Labels
    <3> QED BY <2>7, <3>1, <3>2 DEF RequestSucceeds, breakerVars, history
  <2>8. CASE FailStore(g)
    <3>1. Reporting' = Reporting + 1
      BY <2>8, MoveReporting DEF FailStore, ReportingLabels, At
    <3>2. recorded' = recorded + 1 \/ recorded' = FailureThreshold
      BY <2>8 DEF FailStore
    <3> QED BY <2>8, <3>1, <3>2 DEF FailStore, At, Goto, Labels
  <2>9. CASE FailLoad(g)
    <3>1. CASE state = Closed
      BY <2>9, <3>1, MoveReporting
         DEF FailLoad, ReportingLabels, At, Goto, Labels, breakerVars, history, Closed, Open, HalfOpen
    <3>2. CASE state # Closed
      BY <2>9, <3>2 DEF FailLoad, breakerVars, history
    <3> QED BY <3>1, <3>2
  <2>10. CASE FailAdd(g)
    <3>1. SUFFICES ASSUME recorded < FailureThreshold
                 PROVE  ClosedInv'
      BY <2>10 DEF FailAdd, history
    <3>2. pc[g] = "failAdd" /\ g \in Goroutines
      BY <2>10 DEF FailAdd, At
    <3>3. Reporting >= 1
      BY <3>2, CountSome DEF Reporting, ReportingLabels
    <3>4. ~Opens(failures + 1)
      BY <3>1, <3>3 DEF Opens
    <3>5. Reporting' = Reporting - 1
      BY <2>10, <3>2, <3>4, MoveReporting DEF FailAdd, ReportingLabels
    <3> QED BY <2>10, <3>1, <3>4, <3>5 DEF FailAdd, At, Goto, Labels, history
  <2>11. CASE FailOpen(g)
    BY <2>11 DEF FailOpen, At, history, BecomeOpen
  <2>12. CASE FailHalfAdd(g)
    BY <2>12 DEF FailHalfAdd, At, history, BecomeOpen
  <2>13. CASE FailHalfOpen(g)
    BY <2>13 DEF FailHalfOpen, At, history, BecomeOpen
  <2>14. CASE FailHalfReset(g)
    <3>1. Reporting' = Reporting
      BY <2>14, MoveReporting DEF FailHalfReset, ReportingLabels, At
    <3>2. \A h \in Goroutines :
            pc'[h] \in OpeningLabels => pc'[h] = pc[h]
      BY <2>14 DEF FailHalfReset, Goto, Labels
    <3> QED BY <2>14, <3>1, <3>2 DEF FailHalfReset, breakerVars, history
  <2>15. CASE SuccLoad(g)
    <3>1. Reporting' = Reporting
      BY <2>15, MoveReporting DEF SuccLoad, ReportingLabels, At
    <3>2. \A h \in Goroutines :
            pc'[h] \in OpeningLabels => pc'[h] = pc[h]
      BY <2>15 DEF SuccLoad, Goto, Labels
    <3> QED BY <2>15, <3>1, <3>2 DEF SuccLoad, breakerVars, history
  <2>16. CASE SuccAdd(g)
    <3>1. Reporting' = Reporting
      BY <2>16, MoveReporting DEF SuccAdd, ReportingLabels, At
    <3>2. \A h \in Goroutines :
            pc'[h] \in OpeningLabels => pc'[h] = pc[h]
      BY <2>16 DEF SuccAdd, Goto, Labels
    <3> QED BY <2>16, <3>1, <3>2 DEF SuccAdd, breakerVars, history
  <2>17. CASE SuccClose(g)
    <3>1. Reporting' = Reporting
      BY <2>17, MoveReporting DEF SuccClose, ReportingLabels, At
    <3>2. \A h \in Goroutines :
            pc'[h] \in OpeningLabels => pc'[h] = pc[h]
      BY <2>17 DEF SuccClose, Goto, Labels
    <3> QED BY <2>17, <3>1, <3>2 DEF SuccClose, breakerVars, history
  <2>18. CASE SuccZeroFailures(g)
    <3>1. failures' = 0 /\ Reporting' = Reporting
      BY <2>18, MoveReporting DEF SuccZeroFailures, ReportingLabels, At
    <3> QED BY <2>18, <3>1 DEF SuccZeroFailures, At, Goto, Labels, history
  <2>19. CASE SuccZeroSuccesses(g)
    <3>1. Reporting' = Reporting
      BY <2>19, MoveReporting DEF SuccZeroSuccesses, ReportingLabels, At
    <3>2. \A h \in Goroutines :
            pc'[h] \in OpeningLabels => pc'[h] = pc[h]
      BY <2>19 DEF SuccZeroSuccesses, Goto, Labels
    <3> QED BY <2>19, <3>1, <3>2 DEF SuccZeroSuccesses, breakerVars, history
  <2>20. CASE OptAllowLoad(g)
    <3>1. Reporting' = Reporting
      BY <2>20, MoveReporting DEF OptAllowLoad, ReportingLabels, At
    <3>2. \A h \in Goroutines :
            pc'[h] \in OpeningLabels => pc'[h] = pc[h]
      BY <2>20 DEF OptAllowLoad, Goto, Labels
    <3> QED BY <2>20, <3>1, <3>2 DEF OptAllowLoad, breakerVars, history
  <2>21. CASE OptAllowClock(g)
    <3>1. Reporting' = Reporting
      BY <2>21, MoveReporting DEF OptAllowClock, ReportingLabels, At
    <3>2. \A h \in Goroutines :
            pc'[h] \in OpeningLabels => pc'[h] = pc[h]
      BY <2>21 DEF OptAllowClock, Goto, Labels
    <3> QED BY <2>21, <3>1, <3>2 DEF OptAllowClock, breakerVars, history
  <2>22. CASE OptAllowCas(g)
    BY <2>22, MoveReporting DEF OptAllowCas, ReportingLabels, At, Goto, Labels, history, Open, Closed
  <2>23. CASE OptAllowReload(g)
    <3>1. Reporting' = Reporting
      BY <2>23, MoveReporting DEF OptAllowReload, ReportingLabels, At
    <3>2. \A h \in Goroutines :
            pc'[h] \in OpeningLabels => pc'[h] = pc[h]
      BY <2>23 DEF OptAllowReload, Goto, Labels
    <3> QED BY <2>23, <3>1, <3>2 DEF OptAllowReload, breakerVars, history
  <2>24. CASE OptFailLoad(g)
    <3>1. CASE state = Closed
      BY <2>24, <3>1, MoveReporting
         DEF OptFailLoad, ReportingLabels, At, Goto, Labels, breakerVars, history, Closed, Open, HalfOpen
    <3>2. CASE state # Closed
      BY <2>24, <3>2 DEF OptFailLoad, breakerVars, history
    <3> QED BY <3>1, <3>2
  <2>25. CASE OptFailCount(g)
    BY <2>25 DEF OptFailCount, At, history, BecomeOpen
  <2>26. CASE OptFailOpen(g)
    BY <2>26 DEF OptFailOpen, At, history, BecomeOpen
  <2>27. CASE OptFailZero(g)
    BY <2>27 DEF OptFailZero, At, history, BecomeOpen
  <2>28. CASE OptFailHalfOpen(g)
    BY <2>28 DEF OptFailHalfOpen, At, history, BecomeOpen
  <2>29. CASE OptSuccClose(g)
    <3>1. Reporting' = Reporting
      BY <2>29, MoveReporting DEF OptSuccClose, ReportingLabels, At
    <3>2. \A h \in Goroutines :
            pc'[h] \in OpeningLabels => pc'[h] = pc[h]
      BY <2>29 DEF OptSuccClose, Goto, Labels
    <3> QED BY <2>29, <3>1, <3>2 DEF OptSuccClose, breakerVars, history
  <2>30. CASE ResetState(g)
    <3>1. Reporting' = Reporting
      BY <2>30, MoveReporting DEF ResetState, ReportingLabels, At
    <3>2. \A h \in Goroutines :
            pc'[h] \in OpeningLabels => pc'[h] = pc[h]
      BY <2>30 DEF ResetState, Goto, Labels
    <3> QED BY <2>30, <3>1, <3>2 DEF ResetState, breakerVars, history
  <2>31. CASE ResetFailures(g)
    <3>1. failures' = 0 /\ Reporting' = Reporting
      BY <2>31, MoveReporting DEF ResetFailures, ReportingLabels, At
    <3> QED BY <2>31, <3>1 DEF ResetFailures, At, Goto, Labels, history
  <2>32. CASE ResetSuccesses(g)
    <3>1. Reporting' = Reporting
      BY <2>32, MoveReporting DEF ResetSuccesses, ReportingLabels, At
    <3>2. \A h \in Goroutines :
            pc'[h] \in OpeningLabels => pc'[h] = pc[h]
      BY <2>32 DEF ResetSuccesses, Goto, Labels
    <3> QED BY <2>32, <3>1, <3>2 DEF ResetSuccesses, breakerVars, history
  <2>33. CASE ResetLastFailure(g)
    <3>1. Reporting' = Reporting
      BY <2>33, MoveReporting DEF ResetLastFailure, ReportingLabels, At
    <3>2. \A h \in Goroutines :
            pc'[h] \in OpeningLabels => pc'[h] = pc[h]
      BY <2>33 DEF ResetLastFailure, Goto, Labels
    <3> QED BY <2>33, <3>1, <3>2 DEF ResetLastFailure, breakerVars, history
  <2> QED BY <1>3, <2>1, <2>2, <2>3, <2>4, <2>5, <2>6, <2>7, <2>8, <2>9, <2>10,
            <2>11, <2>12, <2>13, <2>14, <2>15, <2>16, <2>17, <2>18, <2>19, <2>20,
            <2>21, <2>22, <2>23, <2>24, <2>25, <2>26, <2>27, <2>28, <2>29, <2>30, <2>31, <2>32, <2>33
         DEF AnyStep, Step, Allow, RecordFailure, RecordSuccess,
             OptStep, OptAllow, OptRecordFailure, OptRecordSuccess, Reset
<1> QED BY <1>1, <1>2, <1>3 DEF AnyNext

THEOREM Invariance == Spec => []IInv
<1>1. Init => IInv
  BY InitIInv
<1>2. IInv /\ [Next]_vars => IInv'
  <2>1. ASSUME IInv, [Next]_vars
        PROVE  IInv'
    <3>1. [AnyNext]_vars
      BY <2>1 DEF Next, AnyNext, AnyStep
    <3> QED BY <2>1, <3>1, NextTypes, NextSuccessesInv, NextClosedInv DEF IInv
  <2> QED BY <2>1
<1> QED BY <1>1, <1>2, PTL DEF Spec

LEMMA Bounded ==
  ASSUME Types, SuccessesInv
  PROVE  TypeOK /\ SuccessesBounded
BY Numbers, ConfigAssumption DEF Types, SuccessesInv, TypeOK, SuccessesBounded, N

\* The types, and successes at most SuccessThreshold + N - 1, although it is
\* reset by stores that come after the comparison with the threshold.
THEOREM TypeCorrect == Spec => [](TypeOK /\ SuccessesBounded)
<1>1. IInv => TypeOK /\ SuccessesBounded
  BY Bounded DEF IInv
<1> QED BY <1>1, Invariance, PTL

\* The same for either breaker, but for the bound of the optimized one.
THEOREM BothTypesCorrect == BothSpec => []BothTypeOK
<1> DEFINE BInv == Types /\ optimized \in BOOLEAN /\ (~optimized => SuccessesInv)
<1>1. BothInit => BInv
  BY InitIInv DEF BothInit, IInv
<1>2. ASSUME BInv, [BothNext]_bothVars
      PROVE  BInv'
  <2>1. [AnyNext]_vars /\ optimized' = optimized
    BY <1>2 DEF BothNext, BothTick, BothStep, bothVars, AnyNext, AnyStep
  <2>2. ~optimized => [Next]_vars
    BY <1>2 DEF BothNext, BothTick, BothStep, bothVars, Next
  <2> QED BY <1>2, <2>1, <2>2, NextTypes, NextSuccessesInv
<1>3. BInv => BothTypeOK
  BY Bounded DEF BothTypeOK, Types, TypeOK
<1> QED BY <1>1, <1>2, <1>3, PTL DEF BothSpec

\* No interleaving of Allow, RecordFailure and RecordSuccess opens the breaker
\* before RecordFailure has been called FailureThreshold times.
THEOREM OpensOnlyAtThreshold == Spec => []NoEarlyOpen
<1>1. IInv => NoEarlyOpen
  BY ConfigAssumption DEF IInv, Types, ClosedInv, NoEarlyOpen
<1> QED BY <1>1, Invariance, PTL

\* The same for the optimized breaker, Reset included, whichever of the two
\* implementations the goroutines share.
THEOREM BothOpenOnlyAtThreshold == BothSpec => []NoEarlyOpen
<1> DEFINE BInv == Types /\ ClosedInv
<1>1. BothInit => BInv
  BY InitIInv DEF BothInit, IInv
<1>2. ASSUME BInv, [BothNext]_bothVars
      PROVE  BInv'
  <2>1. [AnyNext]_vars
    BY <1>2 DEF BothNext, BothTick, BothStep, bothVars, AnyNext, AnyStep
  <2> QED BY <1>2, <2>1, NextTypes, NextClosedInv
<1>3. BInv => NoEarlyOpen
  BY ConfigAssumption DEF Types, ClosedInv, NoEarlyOpen
<1> QED BY <1>1, <1>2, <1>3, PTL DEF BothSpec

-----------------------------------------------------------------------------
(* One call of the breaker's methods at a time. *)

\* No reading of the clock is ahead of it.
ClockInv == openedAt <= now /\ \A g \in Goroutines : clk[g] <= now

Calling(g) == pc[g] \notin {"idle", "request"}

\* What a goroutine in the middle of a method knows, if no other is in one: the
\* state it has loaded, that lastFailure is the failure it has come to record,
\* and that the timeout it has found over is over.
Knows(g) ==
  /\ At(g, "failStore") => openedAt <= clk[g]
  /\ pc[g] \in {"failLoad", "failAdd", "failOpen", "optFailZero", "failHalfAdd", "failHalfOpen"}
       => lastFailure = clk[g]
  /\ pc[g] \in {"succAdd", "succClose"} => state = HalfOpen
  /\ At(g, "allowCas") /\ state = Open => now - openedAt >= RecoveryTimeout
  /\ pc[g] \in {"resetFailures", "resetSuccesses", "resetLastFailure"} => state = Closed

SequentialInv ==
  ~overlapped =>
    /\ \A g, h \in Goroutines : Calling(g) /\ Calling(h) => g = h
    /\ state = Open => openedAt <= lastFailure
    /\ \A g \in Goroutines : Knows(g)

\* Every step of either breaker keeps it.
LEMMA NextClockInv ==
  ASSUME Types, ClockInv, [AnyNext]_vars
  PROVE  ClockInv'
<1> USE DEF Types, ClockInv, breakerVars, history, Goto, ReadClock, DropClock, BecomeOpen
<1>1. CASE UNCHANGED vars
  BY <1>1 DEF vars
<1>2. CASE Tick
  BY <1>2 DEF Tick
<1>3. ASSUME NEW g \in Goroutines, AnyStep(g)
      PROVE  ClockInv'
  <2>1. CASE AllowClock(g)
    BY <2>1 DEF AllowClock
  <2>2. CASE AllowLoad(g)
    BY <2>2 DEF AllowLoad
  <2>3. CASE AllowLast(g)
    BY <2>3 DEF AllowLast, Recovered
  <2>4. CASE AllowCas(g)
    BY <2>4 DEF AllowCas
  <2>5. CASE AllowReset(g)
    BY <2>5 DEF AllowReset
  <2>6. CASE RequestFails(g)
    BY <2>6 DEF RequestFails
  <2>7. CASE RequestSucceeds(g)
    BY <2>7 DEF RequestSucceeds
  <2>8. CASE FailStore(g)
    BY <2>8 DEF FailStore
  <2>9. CASE FailLoad(g)
    BY <2>9 DEF FailLoad
  <2>10. CASE FailAdd(g)
    BY <2>10 DEF FailAdd
  <2>11. CASE FailOpen(g)
    BY <2>11 DEF FailOpen
  <2>12. CASE FailHalfAdd(g)
    BY <2>12 DEF FailHalfAdd
  <2>13. CASE FailHalfOpen(g)
    BY <2>13 DEF FailHalfOpen
  <2>14. CASE FailHalfReset(g)
    BY <2>14 DEF FailHalfReset
  <2>15. CASE SuccLoad(g)
    BY <2>15 DEF SuccLoad
  <2>16. CASE SuccAdd(g)
    BY <2>16 DEF SuccAdd
  <2>17. CASE SuccClose(g)
    BY <2>17 DEF SuccClose
  <2>18. CASE SuccZeroFailures(g)
    BY <2>18 DEF SuccZeroFailures
  <2>19. CASE SuccZeroSuccesses(g)
    BY <2>19 DEF SuccZeroSuccesses
  <2>20. CASE OptAllowLoad(g)
    BY <2>20 DEF OptAllowLoad
  <2>21. CASE OptAllowClock(g)
    BY <2>21 DEF OptAllowClock
  <2>22. CASE OptAllowCas(g)
    BY <2>22 DEF OptAllowCas
  <2>23. CASE OptAllowReload(g)
    BY <2>23 DEF OptAllowReload
  <2>24. CASE OptFailLoad(g)
    BY <2>24 DEF OptFailLoad
  <2>25. CASE OptFailCount(g)
    BY <2>25 DEF OptFailCount
  <2>26. CASE OptFailOpen(g)
    BY <2>26 DEF OptFailOpen
  <2>27. CASE OptFailZero(g)
    BY <2>27 DEF OptFailZero
  <2>28. CASE OptFailHalfOpen(g)
    BY <2>28 DEF OptFailHalfOpen
  <2>29. CASE OptSuccClose(g)
    BY <2>29 DEF OptSuccClose
  <2>30. CASE ResetState(g)
    BY <2>30 DEF ResetState
  <2>31. CASE ResetFailures(g)
    BY <2>31 DEF ResetFailures
  <2>32. CASE ResetSuccesses(g)
    BY <2>32 DEF ResetSuccesses
  <2>33. CASE ResetLastFailure(g)
    BY <2>33 DEF ResetLastFailure
  <2> QED BY <1>3, <2>1, <2>2, <2>3, <2>4, <2>5, <2>6, <2>7, <2>8, <2>9, <2>10,
            <2>11, <2>12, <2>13, <2>14, <2>15, <2>16, <2>17, <2>18, <2>19, <2>20,
            <2>21, <2>22, <2>23, <2>24, <2>25, <2>26, <2>27, <2>28, <2>29, <2>30,
            <2>31, <2>32, <2>33
         DEF AnyStep, Step, Allow, RecordFailure, RecordSuccess,
             OptStep, OptAllow, OptRecordFailure, OptRecordSuccess, Reset
<1> QED BY <1>1, <1>2, <1>3 DEF AnyNext

\* So does every step what the goroutines know.
LEMMA NextSequentialInv ==
  ASSUME Types, ClockInv, SequentialInv, [AnyNext]_vars
  PROVE  SequentialInv'
<1> USE ConfigAssumption
    DEF Types, Labels, States, Closed, Open, HalfOpen, ClockInv, SequentialInv, Calling, Knows,
        Call, breakerVars, history, At, Goto, ReadClock, DropClock, BecomeOpen
<1>1. CASE UNCHANGED vars
  BY <1>1 DEF vars
<1>2. CASE Tick
  BY <1>2 DEF Tick
<1>3. ASSUME NEW g \in Goroutines, AnyStep(g)
      PROVE  SequentialInv'
  <2>1. CASE AllowClock(g)
    BY <2>1 DEF AllowClock
  <2>2. CASE AllowLoad(g)
    BY <2>2 DEF AllowLoad
  <2>3. CASE AllowLast(g)
    BY <2>3 DEF AllowLast, Recovered
  <2>4. CASE AllowCas(g)
    BY <2>4 DEF AllowCas
  <2>5. CASE AllowReset(g)
    BY <2>5 DEF AllowReset
  <2>6. CASE RequestFails(g)
    BY <2>6 DEF RequestFails
  <2>7. CASE RequestSucceeds(g)
    BY <2>7 DEF RequestSucceeds
  <2>8. CASE FailStore(g)
    BY <2>8 DEF FailStore
  <2>9. CASE FailLoad(g)
    BY <2>9 DEF FailLoad
  <2>10. CASE FailAdd(g)
    BY <2>10 DEF FailAdd
  <2>11. CASE FailOpen(g)
    BY <2>11 DEF FailOpen
  <2>12. CASE FailHalfAdd(g)
    BY <2>12 DEF FailHalfAdd
  <2>13. CASE FailHalfOpen(g)
    BY <2>13 DEF FailHalfOpen
  <2>14. CASE FailHalfReset(g)
    BY <2>14 DEF FailHalfReset
  <2>15. CASE SuccLoad(g)
    BY <2>15 DEF SuccLoad
  <2>16. CASE SuccAdd(g)
    BY <2>16 DEF SuccAdd
  <2>17. CASE SuccClose(g)
    BY <2>17 DEF SuccClose
  <2>18. CASE SuccZeroFailures(g)
    BY <2>18 DEF SuccZeroFailures
  <2>19. CASE SuccZeroSuccesses(g)
    BY <2>19 DEF SuccZeroSuccesses
  <2>20. CASE OptAllowLoad(g)
    <3>1. CASE overlapped'
      BY <3>1
    <3>2. CASE ~overlapped'
      <4>1. ~overlapped /\ \A h \in Goroutines \ {g} : ~Calling(h)
        BY <2>20, <3>2 DEF OptAllowLoad
      <4>2. \A h \in Goroutines :
              pc'[h] = IF h # g THEN pc[h] ELSE IF state = Open THEN "optClock" ELSE "request"
        BY <2>20 DEF OptAllowLoad
      <4>3. UNCHANGED <<state, lastFailure, openedAt, now, clk>>
        BY <2>20 DEF OptAllowLoad
      <4>4. \A h, i \in Goroutines : Calling(h)' /\ Calling(i)' => h = i
        BY <4>1, <4>2
      <4>5. \A h \in Goroutines : Knows(h)'
        BY <4>1, <4>2, <4>3
      <4> QED BY <4>1, <4>3, <4>4, <4>5
    <3> QED BY <3>1, <3>2
  <2>21. CASE OptAllowClock(g)
    BY <2>21 DEF OptAllowClock
  <2>22. CASE OptAllowCas(g)
    BY <2>22 DEF OptAllowCas
  <2>23. CASE OptAllowReload(g)
    BY <2>23 DEF OptAllowReload
  <2>24. CASE OptFailLoad(g)
    BY <2>24 DEF OptFailLoad
  <2>25. CASE OptFailCount(g)
    BY <2>25 DEF OptFailCount
  <2>26. CASE OptFailOpen(g)
    BY <2>26 DEF OptFailOpen
  <2>27. CASE OptFailZero(g)
    BY <2>27 DEF OptFailZero
  <2>28. CASE OptFailHalfOpen(g)
    BY <2>28 DEF OptFailHalfOpen
  <2>29. CASE OptSuccClose(g)
    BY <2>29 DEF OptSuccClose
  <2>30. CASE ResetState(g)
    BY <2>30 DEF ResetState
  <2>31. CASE ResetFailures(g)
    BY <2>31 DEF ResetFailures
  <2>32. CASE ResetSuccesses(g)
    BY <2>32 DEF ResetSuccesses
  <2>33. CASE ResetLastFailure(g)
    BY <2>33 DEF ResetLastFailure
  <2> QED BY <1>3, <2>1, <2>2, <2>3, <2>4, <2>5, <2>6, <2>7, <2>8, <2>9, <2>10,
            <2>11, <2>12, <2>13, <2>14, <2>15, <2>16, <2>17, <2>18, <2>19, <2>20,
            <2>21, <2>22, <2>23, <2>24, <2>25, <2>26, <2>27, <2>28, <2>29, <2>30,
            <2>31, <2>32, <2>33
         DEF AnyStep, Step, Allow, RecordFailure, RecordSuccess,
             OptStep, OptAllow, OptRecordFailure, OptRecordSuccess, Reset
<1> QED BY <1>1, <1>2, <1>3 DEF AnyNext

\* The only steps that lead out of Open.
LEMMA LeavingOpen ==
  ASSUME NEW g \in Goroutines, state = Open, state' # Open
  PROVE  /\ Step(g) => AllowCas(g) \/ SuccClose(g)
         /\ OptStep(g) => OptAllowCas(g) \/ ResetState(g)
BY DEF Step, Allow, RecordFailure, RecordSuccess,
       OptStep, OptAllow, OptRecordFailure, OptRecordSuccess, Reset,
       AllowClock, AllowLoad, AllowLast, AllowReset, RequestFails, RequestSucceeds,
       FailStore, FailLoad, FailAdd, FailOpen, FailHalfAdd, FailHalfOpen, FailHalfReset,
       SuccLoad, SuccAdd, SuccZeroFailures, SuccZeroSuccesses,
       OptAllowLoad, OptAllowClock, OptAllowReload, OptFailLoad, OptFailCount, OptFailOpen,
       OptFailZero, OptFailHalfOpen, OptSuccClose,
       ResetFailures, ResetSuccesses, ResetLastFailure,
       breakerVars, BecomeOpen, Open, HalfOpen

\* As long as no two calls of Allow, RecordFailure, RecordSuccess and Reset have
\* overlapped, either breaker leaves Open for half-open only and not before
\* RecoveryTimeout has passed since the failure that opened it, or by Reset.
THEOREM RecoveryIsAwaited == BothSpec => SequentialTransitions
<1> DEFINE BInv == Types /\ ClockInv /\ SequentialInv
<1>1. BothInit => BInv
  <2>1. ASSUME Init PROVE Types
    BY <2>1, InitIInv DEF IInv
  <2>2. ASSUME Init PROVE ClockInv /\ SequentialInv
    <3>1. \A g \in Goroutines : pc[g] = "idle" /\ clk[g] = 0
      BY <2>2 DEF Init
    <3> QED BY <2>2, <3>1 DEF Init, ClockInv, SequentialInv, Calling, Knows, At, Closed, Open
  <2> QED BY <2>1, <2>2 DEF BothInit
<1>2. ASSUME BInv, [BothNext]_bothVars
      PROVE  BInv'
  <2>1. [AnyNext]_vars
    BY <1>2 DEF BothNext, BothTick, BothStep, bothVars, AnyNext, AnyStep
  <2> QED BY <1>2, <2>1, NextTypes, NextClockInv, NextSequentialInv
<1>3. ASSUME BInv, BothNext, ~overlapped', state = Open, state' # Open
      PROVE  \/ state' = HalfOpen /\ now - openedAt >= RecoveryTimeout
             \/ optimized /\ \E g \in Goroutines : ResetState(g)
  <2>1. PICK g \in Goroutines : BothStep(g)
    BY <1>3 DEF BothNext, BothTick, Tick, breakerVars
  <2>2. AllowCas(g) \/ OptAllowCas(g) \/ SuccClose(g) \/ (optimized /\ ResetState(g))
    BY <1>3, <2>1, LeavingOpen DEF BothStep
  <2>3. CASE AllowCas(g) \/ OptAllowCas(g)
    BY <1>3, <2>3 DEF AllowCas, OptAllowCas, SequentialInv, Knows
  <2>4. CASE SuccClose(g)
    BY <1>3, <2>4 DEF SuccClose, SequentialInv, Knows, At, Open, HalfOpen
  <2>5. CASE optimized /\ ResetState(g)
    BY <2>5
  <2> QED BY <2>2, <2>3, <2>4, <2>5
<1>4. BInv /\ [BothNext]_bothVars
        => [~overlapped' /\ state = Open /\ state' # Open =>
              \/ state' = HalfOpen /\ now - openedAt >= RecoveryTimeout
              \/ optimized /\ \E g \in Goroutines : ResetState(g)]_bothVars
  BY <1>3
<1> QED BY <1>1, <1>2, <1>4, PTL DEF BothSpec, SequentialTransitions
=============================================================================
