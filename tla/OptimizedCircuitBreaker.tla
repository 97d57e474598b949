----------------------- MODULE OptimizedCircuitBreaker -----------------------
(***************************************************************************)
(* The breaker of circuit_breaker_optimized.go next to that of             *)
(* circuit_breaker.go.  The optimized one is used like the other and makes *)
(* the same promises; it changes state with compare-and-swap where the     *)
(* other stores, orders some operations differently and has a Reset.  The  *)
(* operations the two have in common are those of CircuitBreaker.          *)
(***************************************************************************)
EXTENDS CircuitBreaker

VARIABLE
  optimized  \* which of the two implementations the goroutines share

bothVars == <<vars, optimized>>

-----------------------------------------------------------------------------
(* Allow *)

OptAllowLoad(g) ==
  /\ At(g, "idle")
  /\ Goto(g, IF state = Open THEN "optClock" ELSE "request")
  /\ Call(g)
  /\ UNCHANGED <<breakerVars, now, clk, history>>

OptAllowClock(g) ==
  /\ At(g, "optClock")
  /\ ReadClock(g)
  /\ Goto(g, "allowLast")
  /\ UNCHANGED <<breakerVars, now, history, overlapped>>

OptAllowCas(g) ==
  /\ At(g, "allowCas")
  /\ \/ /\ state = Open
        /\ state' = HalfOpen
        /\ Goto(g, "allowReset")
     \/ /\ state # Open
        /\ UNCHANGED state
        /\ Goto(g, "optReload")
  /\ UNCHANGED <<failures, lastFailure, successes, now, clk, history, overlapped>>

\* The goroutine that lost the race is admitted if the breaker is half-open.
OptAllowReload(g) ==
  /\ At(g, "optReload")
  /\ Goto(g, IF state = HalfOpen THEN "request" ELSE "idle")
  /\ UNCHANGED <<breakerVars, now, clk, history, overlapped>>

-----------------------------------------------------------------------------
(* RecordFailure *)

OptFailLoad(g) ==
  /\ At(g, "failLoad")
  /\ Goto(g, CASE state = Closed -> "failAdd"
               [] state = Open -> "optFailCount"
               [] state = HalfOpen -> "optFailZero")
  /\ UNCHANGED <<breakerVars, now, clk, history, overlapped>>

\* A failure recorded while the breaker is open.
OptFailCount(g) ==
  /\ At(g, "optFailCount")
  /\ failures' = failures + 1
  /\ Goto(g, "idle")
  /\ DropClock(g)
  /\ UNCHANGED <<state, lastFailure, successes, now, history, overlapped>>

OptFailOpen(g) ==
  /\ At(g, "failOpen")
  /\ \/ state = Closed /\ BecomeOpen(g)
     \/ state # Closed /\ DropClock(g) /\ UNCHANGED <<state, openedAt>>
  /\ Goto(g, "idle")
  /\ UNCHANGED <<failures, lastFailure, successes, now, recorded, overlapped>>

OptFailZero(g) ==
  /\ At(g, "optFailZero")
  /\ successes' = 0
  /\ Goto(g, "failHalfAdd")
  /\ UNCHANGED <<state, failures, lastFailure, now, clk, history, overlapped>>

OptFailHalfOpen(g) ==
  /\ At(g, "failHalfOpen")
  /\ BecomeOpen(g)
  /\ Goto(g, "idle")
  /\ UNCHANGED <<failures, lastFailure, successes, now, recorded, overlapped>>

-----------------------------------------------------------------------------
(* RecordSuccess *)

OptSuccClose(g) ==
  /\ At(g, "succClose")
  /\ \/ /\ state = HalfOpen
        /\ state' = Closed
        /\ Goto(g, "succZeroFailures")
     \/ /\ state # HalfOpen
        /\ UNCHANGED state
        /\ Goto(g, "idle")
  /\ UNCHANGED <<failures, lastFailure, successes, now, clk, history, overlapped>>

-----------------------------------------------------------------------------
(* Reset: four stores, between requests. *)

ResetState(g) ==
  /\ At(g, "idle")
  /\ state' = Closed
  /\ Goto(g, "resetFailures")
  /\ Call(g)
  /\ UNCHANGED <<failures, lastFailure, successes, now, clk, history>>

ResetFailures(g) ==
  /\ At(g, "resetFailures")
  /\ failures' = 0
  /\ Goto(g, "resetSuccesses")
  /\ UNCHANGED <<state, lastFailure, successes, now, clk, history, overlapped>>

ResetSuccesses(g) ==
  /\ At(g, "resetSuccesses")
  /\ successes' = 0
  /\ Goto(g, "resetLastFailure")
  /\ UNCHANGED <<state, failures, lastFailure, now, clk, history, overlapped>>

ResetLastFailure(g) ==
  /\ At(g, "resetLastFailure")
  /\ lastFailure' = 0
  /\ Goto(g, "idle")
  /\ UNCHANGED <<state, failures, successes, now, clk, history, overlapped>>

-----------------------------------------------------------------------------

OptAllow(g) ==
  \/ OptAllowLoad(g) \/ OptAllowClock(g) \/ AllowLast(g)
  \/ OptAllowCas(g) \/ OptAllowReload(g) \/ AllowReset(g)

OptRecordFailure(g) ==
  \/ FailStore(g) \/ OptFailLoad(g) \/ FailAdd(g) \/ OptFailCount(g)
  \/ OptFailOpen(g) \/ OptFailZero(g) \/ FailHalfAdd(g) \/ OptFailHalfOpen(g)

OptRecordSuccess(g) ==
  \/ SuccLoad(g) \/ SuccAdd(g) \/ OptSuccClose(g)
  \/ SuccZeroFailures(g) \/ SuccZeroSuccesses(g)

Reset(g) ==
  ResetState(g) \/ ResetFailures(g) \/ ResetSuccesses(g) \/ ResetLastFailure(g)

OptStep(g) ==
  \/ OptAllow(g)
  \/ RequestFails(g) \/ RequestSucceeds(g)
  \/ OptRecordFailure(g) \/ OptRecordSuccess(g)
  \/ Reset(g)

BothInit == Init /\ optimized \in BOOLEAN

BothStep(g) ==
  /\ \/ optimized /\ OptStep(g)
     \/ ~optimized /\ Step(g)
  /\ UNCHANGED optimized

BothTick == Tick /\ UNCHANGED optimized

BothNext == BothTick \/ \E g \in Goroutines : BothStep(g)

BothSpec == BothInit /\ [][BothNext]_bothVars

\* Time passes, and every goroutine is scheduled and keeps calling the breaker.
BothFairSpec ==
  /\ BothSpec
  /\ WF_bothVars(BothTick)
  /\ \A g \in Goroutines : WF_bothVars(BothStep(g))

-----------------------------------------------------------------------------

\* The types, and the bound of successes where there is one. (Not so in the
\* optimized breaker: of the goroutines whose success reaches the threshold only
\* the one that wins the CAS zeroes the counter, and one that lags behind lets
\* the others go through further recoveries.)
BothTypeOK ==
  /\ TypeOK
  /\ optimized \in BOOLEAN
  /\ ~optimized => SuccessesBounded

\* "RecoveryTimeout: Time before trying half-open": either breaker leaves Open
\* for half-open only and not before the timeout, or by Reset, as long as no two
\* calls of its methods have overlapped, however the requests themselves overlap.
\* (Allow's CAS also succeeds on a breaker reopened since lastFailure was read,
\* RecordFailure may put an older reading of the clock back into lastFailure, and
\* RecordSuccess of circuit_breaker.go stores Closed whatever the state has
\* become.)
SequentialTransitions ==
  [][~overlapped' /\ state = Open /\ state' # Open =>
       \/ state' = HalfOpen /\ now - openedAt >= RecoveryTimeout
       \/ optimized /\ \E g \in Goroutines : ResetState(g)]_bothVars
=============================================================================
