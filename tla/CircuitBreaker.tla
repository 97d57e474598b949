--------------------------- MODULE CircuitBreaker ---------------------------
(***************************************************************************)
(* The lock-free circuit breaker of circuit_breaker.go, one action per     *)
(* atomic operation, so that every interleaving of the goroutines that     *)
(* share one breaker is a behaviour.                                       *)
(*                                                                         *)
(* A goroutine uses the breaker the way doWithRetry does: Allow, then the  *)
(* upstream request, then exactly one of RecordFailure and RecordSuccess.  *)
(***************************************************************************)
EXTENDS Integers, FiniteSets

CONSTANTS
  Goroutines,        \* goroutines sharing the breaker
  FailureThreshold,  \* config.FailureThreshold, after the defaults are applied
  RecoveryTimeout,   \* config.RecoveryTimeout, in clock ticks
  SuccessThreshold,  \* config.SuccessThreshold
  HealthyAt,         \* the upstream fails no request finished at or after this time
  MaxTime            \* bound on the clock

ASSUME ConfigAssumption ==
  /\ IsFiniteSet(Goroutines)
  /\ FailureThreshold \in Nat \ {0}
  /\ RecoveryTimeout \in Nat \ {0}
  /\ SuccessThreshold \in Nat \ {0}
  /\ HealthyAt \in Nat
  /\ MaxTime \in Nat

VARIABLES
  state,        \* cb.state
  failures,     \* cb.failures
  lastFailure,  \* cb.lastFailure
  successes,    \* cb.successes
  now,          \* time.Now().UnixNano()
  pc,           \* pc[g]: the next atomic operation of goroutine g
  clk,          \* clk[g]: the clock reading g took at the start of its call
  recorded,     \* history: RecordFailure calls so far, up to FailureThreshold
  openedAt,     \* history: the time of the failure that last opened the breaker
  overlapped    \* history: whether two calls of the breaker's methods have overlapped

breakerVars == <<state, failures, lastFailure, successes>>
history == <<recorded, openedAt>>
vars == <<breakerVars, now, pc, clk, history, overlapped>>

Closed == "Closed"
Open == "Open"
HalfOpen == "HalfOpen"
States == {Closed, Open, HalfOpen}

Labels == {"idle", "allowLoad", "allowLast", "allowCas", "allowReset", "request",
           "failStore", "failLoad", "failAdd", "failOpen",
           "failHalfAdd", "failHalfOpen", "failHalfReset",
           "succLoad", "succAdd", "succClose", "succZeroFailures", "succZeroSuccesses",
           \* of OptimizedCircuitBreaker only:
           "optClock", "optReload", "optFailCount", "optFailZero",
           "resetFailures", "resetSuccesses", "resetLastFailure"}

TypeOK ==
  /\ state \in States
  /\ failures \in Nat
  /\ lastFailure \in 0..MaxTime
  /\ successes \in Nat
  /\ now \in 0..MaxTime
  /\ pc \in [Goroutines -> Labels]
  /\ clk \in [Goroutines -> 0..MaxTime]
  /\ recorded \in 0..FailureThreshold
  /\ openedAt \in 0..MaxTime
  /\ overlapped \in BOOLEAN

Init ==
  /\ state = Closed
  /\ failures = 0
  /\ lastFailure = 0
  /\ successes = 0
  /\ now = 0
  /\ pc = [g \in Goroutines |-> "idle"]
  /\ clk = [g \in Goroutines |-> 0]
  /\ recorded = 0
  /\ openedAt = 0
  /\ overlapped = FALSE

-----------------------------------------------------------------------------

At(g, label) == pc[g] = label
Goto(g, label) == pc' = [pc EXCEPT ![g] = label]
ReadClock(g) == clk' = [clk EXCEPT ![g] = now]
DropClock(g) == clk' = [clk EXCEPT ![g] = 0]

\* Goroutine g calls one of the breaker's methods.
Call(g) ==
  overlapped' = (overlapped \/ \E h \in Goroutines \ {g} : pc[h] \notin {"idle", "request"})

\* RecordFailure's and RecordSuccess's comparisons with the thresholds.
Opens_OffByOne(n) == n >= FailureThreshold - 1
Opens(n) == n >= FailureThreshold
Closes(n) == n >= SuccessThreshold

\* Allow's test that the recovery timeout has passed.
Recovered_Inverted(at, last) == at - last < RecoveryTimeout
Recovered(at, last) == at - last >= RecoveryTimeout

\* StoreInt64(&cb.state, Open), for the failure goroutine g saw at clk[g].
BecomeOpen(g) ==
  /\ state' = Open
  /\ openedAt' = IF state = Open THEN openedAt ELSE clk[g]
  /\ DropClock(g)

-----------------------------------------------------------------------------
(* Allow *)

AllowClock(g) ==
  /\ At(g, "idle")
  /\ ReadClock(g)
  /\ Goto(g, "allowLoad")
  /\ Call(g)
  /\ UNCHANGED <<breakerVars, now, history>>

AllowLoad(g) ==
  /\ At(g, "allowLoad")
  /\ IF state = Open
       THEN Goto(g, "allowLast") /\ UNCHANGED clk
       ELSE Goto(g, "request") /\ DropClock(g)
  /\ UNCHANGED <<breakerVars, now, history, overlapped>>

AllowLast(g) ==
  /\ At(g, "allowLast")
  /\ Goto(g, IF Recovered(clk[g], lastFailure) THEN "allowCas" ELSE "idle")
  /\ DropClock(g)
  /\ UNCHANGED <<breakerVars, now, history, overlapped>>

AllowCas(g) ==
  /\ At(g, "allowCas")
  /\ \/ /\ state = Open
        /\ state' = HalfOpen
        /\ Goto(g, "allowReset")
     \/ /\ state # Open
        /\ UNCHANGED state
        /\ Goto(g, "idle")
  /\ UNCHANGED <<failures, lastFailure, successes, now, clk, history, overlapped>>

AllowReset(g) ==
  /\ At(g, "allowReset")
  /\ successes' = 0
  /\ Goto(g, "request")
  /\ UNCHANGED <<state, failures, lastFailure, now, clk, history, overlapped>>

(* The admitted request returns: an error or a 5xx, or anything else. *)

RequestFails(g) ==
  /\ At(g, "request")
  /\ now < HealthyAt
  /\ ReadClock(g)
  /\ Goto(g, "failStore")
  /\ Call(g)
  /\ UNCHANGED <<breakerVars, now, history>>

RequestSucceeds(g) ==
  /\ At(g, "request")
  /\ Goto(g, "succLoad")
  /\ Call(g)
  /\ UNCHANGED <<breakerVars, now, clk, history>>

-----------------------------------------------------------------------------
(* RecordFailure *)

FailStore(g) ==
  /\ At(g, "failStore")
  /\ lastFailure' = clk[g]
  /\ recorded' = IF recorded < FailureThreshold THEN recorded + 1 ELSE recorded
  /\ Goto(g, "failLoad")
  /\ UNCHANGED <<state, failures, successes, now, clk, openedAt, overlapped>>

FailLoad(g) ==
  /\ At(g, "failLoad")
  /\ \/ state = Closed /\ Goto(g, "failAdd") /\ UNCHANGED clk
     \/ state = HalfOpen /\ Goto(g, "failHalfAdd") /\ UNCHANGED clk
     \/ state = Open /\ Goto(g, "idle") /\ DropClock(g)
  /\ UNCHANGED <<breakerVars, now, history, overlapped>>

FailAdd(g) ==
  /\ At(g, "failAdd")
  /\ failures' = failures + 1
  /\ \/ Opens(failures + 1) /\ Goto(g, "failOpen") /\ UNCHANGED clk
     \/ ~Opens(failures + 1) /\ Goto(g, "idle") /\ DropClock(g)
  /\ UNCHANGED <<state, lastFailure, successes, now, history, overlapped>>

FailOpen(g) ==
  /\ At(g, "failOpen")
  /\ BecomeOpen(g)
  /\ Goto(g, "idle")
  /\ UNCHANGED <<failures, lastFailure, successes, now, recorded, overlapped>>

FailHalfAdd(g) ==
  /\ At(g, "failHalfAdd")
  /\ failures' = failures + 1
  /\ Goto(g, "failHalfOpen")
  /\ UNCHANGED <<state, lastFailure, successes, now, clk, history, overlapped>>

FailHalfOpen(g) ==
  /\ At(g, "failHalfOpen")
  /\ BecomeOpen(g)
  /\ Goto(g, "failHalfReset")
  /\ UNCHANGED <<failures, lastFailure, successes, now, recorded, overlapped>>

FailHalfReset(g) ==
  /\ At(g, "failHalfReset")
  /\ successes' = 0
  /\ Goto(g, "idle")
  /\ UNCHANGED <<state, failures, lastFailure, now, clk, history, overlapped>>

-----------------------------------------------------------------------------
(* RecordSuccess *)

SuccLoad(g) ==
  /\ At(g, "succLoad")
  /\ Goto(g, IF state = HalfOpen THEN "succAdd" ELSE "idle")
  /\ UNCHANGED <<breakerVars, now, clk, history, overlapped>>

SuccAdd(g) ==
  /\ At(g, "succAdd")
  /\ successes' = successes + 1
  /\ Goto(g, IF Closes(successes + 1) THEN "succClose" ELSE "idle")
  /\ UNCHANGED <<state, failures, lastFailure, now, clk, history, overlapped>>

SuccClose(g) ==
  /\ At(g, "succClose")
  /\ state' = Closed
  /\ Goto(g, "succZeroFailures")
  /\ UNCHANGED <<failures, lastFailure, successes, now, clk, history, overlapped>>

SuccZeroFailures(g) ==
  /\ At(g, "succZeroFailures")
  /\ failures' = 0
  /\ Goto(g, "succZeroSuccesses")
  /\ UNCHANGED <<state, lastFailure, successes, now, clk, history, overlapped>>

\* A slip: the successes of this recovery count in the next.
SuccZeroSuccesses_Forgotten(g) ==
  /\ At(g, "succZeroSuccesses")
  /\ Goto(g, "idle")
  /\ UNCHANGED <<breakerVars, now, clk, history, overlapped>>

SuccZeroSuccesses(g) ==
  /\ At(g, "succZeroSuccesses")
  /\ successes' = 0
  /\ Goto(g, "idle")
  /\ UNCHANGED <<state, failures, lastFailure, now, clk, history, overlapped>>

-----------------------------------------------------------------------------

Tick ==
  /\ now < MaxTime
  /\ now' = now + 1
  /\ UNCHANGED <<breakerVars, pc, clk, history, overlapped>>

Allow(g) ==
  AllowClock(g) \/ AllowLoad(g) \/ AllowLast(g) \/ AllowCas(g) \/ AllowReset(g)

RecordFailure(g) ==
  \/ FailStore(g) \/ FailLoad(g) \/ FailAdd(g) \/ FailOpen(g)
  \/ FailHalfAdd(g) \/ FailHalfOpen(g) \/ FailHalfReset(g)

RecordSuccess(g) ==
  \/ SuccLoad(g) \/ SuccAdd(g) \/ SuccClose(g)
  \/ SuccZeroFailures(g) \/ SuccZeroSuccesses(g)

Step(g) ==
  \/ Allow(g)
  \/ RequestFails(g) \/ RequestSucceeds(g)
  \/ RecordFailure(g) \/ RecordSuccess(g)

Next == Tick \/ \E g \in Goroutines : Step(g)

Spec == Init /\ [][Next]_vars

\* Time passes, and every goroutine is scheduled and keeps issuing requests.
FairSpec == Spec /\ WF_vars(Tick) /\ \A g \in Goroutines : WF_vars(Step(g))

-----------------------------------------------------------------------------

\* Whatever the goroutines' interleaving, the breaker refuses nobody before
\* FailureThreshold failures have been recorded: a load of a stale state or a
\* lost reset cannot open a breaker that has seen too few failures.
NoEarlyOpen == state # Closed => recorded = FailureThreshold

\* successes is bounded although Allow and RecordSuccess reset it in stores of
\* their own: every goroutine but one can add to it past the threshold before the
\* first of them has zeroed it.
SuccessesBounded == successes <= SuccessThreshold + Cardinality(Goroutines) - 1

\* Once the upstream has healed, the breaker ends up closed for good, if
\* requests keep coming: no interleaving of half-finished Allow, RecordFailure
\* and RecordSuccess calls leaves it refusing requests for ever.
ClosesAfterHealing == <>[](state = Closed)

=============================================================================
