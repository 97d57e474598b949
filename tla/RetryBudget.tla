---------------------------- MODULE RetryBudget ----------------------------
(***************************************************************************)
(* The retry budget of retry_policy.go: at most maxRetries retries in each *)
(* window of perWindow.  Allow opens a new window with a CAS and zeroes    *)
(* the counter with a separate store, then loads the counter and adds to   *)
(* it; one action per atomic operation.                                    *)
(***************************************************************************)
EXTENDS Integers, FiniteSets

CONSTANTS
  Goroutines,  \* callers of Allow
  MaxRetries,  \* rb.maxRetries
  PerWindow,   \* rb.perWindow, in clock ticks
  MaxTime      \* bound on the clock

ASSUME ConfigAssumption ==
  /\ IsFiniteSet(Goroutines)
  /\ Goroutines # {}
  /\ MaxRetries \in Nat
  /\ PerWindow \in Nat \ {0}
  /\ MaxTime \in Nat

VARIABLES
  windowStart,  \* rb.windowStart
  current,      \* rb.current
  now,          \* time.Now().UnixNano()
  pc,           \* pc[g]: the next atomic operation of goroutine g
  clk,          \* clk[g]: Allow's now
  start,        \* start[g]: the windowStart g loaded
  granted,      \* history: retries granted since the window was opened
  windows,      \* history: windows opened after the first
  overlapped    \* history: whether two calls of Allow have overlapped

budget == <<windowStart, current>>
history == <<granted, windows>>
budgetVars == <<budget, now, pc, clk, start, history, overlapped>>

Labels == {"idle", "loadStart", "open", "zero", "check", "add"}

\* The check-then-add overshoots: every goroutine but one can add after its
\* check was overtaken. The excess does not grow from window to window.
BudgetTypeOK ==
  /\ windowStart \in 0..MaxTime
  /\ current \in 0..(MaxRetries + Cardinality(Goroutines) - 1)
  /\ now \in 0..MaxTime
  /\ pc \in [Goroutines -> Labels]
  /\ clk \in [Goroutines -> 0..MaxTime]
  /\ start \in [Goroutines -> 0..MaxTime]
  /\ granted \in Nat
  /\ windows \in Nat
  /\ overlapped \in BOOLEAN

BudgetInit ==
  /\ windowStart = 0
  /\ current = 0
  /\ now = 0
  /\ pc = [g \in Goroutines |-> "idle"]
  /\ clk = [g \in Goroutines |-> 0]
  /\ start = [g \in Goroutines |-> 0]
  /\ granted = 0
  /\ windows = 0
  /\ overlapped = FALSE

-----------------------------------------------------------------------------

At(g, label) == pc[g] = label
Goto(g, label) == pc' = [pc EXCEPT ![g] = label]

WindowOver(at, from) == at - from >= PerWindow

\* newCurrent <= maxRetries, after the add.
Within_Unchecked(n) == TRUE
Within(n) == n <= MaxRetries

ReadClock(g) ==
  /\ At(g, "idle")
  /\ clk' = [clk EXCEPT ![g] = now]
  /\ Goto(g, "loadStart")
  /\ overlapped' = (overlapped \/ \E h \in Goroutines : ~At(h, "idle"))
  /\ UNCHANGED <<budget, now, start, history>>

LoadStart(g) ==
  /\ At(g, "loadStart")
  /\ IF WindowOver(clk[g], windowStart)
       THEN /\ start' = [start EXCEPT ![g] = windowStart]
            /\ Goto(g, "open")
            /\ UNCHANGED clk
       ELSE /\ clk' = [clk EXCEPT ![g] = 0]
            /\ Goto(g, "check")
            /\ UNCHANGED start
  /\ UNCHANGED <<budget, now, history, overlapped>>

\* A slip: a store in the place of the CAS.
OpenWindow_BlindStore(g) ==
  /\ At(g, "open")
  /\ windowStart' = clk[g]
  /\ Goto(g, "zero")
  /\ granted' = 0
  /\ windows' = windows + 1
  /\ clk' = [clk EXCEPT ![g] = 0]
  /\ start' = [start EXCEPT ![g] = 0]
  /\ UNCHANGED <<current, now, overlapped>>

\* CompareAndSwap of windowStart.
OpenWindow(g) ==
  /\ At(g, "open")
  /\ \/ /\ windowStart = start[g]
        /\ windowStart' = clk[g]
        /\ Goto(g, "zero")
        /\ granted' = 0
        /\ windows' = windows + 1
     \/ /\ windowStart # start[g]
        /\ Goto(g, "check")
        /\ UNCHANGED <<windowStart, history>>
  /\ clk' = [clk EXCEPT ![g] = 0]
  /\ start' = [start EXCEPT ![g] = 0]
  /\ UNCHANGED <<current, now, overlapped>>

ZeroCurrent(g) ==
  /\ At(g, "zero")
  /\ current' = 0
  /\ Goto(g, "check")
  /\ UNCHANGED <<windowStart, now, clk, start, history, overlapped>>

\* current >= maxRetries.
Spent_OffByOne(n) == n > MaxRetries
Spent(n) == n >= MaxRetries

Check(g) ==
  /\ At(g, "check")
  /\ Goto(g, IF Spent(current) THEN "idle" ELSE "add")
  /\ UNCHANGED <<budget, now, clk, start, history, overlapped>>

\* A slip: the grant is not counted.
Add_Uncounted(g) ==
  /\ At(g, "add")
  /\ granted' = IF Within(current + 1) THEN granted + 1 ELSE granted
  /\ Goto(g, "idle")
  /\ UNCHANGED <<budget, now, clk, start, windows, overlapped>>

Add(g) ==
  /\ At(g, "add")
  /\ current' = current + 1
  /\ granted' = IF Within(current + 1) THEN granted + 1 ELSE granted
  /\ Goto(g, "idle")
  /\ UNCHANGED <<windowStart, now, clk, start, windows, overlapped>>

Tick ==
  /\ now < MaxTime
  /\ now' = now + 1
  /\ UNCHANGED <<budget, pc, clk, start, history, overlapped>>

Allow(g) ==
  \/ ReadClock(g) \/ LoadStart(g) \/ OpenWindow(g)
  \/ ZeroCurrent(g) \/ Check(g) \/ Add(g)

BudgetNext == Tick \/ \E g \in Goroutines : Allow(g)

BudgetSpec == BudgetInit /\ [][BudgetNext]_budgetVars

-----------------------------------------------------------------------------

\* The goroutines that opened a window and have not zeroed current yet.
Zeroing == {g \in Goroutines : At(g, "zero")}

\* What the budget guarantees whatever the interleaving: the late zeroing
\* of current gives a window at most one more budget per concurrent caller.
GrantsBounded == granted <= MaxRetries * Cardinality(Goroutines)

\* Windows do not overlap: a goroutine that decided on an older clock reading
\* cannot open a window less than PerWindow after the one before it.
WindowsApart == windows * PerWindow <= windowStart

\* "Cap retries per time window" holds as long as no two calls of Allow have
\* overlapped. (With two, a retry granted between OpenWindow and ZeroCurrent
\* is not counted in the window it belongs to.)
SequentialBudget == ~overlapped => granted <= MaxRetries
=============================================================================
