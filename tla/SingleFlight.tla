---------------------------- MODULE SingleFlight ----------------------------
(***************************************************************************)
(* singleflight.Group (internal/singleflight) and the implementation       *)
(* Client.singleFlightDo falls back to: the first caller for a key runs    *)
(* fn, the others wait for it, and 100ms after fn returned a goroutine     *)
(* unregisters the call.  One action per critical section.                 *)
(*                                                                         *)
(* A call is an object of the finite pool Calls, made from a member of     *)
(* the pool that nothing refers to any more.                               *)
(***************************************************************************)
EXTENDS Naturals

CONSTANTS
  Callers,    \* goroutines that call Do or TryDo
  Keys,
  Calls,      \* the pool of *call
  None,       \* nil
  MayForget,  \* TRUE when ForgetKey may be called
  MayPanic    \* TRUE when fn may panic

ASSUME ConfigAssumption ==
  /\ None \notin Calls
  /\ {MayForget, MayPanic} \subseteq BOOLEAN

VARIABLES
  m,         \* g.m: the call registered under each key, or None
  done,      \* the calls whose wg is back to zero
  pc,        \* pc[c]: where caller c is in Do
  key,       \* key[c]: the key c asked for
  call,      \* call[c]: the call c runs or waits for
  cleanups,  \* the clean-up goroutines, as <<key, call>> pairs
  forgotten, \* history: the calls in use that ForgetKey has unregistered
  panicked   \* history: the calls in use whose fn has panicked

history == <<forgotten, panicked>>
vars == <<m, done, pc, key, call, cleanups, history>>

Labels == {"idle", "run", "returned", "wait"}

\* A caller inside Do never holds a nil call.
TypeOK ==
  /\ m \in [Keys -> Calls \union {None}]
  /\ done \subseteq Calls
  /\ pc \in [Callers -> Labels]
  /\ key \in [Callers -> Keys \union {None}]
  /\ call \in [Callers -> Calls \union {None}]
  /\ cleanups \subseteq Keys \X Calls
  /\ forgotten \subseteq Calls
  /\ panicked \subseteq Calls
  /\ \A c \in Callers : pc[c] # "idle" => key[c] \in Keys /\ call[c] \in Calls

Init ==
  /\ m = [k \in Keys |-> None]
  /\ done = {}
  /\ pc = [c \in Callers |-> "idle"]
  /\ key = [c \in Callers |-> None]
  /\ call = [c \in Callers |-> None]
  /\ cleanups = {}
  /\ forgotten = {}
  /\ panicked = {}

-----------------------------------------------------------------------------

At(c, label) == pc[c] = label
Goto(c, label) == pc' = [pc EXCEPT ![c] = label]

Enter(c, k, x, label) ==
  /\ Goto(c, label)
  /\ key' = [key EXCEPT ![c] = k]
  /\ call' = [call EXCEPT ![c] = x]

Return(c) ==
  /\ Goto(c, "idle")
  /\ key' = [key EXCEPT ![c] = None]
  /\ call' = [call EXCEPT ![c] = None]

InUse(x) ==
  \/ \E k \in Keys : m[k] = x
  \/ \E c \in Callers : call[c] = x
  \/ \E t \in cleanups : t[2] = x

\* Do and TryDo: no call is registered, the caller registers its own.
Start(c, k, x) ==
  /\ At(c, "idle")
  /\ m[k] = None
  /\ ~InUse(x)
  /\ m' = [m EXCEPT ![k] = x]
  /\ done' = done \ {x}
  /\ forgotten' = forgotten \ {x}
  /\ panicked' = panicked \ {x}
  /\ Enter(c, k, x, "run")
  /\ UNCHANGED cleanups

\* A slip: the lookup's result is not tested.
Join_Unchecked(c, k) ==
  /\ At(c, "idle")
  /\ Enter(c, k, m[k], "wait")
  /\ UNCHANGED <<m, done, cleanups, history>>

\* Do: the key has a call. (TryDo returns ErrInProgress and changes nothing.)
Join(c, k) ==
  /\ At(c, "idle")
  /\ m[k] # None
  /\ Enter(c, k, m[k], "wait")
  /\ UNCHANGED <<m, done, cleanups, history>>

\* A slip: the caller returns without wg.Done.
FnReturns_KeepsWaiting(c) ==
  /\ At(c, "run")
  /\ Goto(c, "returned")
  /\ UNCHANGED <<m, done, key, call, cleanups, history>>

\* fn returns: the result is stored, wg.Done releases the waiters.
FnReturns(c) ==
  /\ At(c, "run")
  /\ done' = done \union {call[c]}
  /\ Goto(c, "returned")
  /\ UNCHANGED <<m, key, call, cleanups, history>>

\* fn panics: nothing between it and the caller of Do runs.
FnPanics(c) ==
  /\ MayPanic
  /\ At(c, "run")
  /\ Return(c)
  /\ panicked' = panicked \union {call[c]}
  /\ UNCHANGED <<m, done, cleanups, forgotten>>

\* The clean-up goroutine is started, and Do returns.
StartCleanup(c) ==
  /\ At(c, "returned")
  /\ cleanups' = cleanups \union {<<key[c], call[c]>>}
  /\ Return(c)
  /\ UNCHANGED <<m, done, history>>

\* A clean-up removes only the call it was started for.
Removes_Anything(t) == TRUE
Removes(t) == m[t[1]] = t[2]

\* A slip: the clean-up goroutine is started before fn runs.
Cleanup_Early(t) ==
  /\ \/ t \in cleanups
     \/ \E c \in Callers : At(c, "run") /\ t = <<key[c], call[c]>>
  /\ m' = IF Removes(t) THEN [m EXCEPT ![t[1]] = None] ELSE m
  /\ cleanups' = cleanups \ {t}
  /\ UNCHANGED <<done, pc, key, call, history>>

Cleanup(t) ==
  /\ t \in cleanups
  /\ m' = IF Removes(t) THEN [m EXCEPT ![t[1]] = None] ELSE m
  /\ cleanups' = cleanups \ {t}
  /\ UNCHANGED <<done, pc, key, call, history>>

ForgetKey(k) ==
  /\ MayForget
  /\ m[k] # None
  /\ forgotten' = forgotten \union {m[k]}
  /\ m' = [m EXCEPT ![k] = None]
  /\ UNCHANGED <<done, pc, key, call, cleanups, panicked>>

\* A slip: wg.Add is called by the goroutine that runs fn, too late.
Receive_Early(c) ==
  /\ At(c, "wait")
  /\ Return(c)
  /\ UNCHANGED <<m, done, cleanups, history>>

\* wg.Wait returns.
Receive(c) ==
  /\ At(c, "wait")
  /\ call[c] \in done
  /\ Return(c)
  /\ UNCHANGED <<m, done, cleanups, history>>

-----------------------------------------------------------------------------

Do(c) ==
  \/ \E k \in Keys : Join(c, k) \/ \E x \in Calls : Start(c, k, x)
  \/ FnReturns(c) \/ FnPanics(c) \/ StartCleanup(c) \/ Receive(c)

Next ==
  \/ \E c \in Callers : Do(c)
  \/ \E t \in Keys \X Calls : Cleanup(t)
  \/ \E k \in Keys : ForgetKey(k)

Spec == Init /\ [][Next]_vars

\* fn returns unless it panics, and goroutines are scheduled.
FairSpec ==
  /\ Spec
  /\ \A c \in Callers :
       /\ WF_vars(FnReturns(c) \/ FnPanics(c))
       /\ WF_vars(StartCleanup(c))
       /\ WF_vars(Receive(c))
  /\ \A t \in Keys \X Calls : WF_vars(Cleanup(t))

-----------------------------------------------------------------------------

\* "only one execution is in-flight for a given key at a time": two callers
\* run fn for one key only if ForgetKey has unregistered one of their calls.
OneFlightPerKey ==
  \A c, d \in Callers :
    /\ c # d
    /\ At(c, "run") /\ call[c] \notin forgotten
    /\ At(d, "run") /\ call[d] \notin forgotten
    => key[c] # key[d]

\* A clean-up never unregisters a call that is still running, not even when
\* ForgetKey let a new call take the key of the one the clean-up was for.
CleanupSparesRunning ==
  [][\A k \in Keys :
       m[k] # None /\ m[k] \notin done /\ m'[k] = None => m[k] \in forgotten']_vars

\* Where nobody calls ForgetKey the clean-up's identity test is redundant, and
\* the fallback in Client.singleFlightDo, which has none, behaves as Group does.
CleanupFindsItsCall ==
  \A t \in cleanups : t[2] \notin forgotten => m[t[1]] = t[2]

\* Whoever waits, even for a call ForgetKey has unregistered, waits for a call
\* that is done or that a caller is running, unless its fn panicked.
NobodyAbandoned ==
  \A w \in Callers :
    At(w, "wait") =>
      \/ call[w] \in done \union panicked
      \/ \E c \in Callers : At(c, "run") /\ call[c] = call[w]

\* "the duplicate caller waits for the original to complete and receives the
\* same results": every waiter returns, unless the fn it waits for panicked.
\* (Nothing recovers a panic: wg.Done is not deferred.)
WaitersReturn ==
  \A c \in Callers, x \in Calls :
    At(c, "wait") /\ call[c] = x ~> call[c] # x \/ x \in panicked

\* The map does not keep a call for ever, unless its fn panicked.
CallsExpire ==
  \A k \in Keys, x \in Calls : m[k] = x ~> m[k] # x \/ x \in panicked

Progress == WaitersReturn /\ CallsExpire

\* Group implements the promise of Coalescing.
leads == [c \in Callers |-> IF At(c, "run") THEN call[c] ELSE None]
follows == [c \in Callers |-> IF At(c, "wait") THEN call[c] ELSE None]

Promise == INSTANCE Coalescing WITH
             Flights <- Calls, current <- m, landed <- done, MayVanish <- MayPanic,
             MayGiveUp <- FALSE

PromiseKept == Promise!Spec
=============================================================================
