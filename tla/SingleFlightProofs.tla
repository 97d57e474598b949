------------------------- MODULE SingleFlightProofs -------------------------
(***************************************************************************)
(* What singleflight.Group guarantees, for any number of callers and keys, *)
(* with ForgetKey called at any moment and with fn panicking.              *)
(***************************************************************************)
EXTENDS SingleFlight, TLAPS

\* A call is made for one key, and not made again while it is referred to.
Running(c) == pc[c] \in {"run", "returned"}

\* The call of a caller in Do stays registered until its clean-up, unless
\* ForgetKey has removed it.
Registered ==
  \A c \in Callers :
    Running(c) /\ call[c] \notin forgotten => m[key[c]] = call[c]

RunningInv ==
  \A c \in Callers : Running(c) => (call[c] \in done <=> At(c, "returned"))

\* A call has one caller that runs it.
OneRunner ==
  \A c, d \in Callers : c # d /\ Running(c) /\ Running(d) => call[c] # call[d]

\* A clean-up is for a call that is done, and not the call of anybody in Do.
CleanupInv ==
  \A t \in cleanups :
    /\ t[2] \in done
    /\ t[2] \notin forgotten => m[t[1]] = t[2]
    /\ \A c \in Callers : Running(c) => call[c] # t[2]

\* What is registered has not been forgotten, and is registered once.
MapInv ==
  \A k \in Keys : m[k] # None =>
    /\ m[k] \notin forgotten
    /\ \A l \in Keys : m[l] = m[k] => l = k

\* Somebody runs the call, or has run it to its end or to its panic.
Known(x) ==
  \/ x \in done \union panicked
  \/ \E c \in Callers : At(c, "run") /\ call[c] = x

Accounted ==
  /\ \A k \in Keys : m[k] # None => Known(m[k])
  /\ \A w \in Callers : At(w, "wait") => Known(call[w])

IInv ==
  /\ TypeOK /\ Registered /\ RunningInv /\ OneRunner
  /\ CleanupInv /\ MapInv /\ Accounted

LEMMA InitIInv ==
  ASSUME Init
  PROVE  IInv
<1>1. TypeOK
  BY DEF Init, TypeOK, Labels
<1>2. Registered /\ RunningInv /\ OneRunner /\ CleanupInv /\ MapInv /\ Accounted
  BY DEF Init, Registered, RunningInv, OneRunner, CleanupInv, MapInv, Accounted, Running, At
<1> QED BY <1>1, <1>2 DEF IInv

\* The invariant only reads these variables.
LEMMA Unchanged ==
  ASSUME IInv, UNCHANGED vars
  PROVE  IInv'
BY DEF IInv, vars, history, TypeOK, Registered, RunningInv, OneRunner, CleanupInv,
       MapInv, Accounted, Known, Running, At

\* A caller that returns leaves the others alone.
LEMMA Returned ==
  ASSUME TypeOK, NEW c \in Callers, Return(c)
  PROVE  /\ pc' \in [Callers -> Labels]
         /\ key' \in [Callers -> Keys \union {None}]
         /\ call' \in [Callers -> Calls \union {None}]
         /\ pc'[c] = "idle"
         /\ \A d \in Callers \ {c} : UNCHANGED <<pc[d], key[d], call[d]>>
BY DEF TypeOK, Return, Goto, Labels

LEMMA StartStep ==
  ASSUME IInv, NEW c \in Callers, NEW k \in Keys, NEW x \in Calls, Start(c, k, x)
  PROVE  IInv'
<1> USE ConfigAssumption DEF IInv, At
<1>1. /\ pc[c] = "idle" /\ m[k] = None
      /\ \A l \in Keys : m[l] # x
      /\ \A d \in Callers : call[d] # x
      /\ \A t \in cleanups : t[2] # x
  BY DEF Start, InUse
<1>2. /\ m' = [m EXCEPT ![k] = x]
      /\ done' = done \ {x} /\ forgotten' = forgotten \ {x} /\ panicked' = panicked \ {x}
      /\ UNCHANGED cleanups
  BY DEF Start
<1>3. /\ TypeOK' /\ pc'[c] = "run" /\ key'[c] = k /\ call'[c] = x
      /\ \A d \in Callers \ {c} : UNCHANGED <<pc[d], key[d], call[d]>>
  BY <1>2 DEF Start, Enter, Goto, TypeOK, Labels
<1>4. m'[k] = x /\ \A l \in Keys \ {k} : m'[l] = m[l]
  BY <1>2 DEF TypeOK
<1>5. \A d \in Callers : Running(d) => key[d] \in Keys /\ call[d] \in Calls
  BY DEF TypeOK, Running
<1>6. Registered'
  BY <1>1, <1>2, <1>3, <1>4, <1>5 DEF Registered, Running
<1>7. RunningInv' /\ OneRunner'
  BY <1>1, <1>2, <1>3 DEF RunningInv, OneRunner, Running
<1>8. CleanupInv'
  BY <1>1, <1>2, <1>3, <1>4 DEF CleanupInv, Running, TypeOK
<1>9. MapInv'
  BY <1>1, <1>2, <1>4 DEF MapInv
<1>10. ASSUME NEW y, y # x, Known(y)
       PROVE  Known(y)'
  BY <1>1, <1>2, <1>3, <1>10 DEF Known
<1>11. Known(x)'
  BY <1>3 DEF Known
<1>12. Accounted'
  BY <1>1, <1>3, <1>4, <1>10, <1>11 DEF Accounted
<1> QED BY <1>3, <1>6, <1>7, <1>8, <1>9, <1>12

LEMMA JoinStep ==
  ASSUME IInv, NEW c \in Callers, NEW k \in Keys, Join(c, k)
  PROVE  IInv'
<1> USE ConfigAssumption DEF IInv, At
<1>1. pc[c] = "idle" /\ m[k] # None /\ UNCHANGED <<m, done, cleanups, forgotten, panicked>>
  BY DEF Join, history
<1>2. /\ TypeOK' /\ pc'[c] = "wait" /\ call'[c] = m[k]
      /\ \A d \in Callers \ {c} : UNCHANGED <<pc[d], key[d], call[d]>>
  BY <1>1 DEF Join, Enter, Goto, TypeOK, Labels
<1>3. Registered' /\ RunningInv' /\ OneRunner' /\ CleanupInv' /\ MapInv'
  BY <1>1, <1>2 DEF Registered, RunningInv, OneRunner, CleanupInv, MapInv, Running
<1>4. ASSUME NEW y, Known(y)
      PROVE  Known(y)'
  BY <1>1, <1>2, <1>4 DEF Known
<1>5. Accounted'
  BY <1>1, <1>2, <1>4 DEF Accounted
<1> QED BY <1>2, <1>3, <1>5

LEMMA ReturnsStep ==
  ASSUME IInv, NEW c \in Callers, FnReturns(c)
  PROVE  IInv'
<1> USE ConfigAssumption DEF IInv, At
<1>1. /\ pc[c] = "run" /\ done' = done \union {call[c]} /\ call[c] \in Calls
      /\ UNCHANGED <<m, key, call, cleanups, forgotten, panicked>>
  BY DEF FnReturns, history, TypeOK
<1>2. TypeOK' /\ pc'[c] = "returned" /\ \A d \in Callers \ {c} : UNCHANGED pc[d]
  BY <1>1 DEF FnReturns, Goto, TypeOK, Labels
<1>3. Registered' /\ RunningInv' /\ OneRunner' /\ CleanupInv' /\ MapInv'
  BY <1>1, <1>2 DEF Registered, RunningInv, OneRunner, CleanupInv, MapInv, Running
<1>4. ASSUME NEW y, Known(y)
      PROVE  Known(y)'
  BY <1>1, <1>2, <1>4 DEF Known
<1>5. Accounted'
  BY <1>1, <1>2, <1>4 DEF Accounted
<1> QED BY <1>2, <1>3, <1>5

LEMMA PanicsStep ==
  ASSUME IInv, NEW c \in Callers, FnPanics(c)
  PROVE  IInv'
<1> USE ConfigAssumption, Returned DEF IInv, At
<1>1. /\ pc[c] = "run" /\ Return(c) /\ panicked' = panicked \union {call[c]}
      /\ call[c] \in Calls /\ UNCHANGED <<m, done, cleanups, forgotten>>
  BY DEF FnPanics, TypeOK
<1>2. TypeOK'
  BY <1>1 DEF TypeOK
<1>3. Registered' /\ RunningInv' /\ OneRunner' /\ CleanupInv' /\ MapInv'
  BY <1>1 DEF Registered, RunningInv, OneRunner, CleanupInv, MapInv, Running
<1>4. ASSUME NEW y, Known(y)
      PROVE  Known(y)'
  BY <1>1, <1>4 DEF Known
<1>5. Accounted'
  BY <1>1, <1>4 DEF Accounted
<1> QED BY <1>2, <1>3, <1>5

LEMMA StartCleanupStep ==
  ASSUME IInv, NEW c \in Callers, StartCleanup(c)
  PROVE  IInv'
<1> USE ConfigAssumption, Returned DEF IInv, At
<1>1. /\ pc[c] = "returned" /\ Return(c) /\ key[c] \in Keys /\ call[c] \in Calls
      /\ cleanups' = cleanups \union {<<key[c], call[c]>>}
      /\ UNCHANGED <<m, done, forgotten, panicked>>
  BY DEF StartCleanup, history, TypeOK
<1>2. TypeOK'
  BY <1>1 DEF TypeOK
<1>3. Registered' /\ RunningInv' /\ OneRunner' /\ MapInv'
  BY <1>1 DEF Registered, RunningInv, OneRunner, MapInv, Running
<1>4. CleanupInv'
  BY <1>1 DEF CleanupInv, Registered, RunningInv, OneRunner, Running
<1>5. ASSUME NEW y, Known(y)
      PROVE  Known(y)'
  BY <1>1, <1>5 DEF Known
<1>6. Accounted'
  BY <1>1, <1>5 DEF Accounted
<1> QED BY <1>2, <1>3, <1>4, <1>6

LEMMA ReceiveStep ==
  ASSUME IInv, NEW c \in Callers, Receive(c)
  PROVE  IInv'
<1> USE ConfigAssumption, Returned DEF IInv, At
<1>1. pc[c] = "wait" /\ Return(c) /\ UNCHANGED <<m, done, cleanups, forgotten, panicked>>
  BY DEF Receive, history
<1>2. TypeOK'
  BY <1>1 DEF TypeOK
<1>3. Registered' /\ RunningInv' /\ OneRunner' /\ CleanupInv' /\ MapInv'
  BY <1>1 DEF Registered, RunningInv, OneRunner, CleanupInv, MapInv, Running
<1>4. ASSUME NEW y, Known(y)
      PROVE  Known(y)'
  BY <1>1, <1>4 DEF Known
<1>5. Accounted'
  BY <1>1, <1>4 DEF Accounted
<1> QED BY <1>2, <1>3, <1>5

LEMMA CleanupStep ==
  ASSUME IInv, NEW t \in Keys \X Calls, Cleanup(t)
  PROVE  IInv'
<1> USE ConfigAssumption DEF IInv, At
<1>1. /\ t \in cleanups /\ cleanups' = cleanups \ {t}
      /\ UNCHANGED <<done, pc, key, call, forgotten, panicked>>
  BY DEF Cleanup, history
<1>2. t[1] \in Keys /\ t[2] \in Calls /\ t = <<t[1], t[2]>>
  BY <1>1 DEF TypeOK
<1>3. /\ m' \in [Keys -> Calls \union {None}]
      /\ \A l \in Keys \ {t[1]} : m'[l] = m[l]
      /\ m'[t[1]] = IF m[t[1]] = t[2] THEN None ELSE m[t[1]]
  BY <1>2 DEF Cleanup, Removes, TypeOK
<1>4. TypeOK'
  BY <1>1, <1>3 DEF TypeOK
<1>5. Registered'
  <2> SUFFICES ASSUME NEW c \in Callers, Running(c), call[c] \notin forgotten
               PROVE  m'[key[c]] = call[c]
    BY <1>1 DEF Registered, Running
  <2>1. m[key[c]] = call[c] /\ call[c] # t[2] /\ key[c] \in Keys
    BY <1>1 DEF Registered, CleanupInv, Running, TypeOK
  <2> QED BY <1>3, <2>1
<1>6. RunningInv' /\ OneRunner'
  BY <1>1 DEF RunningInv, OneRunner, Running
<1>7. CleanupInv'
  <2> SUFFICES ASSUME NEW u \in cleanups \ {t}, u[2] \notin forgotten
               PROVE  m'[u[1]] = u[2]
    BY <1>1 DEF CleanupInv, Running
  <2>1. m[u[1]] = u[2] /\ u[1] \in Keys /\ u = <<u[1], u[2]>>
    BY DEF CleanupInv, TypeOK
  <2>2. u[1] # t[1] \/ u[2] # t[2]
    BY <1>2, <2>1
  <2> QED BY <1>3, <2>1, <2>2
<1>8. MapInv'
  BY <1>1, <1>3 DEF MapInv
<1>9. Accounted'
  <2>1. \A y : Known(y) => Known(y)'
    BY <1>1 DEF Known
  <2> QED BY <1>1, <1>2, <1>3, <2>1 DEF Accounted
<1> QED BY <1>4, <1>5, <1>6, <1>7, <1>8, <1>9

LEMMA ForgetStep ==
  ASSUME IInv, NEW k \in Keys, ForgetKey(k)
  PROVE  IInv'
<1> USE ConfigAssumption DEF IInv, At
<1>1. /\ m[k] # None /\ forgotten' = forgotten \union {m[k]}
      /\ m' = [m EXCEPT ![k] = None] /\ m[k] \in Calls
      /\ UNCHANGED <<done, pc, key, call, cleanups, panicked>>
  BY DEF ForgetKey, TypeOK
<1>2. m' \in [Keys -> Calls \union {None}] /\ m'[k] = None /\ \A l \in Keys \ {k} : m'[l] = m[l]
  BY <1>1 DEF TypeOK
<1>3. TypeOK'
  BY <1>1, <1>2 DEF TypeOK
<1>4. Registered'
  BY <1>1, <1>2 DEF Registered, Running, TypeOK
<1>5. RunningInv' /\ OneRunner'
  BY <1>1 DEF RunningInv, OneRunner, Running
<1>6. CleanupInv'
  <2>1. \A t \in cleanups : t[1] \in Keys
    BY DEF TypeOK
  <2> QED BY <1>1, <1>2, <2>1 DEF CleanupInv, Running
<1>7. MapInv'
  BY <1>1, <1>2 DEF MapInv
<1>8. Accounted'
  <2>1. \A y : Known(y) => Known(y)'
    BY <1>1 DEF Known
  <2> QED BY <1>1, <1>2, <2>1 DEF Accounted
<1> QED BY <1>3, <1>4, <1>5, <1>6, <1>7, <1>8

LEMMA NextIInv ==
  ASSUME IInv, [Next]_vars
  PROVE  IInv'
<1>1. CASE UNCHANGED vars
  BY <1>1, Unchanged
<1>2. ASSUME NEW c \in Callers, Do(c)
      PROVE  IInv'
  BY <1>2, StartStep, JoinStep, ReturnsStep, PanicsStep, StartCleanupStep, ReceiveStep DEF Do
<1>3. ASSUME NEW t \in Keys \X Calls, Cleanup(t)
      PROVE  IInv'
  BY <1>3, CleanupStep
<1>4. ASSUME NEW k \in Keys, ForgetKey(k)
      PROVE  IInv'
  BY <1>4, ForgetStep
<1> QED BY <1>1, <1>2, <1>3, <1>4 DEF Next

THEOREM Invariance == Spec => []IInv
<1>1. Init => IInv
  BY InitIInv
<1>2. IInv /\ [Next]_vars => IInv'
  BY NextIInv
<1> QED BY <1>1, <1>2, PTL DEF Spec

\* Nobody inside Do ever holds a nil call.
THEOREM TypeCorrect == Spec => []TypeOK
<1>1. IInv => TypeOK
  BY DEF IInv
<1> QED BY <1>1, Invariance, PTL

\* "only one execution is in-flight for a given key at a time", but for the
\* executions whose key ForgetKey has removed.
THEOREM FlightsAreExclusive == Spec => []OneFlightPerKey
<1>1. IInv => OneFlightPerKey
  BY DEF IInv, Registered, OneRunner, Running, OneFlightPerKey, At
<1> QED BY <1>1, Invariance, PTL

\* Without ForgetKey a clean-up finds the call it was started for: the
\* fallback's unconditional delete is as good as Group's.
THEOREM CleanupsFindTheirCalls == Spec => []CleanupFindsItsCall
<1>1. IInv => CleanupFindsItsCall
  BY DEF IInv, CleanupInv, CleanupFindsItsCall
<1> QED BY <1>1, Invariance, PTL

\* Whoever waits in Do waits for a call that is done, running or panicked.
THEOREM NobodyIsAbandoned == Spec => []NobodyAbandoned
<1>1. IInv => NobodyAbandoned
  BY DEF IInv, Accounted, Known, NobodyAbandoned, At
<1> QED BY <1>1, Invariance, PTL

\* A clean-up that fires after ForgetKey has given the key to another call
\* does not unregister that call while it is running.
THEOREM CleanupsSpareRunning == Spec => CleanupSparesRunning
<1>1. IInv /\ [Next]_vars =>
        [\A k \in Keys :
           m[k] # None /\ m[k] \notin done /\ m'[k] = None => m[k] \in forgotten']_vars
  <2> SUFFICES ASSUME IInv, [Next]_vars, NEW k \in Keys,
                      m[k] # None, m[k] \notin done, m'[k] = None
               PROVE  m[k] \in forgotten'
    OBVIOUS
  <2>1. CASE UNCHANGED vars
    BY <2>1 DEF vars
  <2>2. ASSUME NEW c \in Callers, Do(c)
        PROVE  FALSE
    <3>1. ASSUME NEW l \in Keys, NEW x \in Calls, Start(c, l, x)
          PROVE  FALSE
      BY <3>1, ConfigAssumption DEF IInv, TypeOK, Start
    <3> QED BY <2>2, <3>1 DEF Do, Join, FnReturns, FnPanics, StartCleanup, Receive
  <2>3. ASSUME NEW t \in Keys \X Calls, Cleanup(t)
        PROVE  FALSE
    BY <2>3 DEF IInv, TypeOK, CleanupInv, Cleanup, Removes
  <2>4. ASSUME NEW l \in Keys, ForgetKey(l)
        PROVE  m[k] \in forgotten'
    BY <2>4 DEF IInv, TypeOK, ForgetKey
  <2> QED BY <2>1, <2>2, <2>3, <2>4 DEF Next
<1> QED BY <1>1, Invariance, PTL DEF Spec, CleanupSparesRunning

-----------------------------------------------------------------------------
(* Group implements Coalescing. *)

\* What a caller leads and follows is decided by its own variables.
LEMMA Mapped ==
  ASSUME NEW c \in Callers, NEW l, NEW f,
         \A d \in Callers \ {c} : UNCHANGED <<pc[d], call[d]>>,
         l = IF At(c, "run")' THEN call'[c] ELSE None,
         f = IF At(c, "wait")' THEN call'[c] ELSE None
  PROVE  /\ leads' = [leads EXCEPT ![c] = l]
         /\ follows' = [follows EXCEPT ![c] = f]
BY DEF leads, follows, At

LEMMA EnterImplements ==
  ASSUME IInv, NEW c \in Callers, NEW k \in Keys
  PROVE  /\ Join(c, k) => Promise!Follow(c, k)
         /\ \A x \in Calls : Start(c, k, x) => Promise!Lead(c, k, x)
<1> USE ConfigAssumption DEF IInv, TypeOK, Enter, Goto, At
<1>1. ASSUME Join(c, k)
      PROVE  Promise!Follow(c, k)
  <2>1. /\ pc'[c] = "wait" /\ call'[c] = m[k] /\ m[k] # None
        /\ pc[c] = "idle" /\ UNCHANGED <<m, done>>
        /\ \A d \in Callers \ {c} : UNCHANGED <<pc[d], call[d]>>
    BY <1>1 DEF Join
  <2>2. leads[c] = None /\ follows[c] = None
    BY <2>1 DEF leads, follows
  <2>3. leads' = [leads EXCEPT ![c] = None] /\ follows' = [follows EXCEPT ![c] = m[k]]
    BY <2>1, Mapped
  <2>4. UNCHANGED leads
    BY <2>2, <2>3 DEF leads
  <2> QED BY <2>1, <2>2, <2>3, <2>4 DEF Promise!Follow, Promise!Free
<1>2. ASSUME NEW x \in Calls, Start(c, k, x)
      PROVE  Promise!Lead(c, k, x)
  <2>1. /\ pc'[c] = "run" /\ call'[c] = x /\ m[k] = None /\ pc[c] = "idle"
        /\ m' = [m EXCEPT ![k] = x] /\ done' = done \ {x} /\ ~InUse(x)
        /\ \A d \in Callers \ {c} : UNCHANGED <<pc[d], call[d]>>
    BY <1>2 DEF Start
  <2>2. leads[c] = None /\ follows[c] = None
    BY <2>1 DEF leads, follows
  <2>3. leads' = [leads EXCEPT ![c] = x] /\ follows' = [follows EXCEPT ![c] = None]
    BY <2>1, Mapped
  <2>4. UNCHANGED follows
    BY <2>2, <2>3 DEF follows
  <2>5. ~Promise!Referenced(x)
    BY <2>1 DEF Promise!Referenced, InUse, leads, follows
  <2> QED BY <2>1, <2>2, <2>3, <2>4, <2>5 DEF Promise!Lead, Promise!Free
<1> QED BY <1>1, <1>2

LEMMA RunImplements ==
  ASSUME IInv, NEW c \in Callers
  PROVE  /\ FnReturns(c) => Promise!Land(c)
         /\ FnPanics(c) => Promise!Vanish(c)
<1> USE ConfigAssumption DEF IInv, At
<1>1. ASSUME pc[c] = "run"
      PROVE  leads[c] = call[c] /\ call[c] # None /\ follows[c] = None
  BY <1>1 DEF leads, follows, TypeOK
<1>2. ASSUME follows' = [follows EXCEPT ![c] = None], follows[c] = None
      PROVE  UNCHANGED follows
  BY <1>2 DEF follows
<1>3. ASSUME FnReturns(c)
      PROVE  Promise!Land(c)
  <2>1. /\ pc[c] = "run" /\ pc'[c] = "returned" /\ done' = done \union {call[c]}
        /\ UNCHANGED <<m, call>> /\ \A d \in Callers \ {c} : UNCHANGED pc[d]
    BY <1>3 DEF FnReturns, Goto, TypeOK
  <2>2. leads' = [leads EXCEPT ![c] = None] /\ follows' = [follows EXCEPT ![c] = None]
    BY <2>1, Mapped
  <2> QED BY <1>1, <1>2, <2>1, <2>2 DEF Promise!Land
<1>4. ASSUME FnPanics(c)
      PROVE  Promise!Vanish(c)
  <2>1. MayPanic /\ pc[c] = "run" /\ Return(c) /\ UNCHANGED <<m, done>>
    BY <1>4 DEF FnPanics
  <2>2. leads' = [leads EXCEPT ![c] = None] /\ follows' = [follows EXCEPT ![c] = None]
    BY <2>1, Returned, Mapped
  <2> QED BY <1>1, <1>2, <2>1, <2>2 DEF Promise!Vanish
<1> QED BY <1>3, <1>4

\* Starting the clean-up is a step of the detailed specification only.
LEMMA LeaveImplements ==
  ASSUME IInv, NEW c \in Callers
  PROVE  /\ StartCleanup(c) => UNCHANGED Promise!vars
         /\ Receive(c) => Promise!Receive(c)
<1> USE ConfigAssumption DEF IInv, At
<1>1. ASSUME StartCleanup(c)
      PROVE  UNCHANGED Promise!vars
  <2>1. pc[c] = "returned" /\ Return(c) /\ UNCHANGED <<m, done>>
    BY <1>1 DEF StartCleanup
  <2>2. UNCHANGED <<leads, follows>>
    BY <2>1, Returned DEF leads, follows
  <2> QED BY <2>1, <2>2 DEF Promise!vars
<1>2. ASSUME Receive(c)
      PROVE  Promise!Receive(c)
  <2>1. pc[c] = "wait" /\ call[c] \in done /\ Return(c) /\ UNCHANGED <<m, done>>
    BY <1>2 DEF Receive
  <2>2. leads[c] = None /\ follows[c] = call[c]
    BY <2>1 DEF leads, follows
  <2>3. leads' = [leads EXCEPT ![c] = None] /\ follows' = [follows EXCEPT ![c] = None]
    BY <2>1, Returned, Mapped
  <2>4. UNCHANGED leads
    BY <2>2, <2>3 DEF leads
  <2> QED BY <2>1, <2>2, <2>3, <2>4 DEF Promise!Receive
<1> QED BY <1>1, <1>2

\* A clean-up forgets its own call, which is done, or nothing.
LEMMA RemovalImplements ==
  ASSUME IInv
  PROVE  /\ \A t \in Keys \X Calls : Cleanup(t) => [Promise!Next]_(Promise!vars)
         /\ \A k \in Keys : ForgetKey(k) => Promise!Next
<1> USE ConfigAssumption DEF IInv
<1>1. ASSUME NEW t \in Keys \X Calls, Cleanup(t)
      PROVE  [Promise!Next]_(Promise!vars)
  <2>1. UNCHANGED <<done, leads, follows>>
    BY <1>1 DEF Cleanup, leads, follows, At
  <2>2. t[1] \in Keys /\ t[2] \in done /\ t[2] # None
    BY <1>1 DEF Cleanup, CleanupInv
  <2>3. CASE Removes(t)
    <3>1. Promise!Forget(t[1])
      BY <1>1, <2>1, <2>2, <2>3 DEF Cleanup, Removes, Promise!Forget
    <3> QED BY <2>2, <3>1 DEF Promise!Next
  <2>4. CASE ~Removes(t)
    BY <1>1, <2>1, <2>4 DEF Cleanup, Promise!vars
  <2> QED BY <2>3, <2>4
<1>2. ASSUME NEW k \in Keys, ForgetKey(k)
      PROVE  Promise!Next
  <2>1. UNCHANGED <<done, leads, follows>>
    BY <1>2 DEF ForgetKey, leads, follows, At
  <2>2. Promise!Forget(k)
    BY <1>2, <2>1 DEF ForgetKey, Promise!Forget
  <2> QED BY <2>2 DEF Promise!Next
<1> QED BY <1>1, <1>2

\* Do, ForgetKey and the clean-ups implement Coalescing: every waiter gets the
\* result of the call it joined, and only ForgetKey removes a call before its
\* result is known.
THEOREM GroupKeepsPromise == Spec => PromiseKept
<1>1. Init => Promise!Init
  BY DEF Init, Promise!Init, leads, follows, At
<1>2. IInv /\ [Next]_vars => [Promise!Next]_(Promise!vars)
  <2> SUFFICES ASSUME IInv, [Next]_vars
               PROVE  [Promise!Next]_(Promise!vars)
    OBVIOUS
  <2>1. CASE UNCHANGED vars
    BY <2>1 DEF vars, Promise!vars, leads, follows, At
  <2>2. ASSUME NEW c \in Callers, Do(c)
        PROVE  [Promise!Next]_(Promise!vars)
    BY <2>2, EnterImplements, RunImplements, LeaveImplements DEF Do, Promise!Next
  <2>3. ASSUME NEW t \in Keys \X Calls, Cleanup(t)
        PROVE  [Promise!Next]_(Promise!vars)
    BY <2>3, RemovalImplements
  <2>4. ASSUME NEW k \in Keys, ForgetKey(k)
        PROVE  [Promise!Next]_(Promise!vars)
    BY <2>4, RemovalImplements
  <2> QED BY <2>1, <2>2, <2>3, <2>4 DEF Next
<1> QED BY <1>1, <1>2, Invariance, PTL DEF Spec, PromiseKept, Promise!Spec
=============================================================================
