------------------------ MODULE DeduplicationProofs ------------------------
(***************************************************************************)
(* What the deduplication tracker guarantees, for any number of callers,   *)
(* keys and entries, when dedupKeyFunc gives a request one key only.  It   *)
(* does so whether or not owners return early.                             *)
(***************************************************************************)
EXTENDS Deduplication, TLAPS

\* From CreateEntry until the timer is started the caller's entry is its key's.
Holding(c) == pc[c] \in {"owner", "complete", "publish", "schedule"}

Holders ==
  \A c \in Callers : Holding(c) =>
    /\ entries[key[c]] = entry[c]
    /\ entry[c] \in done <=> At(c, "schedule")
    /\ Owning(c) => made[c] = entry[c]
    /\ At(c, "schedule") => <<key[c], entry[c]>> \notin timers

Exclusive ==
  \A c, d \in Callers : c # d /\ Holding(c) /\ Holding(d) => key[c] # key[d]

\* A timer finds what it was started for: the entry stays until it fires.
Timed == \A t \in timers : entries[t[1]] = t[2] /\ t[2] \in done

OneKeyPerEntry ==
  \A k, l \in Keys : entries[k] = entries[l] /\ entries[k] # None => k = l

\* The result of an entry that can be waited for is known, or will be made
\* known by its owner, or its owner has returned early.
Known(e) ==
  \/ e \in done \union deserted
  \/ \E c \in Callers : Owning(c) /\ made[c] = e

Registered == \A k \in Keys : entries[k] # None => Known(entries[k])

Awaited == \A w \in Callers : At(w, "waiter") => Known(entry[w])

IInv ==
  TypeOK /\ Holders /\ Exclusive /\ Timed /\ OneKeyPerEntry /\ Registered /\ Awaited

LEMMA InitIInv ==
  ASSUME Init
  PROVE  IInv
<1>1. TypeOK
  BY DEF Init, TypeOK, Labels
<1>2. Holders /\ Exclusive /\ Timed /\ OneKeyPerEntry /\ Registered /\ Awaited
  BY DEF Init, Holders, Holding, Exclusive, Timed, OneKeyPerEntry, Registered, Awaited, At
<1> QED BY <1>1, <1>2 DEF IInv

\* The invariant only reads these variables.
LEMMA Unchanged ==
  ASSUME IInv, UNCHANGED vars
  PROVE  IInv'
BY DEF IInv, vars, TypeOK, Holders, Holding, Exclusive, Timed, OneKeyPerEntry,
       Registered, Awaited, Known, Owning, At

LEMMA CreateStep ==
  ASSUME IInv, NEW c \in Callers, NEW k \in Keys, NEW e \in Entries, CreateEntry(c, k, e)
  PROVE  IInv'
<1> USE ConfigAssumption DEF IInv, TypeOK, Labels, CreateEntry, Goto, At, InUse
<1>1. TypeOK'
  OBVIOUS
<1>2. \A d \in Callers : Holding(d) => key[d] # k
  BY DEF Holders, Holding
<1>3. \A d \in Callers \ {c} : UNCHANGED <<pc[d], key[d], entry[d], made[d]>>
  OBVIOUS
<1>4. /\ pc'[c] = "owner" /\ key'[c] = k /\ entry'[c] = e /\ made'[c] = e
      /\ entries'[k] = e
      /\ \A l \in Keys \ {k} : entries'[l] = entries[l]
  OBVIOUS
<1>5. Holders'
  BY <1>2, <1>3, <1>4 DEF Holders, Holding, Owning, Timed
<1>6. Exclusive'
  BY <1>2, <1>3, <1>4 DEF Exclusive, Holding
<1>7. Timed'
  BY <1>4 DEF Timed
<1>8. OneKeyPerEntry'
  BY <1>4 DEF OneKeyPerEntry
<1>9. ASSUME NEW f \in Entries \ {e}, Known(f)
      PROVE  Known(f)'
  BY <1>3, <1>9 DEF Known, Owning
<1>10. Known(e)'
  BY <1>4 DEF Known, Owning
<1>11. Registered'
  BY <1>4, <1>9, <1>10 DEF Registered
<1>12. Awaited'
  BY <1>3, <1>4, <1>9 DEF Awaited
<1> QED BY <1>1, <1>5, <1>6, <1>7, <1>8, <1>11, <1>12

LEMMA JoinStep ==
  ASSUME IInv, NEW c \in Callers, NEW k \in Keys, JoinEntry(c, k)
  PROVE  IInv'
<1> USE ConfigAssumption DEF IInv, TypeOK, Labels, JoinEntry, Goto, At
<1>1. TypeOK'
  OBVIOUS
<1>2. \A d \in Callers \ {c} : UNCHANGED <<pc[d], key[d], entry[d], made[d]>>
  OBVIOUS
<1>3. /\ pc[c] = "idle" /\ pc'[c] = "waiter" /\ entry'[c] = entries[k]
      /\ UNCHANGED <<entries, done, timers, made, deserted>>
  OBVIOUS
<1>4. Holders' /\ Exclusive' /\ Timed' /\ OneKeyPerEntry'
  BY <1>2, <1>3 DEF Holders, Holding, Owning, Exclusive, Timed, OneKeyPerEntry
<1>5. ASSUME NEW f, Known(f)
      PROVE  Known(f)'
  BY <1>2, <1>3, <1>5 DEF Known, Owning
<1>6. Registered' /\ Awaited'
  BY <1>2, <1>3, <1>5 DEF Registered, Awaited, JoinEntry
<1> QED BY <1>1, <1>4, <1>6

LEMMA FinishStep ==
  ASSUME IInv, ~KeyMayChange, NEW c \in Callers, Finish(c)
  PROVE  IInv'
<1> USE ConfigAssumption DEF IInv, TypeOK, Labels, Finish, Goto, At, KeysAfter
<1>1. TypeOK' /\ UNCHANGED key
  OBVIOUS
<1>2. \A d \in Callers \ {c} : UNCHANGED pc[d]
  OBVIOUS
<1>3. /\ pc[c] = "owner" /\ pc'[c] = "complete"
      /\ UNCHANGED <<entries, done, entry, timers, made, deserted>>
  OBVIOUS
<1>4. Holders' /\ Exclusive' /\ Timed' /\ OneKeyPerEntry'
  BY <1>1, <1>2, <1>3 DEF Holders, Holding, Owning, Exclusive, Timed, OneKeyPerEntry
<1>5. ASSUME NEW f, Known(f)
      PROVE  Known(f)'
  BY <1>2, <1>3, <1>5 DEF Known, Owning
<1>6. Registered' /\ Awaited'
  BY <1>2, <1>3, <1>5 DEF Registered, Awaited
<1> QED BY <1>1, <1>4, <1>6

\* A caller that returns from somewhere leaves the others alone.
LEMMA Returned ==
  ASSUME TypeOK, NEW c \in Callers, Return(c)
  PROVE  /\ pc' \in [Callers -> Labels]
         /\ key' \in [Callers -> Keys \union {None}]
         /\ entry' \in [Callers -> Entries \union {None}]
         /\ made' \in [Callers -> Entries \union {None}]
         /\ pc'[c] = "idle"
         /\ \A d \in Callers \ {c} : UNCHANGED <<pc[d], key[d], entry[d], made[d]>>
BY DEF TypeOK, Return, Goto, Labels

LEMMA ReturnEarlyStep ==
  ASSUME IInv, NEW c \in Callers, ReturnEarly(c)
  PROVE  IInv'
<1> USE ConfigAssumption, Returned DEF IInv, ReturnEarly, At
<1>1. /\ made[c] \in Entries /\ pc[c] = "owner" /\ Return(c)
      /\ deserted' = deserted \union {made[c]} /\ UNCHANGED <<entries, done, timers>>
  BY DEF TypeOK, Holders, Holding, Owning
<1>2. TypeOK'
  BY <1>1 DEF TypeOK
<1>3. Holders' /\ Exclusive' /\ Timed' /\ OneKeyPerEntry'
  BY <1>1 DEF Holders, Holding, Owning, Exclusive, Timed, OneKeyPerEntry
<1>4. ASSUME NEW f, Known(f)
      PROVE  Known(f)'
  BY <1>1, <1>4 DEF Known, Owning
<1>5. Registered' /\ Awaited'
  BY <1>1, <1>4 DEF Registered, Awaited
<1> QED BY <1>2, <1>3, <1>5

LEMMA CompleteStep ==
  ASSUME IInv, NEW c \in Callers, Complete(c)
  PROVE  IInv'
<1> USE ConfigAssumption DEF IInv, At
<1>1. CASE LookUp(c)
  <2>1. pc[c] = "complete"
    BY <1>1 DEF LookUp
  <2>2. entry[c] \in Entries
    BY <2>1 DEF TypeOK
  <2>3. /\ pc[c] = "complete" /\ entries[key[c]] = entry[c]
        /\ entry[c] # None /\ entries[key[c]] # None
    BY <2>1, <2>2 DEF Holders, Holding
  <2>4. entry' = [entry EXCEPT ![c] = entry[c]] /\ Goto(c, "publish")
    BY <1>1, <2>3 DEF LookUp
  <2>5. UNCHANGED <<entries, done, key, entry, timers, made, deserted>>
    BY <1>1, <2>3, <2>4 DEF LookUp, TypeOK
  <2>6. TypeOK' /\ pc'[c] = "publish" /\ \A d \in Callers \ {c} : UNCHANGED pc[d]
    BY <2>3, <2>4, <2>5 DEF TypeOK, Goto, Labels
  <2>7. Holders' /\ Exclusive' /\ Timed' /\ OneKeyPerEntry'
    BY <2>3, <2>5, <2>6 DEF Holders, Holding, Owning, Exclusive, Timed, OneKeyPerEntry
  <2>8. ASSUME NEW f, Known(f)
        PROVE  Known(f)'
    BY <2>3, <2>5, <2>6, <2>8 DEF Known, Owning
  <2>9. Registered' /\ Awaited'
    BY <2>3, <2>5, <2>6, <2>8 DEF Registered, Awaited
  <2> QED BY <2>6, <2>7, <2>9
<1>2. CASE Publish(c)
  <2>1. /\ pc[c] = "publish" /\ entries[key[c]] = entry[c] /\ made[c] = entry[c]
        /\ entry[c] \in Entries /\ key[c] \in Keys
    BY <1>2 DEF Publish, Holders, Holding, Owning, TypeOK
  <2>2. /\ done' = done \union {entry[c]}
        /\ UNCHANGED <<entries, key, entry, timers, deserted>>
    BY <1>2 DEF Publish
  <2>3. TypeOK' /\ pc'[c] = "schedule" /\ \A d \in Callers \ {c} : UNCHANGED <<pc[d], made[d]>>
    BY <1>2, <2>1, <2>2 DEF TypeOK, Publish, Goto, Labels
  <2>4. ASSUME NEW d \in Callers \ {c}, Holding(d)
        PROVE  entry[d] # entry[c]
    <3>1. key[d] \in Keys /\ key[d] # key[c]
      BY <2>1, <2>4 DEF Holding, Exclusive, TypeOK
    <3>2. entries[key[d]] = entry[d] /\ entry[c] # None
      BY <2>1, <2>4 DEF Holders
    <3> QED BY <2>1, <3>1, <3>2 DEF OneKeyPerEntry
  <2>5. Holders'
    <3>1. <<key[c], entry[c]>> \notin timers
      BY <2>1 DEF Timed, Holders, Holding
    <3> QED BY <2>1, <2>2, <2>3, <2>4, <3>1 DEF Holders, Holding, Owning
  <2>6. Exclusive' /\ Timed' /\ OneKeyPerEntry'
    BY <2>1, <2>2, <2>3 DEF Holding, Exclusive, Timed, OneKeyPerEntry
  <2>7. ASSUME NEW f, Known(f)
        PROVE  Known(f)'
    BY <2>1, <2>2, <2>3, <2>7 DEF Known, Owning
  <2>8. Registered' /\ Awaited'
    BY <2>1, <2>2, <2>3, <2>7 DEF Registered, Awaited
  <2> QED BY <2>3, <2>5, <2>6, <2>8
<1>3. CASE ScheduleDelete(c)
  <2>1. /\ pc[c] = "schedule" /\ entries[key[c]] = entry[c] /\ entry[c] \in done
        /\ entry[c] \in Entries /\ key[c] \in Keys
    BY <1>3 DEF ScheduleDelete, Holders, Holding, TypeOK
  <2>2. /\ timers' = timers \union {<<key[c], entry[c]>>} /\ Return(c)
        /\ UNCHANGED <<entries, done, deserted>>
    BY <1>3 DEF ScheduleDelete
  <2>3. TypeOK'
    BY <2>1, <2>2, Returned DEF TypeOK
  <2>4. Holders'
    BY <2>1, <2>2, Returned DEF Holders, Holding, Owning, Exclusive
  <2>5. Exclusive' /\ Timed' /\ OneKeyPerEntry'
    BY <2>1, <2>2, Returned DEF Holding, Exclusive, Timed, OneKeyPerEntry
  <2>6. ASSUME NEW f, Known(f)
        PROVE  Known(f)'
    BY <2>1, <2>2, <2>6, Returned DEF Known, Owning
  <2>7. Registered' /\ Awaited'
    BY <2>1, <2>2, <2>6, Returned DEF Registered, Awaited
  <2> QED BY <2>3, <2>4, <2>5, <2>7
<1> QED BY <1>1, <1>2, <1>3 DEF Complete

LEMMA WaitStep ==
  ASSUME IInv, NEW c \in Callers, Receive(c) \/ Cancelled(c)
  PROVE  IInv'
<1> USE Returned DEF IInv, At
<1>1. pc[c] = "waiter" /\ Return(c) /\ UNCHANGED <<entries, done, timers, deserted>>
  BY DEF Receive, Cancelled
<1>2. TypeOK'
  BY <1>1 DEF TypeOK
<1>3. Holders' /\ Exclusive' /\ Timed' /\ OneKeyPerEntry'
  BY <1>1 DEF Holders, Holding, Owning, Exclusive, Timed, OneKeyPerEntry
<1>4. ASSUME NEW f, Known(f)
      PROVE  Known(f)'
  BY <1>1, <1>4 DEF Known, Owning
<1>5. Registered' /\ Awaited'
  BY <1>1, <1>4 DEF Registered, Awaited
<1> QED BY <1>2, <1>3, <1>5

LEMMA DeleteStep ==
  ASSUME IInv, NEW t \in Keys \X Entries, DeleteEntry(t)
  PROVE  IInv'
<1> USE ConfigAssumption DEF IInv, TypeOK, Labels, At
<1>1. /\ t \in timers /\ timers' = timers \ {t}
      /\ entries' = [entries EXCEPT ![t[1]] = None]
      /\ UNCHANGED <<done, pc, key, entry, made, deserted>>
  BY DEF DeleteEntry
<1>2. TypeOK'
  BY <1>1
<1>3. t[1] \in Keys /\ entries[t[1]] = t[2] /\ t[2] \in done /\ t = <<t[1], t[2]>>
  BY <1>1 DEF Timed
<1>4. \A u \in timers : u = <<u[1], u[2]>>
  OBVIOUS
<1>5. \A c \in Callers : Holding(c) => key[c] # t[1]
  <2> SUFFICES ASSUME NEW c \in Callers, Holding(c), key[c] = t[1]
               PROVE  FALSE
    OBVIOUS
  <2>1. entry[c] = t[2]
    BY <1>3 DEF Holders
  <2>2. <<key[c], entry[c]>> \in timers
    BY <1>1, <1>3, <2>1
  <2> QED BY <1>3, <2>1, <2>2 DEF Holders
<1>6. Holders' /\ Exclusive'
  BY <1>1, <1>3, <1>5 DEF Holders, Holding, Owning, Exclusive
<1>7. Timed'
  <2>1. \A u \in timers \ {t} : u[1] # t[1]
    BY <1>4, <1>3 DEF Timed
  <2> QED BY <1>1, <2>1 DEF Timed
<1>8. OneKeyPerEntry'
  BY <1>1 DEF OneKeyPerEntry
<1>9. Registered' /\ Awaited'
  BY <1>1 DEF Registered, Awaited, Known, Owning
<1> QED BY <1>2, <1>6, <1>7, <1>8, <1>9

THEOREM Invariance ==
  ASSUME ~KeyMayChange
  PROVE  Spec => []IInv
<1>1. Init => IInv
  BY InitIInv
<1>2. IInv /\ [Next]_vars => IInv'
  <2> SUFFICES ASSUME IInv, [Next]_vars
               PROVE  IInv'
    OBVIOUS
  <2>1. CASE UNCHANGED vars
    BY <2>1, Unchanged
  <2>2. ASSUME NEW c \in Callers,
               \/ Request(c) \/ Finish(c) \/ ReturnEarly(c) \/ Complete(c)
               \/ Receive(c) \/ Cancelled(c)
        PROVE  IInv'
    BY <2>2, CreateStep, JoinStep, FinishStep, ReturnEarlyStep, CompleteStep, WaitStep
       DEF Request
  <2>3. ASSUME NEW t \in Keys \X Entries, DeleteEntry(t)
        PROVE  IInv'
    BY <2>3, DeleteStep
  <2> QED BY <2>1, <2>2, <2>3 DEF Next
<1> QED BY <1>1, <1>2, PTL DEF Spec

\* Nobody in GetOrCreateEntry, Complete or Wait ever holds a nil entry.
THEOREM TypeCorrect ==
  ASSUME ~KeyMayChange
  PROVE  Spec => []TypeOK
<1>1. IInv => TypeOK
  BY DEF IInv
<1> QED BY <1>1, Invariance, PTL

\* GetOrCreateEntry gives a key one owner at a time, however its calls, those
\* of Complete and the timers interleave.
THEOREM OwnersAreExclusive ==
  ASSUME ~KeyMayChange
  PROVE  Spec => []ExclusiveOwner
<1>1. IInv => ExclusiveOwner
  BY DEF IInv, Exclusive, Holding, ExclusiveOwner, Owning
<1> QED BY <1>1, Invariance, PTL

\* Complete publishes its caller's result in the entry that caller created, and
\* close(entry.done) does not panic.
THEOREM OwnEntryIsCompleted ==
  ASSUME ~KeyMayChange
  PROVE  Spec => []CompletesOwnEntry
<1>1. IInv => CompletesOwnEntry
  BY DEF IInv, Holders, Holding, Owning, CompletesOwnEntry, At
<1> QED BY <1>1, Invariance, PTL

\* No waiter waits for an entry that nobody will complete, but for the entries
\* whose owner Do has let return early.
THEOREM NobodyIsAbandoned ==
  ASSUME ~KeyMayChange
  PROVE  Spec => []NobodyAbandoned
<1>1. IInv => NobodyAbandoned
  BY DEF IInv, Awaited, Known, NobodyAbandoned, At
<1> QED BY <1>1, Invariance, PTL

-----------------------------------------------------------------------------
(* The tracker implements Coalescing. *)

\* What a caller leads and follows is decided by its own variables.
LEMMA Mapped ==
  ASSUME NEW c \in Callers, NEW l, NEW f,
         \A d \in Callers \ {c} : UNCHANGED <<pc[d], entry[d], made[d]>>,
         l = IF Owning(c)' THEN made'[c] ELSE None,
         f = IF At(c, "waiter")' THEN entry'[c] ELSE None
  PROVE  /\ leads' = [leads EXCEPT ![c] = l]
         /\ follows' = [follows EXCEPT ![c] = f]
BY DEF leads, follows, Owning, At

LEMMA RequestImplements ==
  ASSUME IInv, NEW c \in Callers, Request(c)
  PROVE  Promise!Next
<1> USE ConfigAssumption DEF IInv, TypeOK, Goto, At
<1>1. ASSUME NEW k \in Keys, JoinEntry(c, k)
      PROVE  Promise!Follow(c, k)
  <2>1. /\ pc'[c] = "waiter" /\ entry'[c] = entries[k] /\ entries[k] # None
        /\ pc[c] = "idle" /\ UNCHANGED <<entries, done>>
        /\ \A d \in Callers \ {c} : UNCHANGED <<pc[d], entry[d], made[d]>>
    BY <1>1 DEF JoinEntry
  <2>2. leads[c] = None /\ follows[c] = None
    BY <2>1 DEF leads, follows, Owning
  <2>3. leads' = [leads EXCEPT ![c] = None] /\ follows' = [follows EXCEPT ![c] = entries[k]]
    BY <2>1, Mapped DEF Owning
  <2>4. UNCHANGED leads
    BY <2>2, <2>3 DEF leads
  <2> QED BY <2>1, <2>2, <2>3, <2>4 DEF Promise!Follow, Promise!Free
<1>2. ASSUME NEW k \in Keys, NEW e \in Entries, CreateEntry(c, k, e)
      PROVE  Promise!Lead(c, k, e)
  <2>1. /\ pc'[c] = "owner" /\ made'[c] = e /\ entries[k] = None /\ pc[c] = "idle"
        /\ entries' = [entries EXCEPT ![k] = e] /\ done' = done \ {e} /\ ~InUse(e)
        /\ \A d \in Callers \ {c} : UNCHANGED <<pc[d], entry[d], made[d]>>
    BY <1>2 DEF CreateEntry
  <2>2. leads[c] = None /\ follows[c] = None
    BY <2>1 DEF leads, follows, Owning
  <2>3. leads' = [leads EXCEPT ![c] = e] /\ follows' = [follows EXCEPT ![c] = None]
    BY <2>1, Mapped DEF Owning
  <2>4. UNCHANGED follows
    BY <2>2, <2>3 DEF follows
  <2>5. ~Promise!Referenced(e)
    BY <2>1 DEF Promise!Referenced, InUse, leads, follows
  <2> QED BY <2>1, <2>2, <2>3, <2>4, <2>5 DEF Promise!Lead, Promise!Free
<1> QED BY <1>1, <1>2 DEF Request, Promise!Next

LEMMA OwnerImplements ==
  ASSUME IInv, NEW c \in Callers, Finish(c) \/ ReturnEarly(c) \/ Complete(c)
  PROVE  [Promise!Next]_(Promise!vars)
<1> USE ConfigAssumption DEF IInv, At
<1>1. ASSUME Owning(c), Owning(c)', UNCHANGED <<entries, done, made>>,
             \A d \in Callers \ {c} : UNCHANGED <<pc[d], entry[d]>>
      PROVE  UNCHANGED Promise!vars
  BY <1>1 DEF leads, follows, Owning, Promise!vars
<1>2. CASE Finish(c)
  BY <1>1, <1>2 DEF Finish, Goto, TypeOK, Owning
<1>3. CASE ReturnEarly(c)
  <2>1. MayReturnEarly /\ pc[c] = "owner" /\ Return(c) /\ UNCHANGED <<entries, done>>
    BY <1>3 DEF ReturnEarly
  <2>2. leads[c] # None /\ follows[c] = None
    BY <2>1 DEF leads, follows, Owning, Holders, Holding, TypeOK
  <2>3. leads' = [leads EXCEPT ![c] = None] /\ follows' = [follows EXCEPT ![c] = None]
    BY <2>1, Returned, Mapped DEF Owning
  <2>4. UNCHANGED follows
    BY <2>2, <2>3 DEF follows
  <2>5. Promise!Vanish(c)
    BY <2>1, <2>2, <2>3, <2>4 DEF Promise!Vanish
  <2> QED BY <2>5 DEF Promise!Next
<1>4. CASE LookUp(c)
  <2>1. pc[c] = "complete" /\ entries[key[c]] = entry[c] /\ entry[c] # None
    BY <1>4 DEF LookUp, Holders, Holding, TypeOK
  <2> QED BY <1>1, <1>4, <2>1 DEF LookUp, Goto, TypeOK, Owning
<1>5. CASE Publish(c)
  <2>1. /\ pc[c] = "publish" /\ pc'[c] = "schedule" /\ done' = done \union {entry[c]}
        /\ UNCHANGED <<entries, entry>>
        /\ \A d \in Callers \ {c} : UNCHANGED <<pc[d], made[d]>>
    BY <1>5 DEF Publish, Goto, TypeOK
  <2>2. leads[c] = entry[c] /\ entry[c] # None /\ follows[c] = None
    BY <2>1 DEF leads, follows, Owning, Holders, Holding, TypeOK
  <2>3. leads' = [leads EXCEPT ![c] = None] /\ follows' = [follows EXCEPT ![c] = None]
    BY <2>1, Mapped DEF Owning
  <2>4. UNCHANGED follows
    BY <2>2, <2>3 DEF follows
  <2>5. Promise!Land(c)
    BY <2>1, <2>2, <2>3, <2>4 DEF Promise!Land
  <2> QED BY <2>5 DEF Promise!Next
<1>6. CASE ScheduleDelete(c)
  <2>1. pc[c] = "schedule" /\ Return(c) /\ UNCHANGED <<entries, done>>
    BY <1>6 DEF ScheduleDelete
  <2>2. UNCHANGED <<leads, follows>>
    BY <2>1, Returned DEF leads, follows, Owning
  <2> QED BY <2>1, <2>2 DEF Promise!vars
<1> QED BY <1>2, <1>3, <1>4, <1>5, <1>6 DEF Complete

LEMMA WaitImplements ==
  ASSUME IInv, NEW c \in Callers, Receive(c) \/ Cancelled(c)
  PROVE  Promise!Next
<1> USE ConfigAssumption DEF IInv, At
<1>1. pc[c] = "waiter" /\ Return(c) /\ UNCHANGED <<entries, done>>
  BY DEF Receive, Cancelled
<1>2. leads[c] = None /\ follows[c] = entry[c] /\ entry[c] # None
  BY <1>1 DEF leads, follows, Owning, TypeOK
<1>3. leads' = [leads EXCEPT ![c] = None] /\ follows' = [follows EXCEPT ![c] = None]
  BY <1>1, Returned, Mapped DEF Owning
<1>4. UNCHANGED leads
  BY <1>2, <1>3 DEF leads
<1>5. Promise!GiveUp(c)
  BY <1>1, <1>2, <1>3, <1>4 DEF Promise!GiveUp
<1> QED BY <1>5 DEF Promise!Next

\* A timer forgets an entry that is done, never one somebody still completes.
LEMMA DeleteImplements ==
  ASSUME IInv, NEW t \in Keys \X Entries, DeleteEntry(t)
  PROVE  Promise!Next
<1> USE ConfigAssumption DEF IInv
<1>1. t[1] \in Keys /\ entries[t[1]] = t[2] /\ t[2] \in done /\ t[2] # None
  BY DEF DeleteEntry, Timed
<1>2. UNCHANGED <<leads, follows>>
  BY DEF DeleteEntry, leads, follows, Owning, At
<1>3. Promise!Forget(t[1])
  BY <1>1, <1>2 DEF DeleteEntry, Promise!Forget
<1> QED BY <1>1, <1>3 DEF Promise!Next

\* GetOrCreateEntry, Complete, Wait and the timers implement Coalescing: every
\* waiter gets the result of the entry it joined, and no entry is forgotten
\* before it has one.
THEOREM TrackerKeepsPromise ==
  ASSUME ~KeyMayChange
  PROVE  Spec => PromiseKept
<1>1. Init => Promise!Init
  BY DEF Init, Promise!Init, leads, follows, Owning, At
<1>2. IInv /\ [Next]_vars => [Promise!Next]_(Promise!vars)
  <2> SUFFICES ASSUME IInv, [Next]_vars
               PROVE  [Promise!Next]_(Promise!vars)
    OBVIOUS
  <2>1. CASE UNCHANGED vars
    BY <2>1 DEF vars, Promise!vars, leads, follows, Owning, At
  <2>2. ASSUME NEW c \in Callers,
               \/ Request(c) \/ Finish(c) \/ ReturnEarly(c) \/ Complete(c)
               \/ Receive(c) \/ Cancelled(c)
        PROVE  [Promise!Next]_(Promise!vars)
    BY <2>2, RequestImplements, OwnerImplements, WaitImplements
  <2>3. ASSUME NEW t \in Keys \X Entries, DeleteEntry(t)
        PROVE  [Promise!Next]_(Promise!vars)
    BY <2>3, DeleteImplements
  <2> QED BY <2>1, <2>2, <2>3 DEF Next
<1> QED BY <1>1, <1>2, Invariance, PTL DEF Spec, PromiseKept, Promise!Spec
=============================================================================
