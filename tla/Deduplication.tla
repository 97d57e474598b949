--------------------------- MODULE Deduplication ---------------------------
(***************************************************************************)
(* DeduplicationTracker (deduplication.go) and the protocol Client.Do      *)
(* follows with it: the caller that creates a key's entry owns the request *)
(* and calls Complete when it has the response; the others Wait.  One      *)
(* action per critical section: what happens between two of them may       *)
(* interleave with other callers and with the timers Complete starts.      *)
(*                                                                         *)
(* An entry is an object: the pool Entries is finite, and an entry is made *)
(* from a member of the pool that nothing refers to any more.              *)
(***************************************************************************)
EXTENDS Naturals

CONSTANTS
  Callers,         \* goroutines in Client.Do
  Keys,            \* what dedupKeyFunc returns
  Entries,         \* the pool of *DeduplicationEntry
  None,            \* nil
  MayReturnEarly,  \* TRUE when Do may serve the owner from a cache, and return
  KeyMayChange     \* TRUE when dedupKeyFunc may give another key after the request

ASSUME ConfigAssumption ==
  /\ None \notin Entries
  /\ MayReturnEarly \in BOOLEAN
  /\ KeyMayChange \in BOOLEAN

VARIABLES
  entries,  \* dt.entries: the entry of each key, or None
  done,     \* the entries whose done channel is closed
  pc,       \* pc[c]: where caller c is in Do
  key,      \* key[c]: the key c asked for; in Complete, the key it computed
  entry,    \* entry[c]: the entry c owns or waits for; in Complete, the one it found
  timers,   \* the deletions Complete has scheduled, as <<key, entry>> pairs
  made,     \* history: made[c] is the entry c created, while c carries it out
  deserted  \* history: the entries in use whose owner returned without Complete

vars == <<entries, done, pc, key, entry, timers, made, deserted>>

Labels == {"idle", "owner", "complete", "publish", "schedule", "waiter"}

\* A caller that has called the tracker never holds a nil entry.
TypeOK ==
  /\ entries \in [Keys -> Entries \union {None}]
  /\ done \subseteq Entries
  /\ pc \in [Callers -> Labels]
  /\ key \in [Callers -> Keys \union {None}]
  /\ entry \in [Callers -> Entries \union {None}]
  /\ timers \subseteq Keys \X Entries
  /\ made \in [Callers -> Entries \union {None}]
  /\ deserted \subseteq Entries
  /\ \A c \in Callers : pc[c] # "idle" => key[c] \in Keys /\ entry[c] \in Entries

Init ==
  /\ entries = [k \in Keys |-> None]
  /\ done = {}
  /\ pc = [c \in Callers |-> "idle"]
  /\ key = [c \in Callers |-> None]
  /\ entry = [c \in Callers |-> None]
  /\ timers = {}
  /\ made = [c \in Callers |-> None]
  /\ deserted = {}

-----------------------------------------------------------------------------

At(c, label) == pc[c] = label
Goto(c, label) == pc' = [pc EXCEPT ![c] = label]

Return(c) ==
  /\ Goto(c, "idle")
  /\ key' = [key EXCEPT ![c] = None]
  /\ entry' = [entry EXCEPT ![c] = None]
  /\ made' = [made EXCEPT ![c] = None]

InUse(e) ==
  \/ \E k \in Keys : entries[k] = e
  \/ \E c \in Callers : entry[c] = e \/ made[c] = e
  \/ \E t \in timers : t[2] = e

-----------------------------------------------------------------------------
(* GetOrCreateEntry *)

CreateEntry(c, k, e) ==
  /\ At(c, "idle")
  /\ entries[k] = None
  /\ ~InUse(e)
  /\ entries' = [entries EXCEPT ![k] = e]
  /\ done' = done \ {e}
  /\ deserted' = deserted \ {e}
  /\ Goto(c, "owner")
  /\ key' = [key EXCEPT ![c] = k]
  /\ entry' = [entry EXCEPT ![c] = e]
  /\ made' = [made EXCEPT ![c] = e]
  /\ UNCHANGED timers

\* A slip: the lookup's result is not tested.
JoinEntry_Unchecked(c, k) ==
  /\ At(c, "idle")
  /\ Goto(c, "waiter")
  /\ key' = [key EXCEPT ![c] = k]
  /\ entry' = [entry EXCEPT ![c] = entries[k]]
  /\ UNCHANGED <<entries, done, timers, made, deserted>>

JoinEntry(c, k) ==
  /\ At(c, "idle")
  /\ entries[k] # None
  /\ Goto(c, "waiter")
  /\ key' = [key EXCEPT ![c] = k]
  /\ entry' = [entry EXCEPT ![c] = entries[k]]
  /\ UNCHANGED <<entries, done, timers, made, deserted>>

-----------------------------------------------------------------------------
(* The owner *)

\* The keys dedupKeyFunc may compute for the owner's request once it is done:
\* Do computes the key again instead of keeping it.
KeysAfter_Any(k) == Keys
KeysAfter(k) == IF KeyMayChange THEN Keys ELSE {k}

\* The request is over, with a response or an error: Do calls Complete.
Finish(c) ==
  /\ At(c, "owner")
  /\ \E k \in KeysAfter(key[c]) : key' = [key EXCEPT ![c] = k]
  /\ Goto(c, "complete")
  /\ UNCHANGED <<entries, done, entry, timers, made, deserted>>

\* Do serves the owner from a cache and returns, without Complete.
ReturnEarly(c) ==
  /\ MayReturnEarly
  /\ At(c, "owner")
  /\ deserted' = deserted \union {made[c]}
  /\ Return(c)
  /\ UNCHANGED <<entries, done, timers>>

\* Complete looks the key up under dt.mu.
LookUp(c) ==
  /\ At(c, "complete")
  /\ \/ /\ entries[key[c]] = None
        /\ Return(c)
     \/ /\ entries[key[c]] # None
        /\ entry' = [entry EXCEPT ![c] = entries[key[c]]]
        /\ Goto(c, "publish")
        /\ UNCHANGED <<key, made>>
  /\ UNCHANGED <<entries, done, timers, deserted>>

\* Under entry.mu: the result is stored and done closed.
Publish_KeepsOpen(c) ==
  /\ At(c, "publish")
  /\ Goto(c, "schedule")
  /\ made' = [made EXCEPT ![c] = None]
  /\ UNCHANGED <<entries, done, key, entry, timers, deserted>>

Publish(c) ==
  /\ At(c, "publish")
  /\ done' = done \union {entry[c]}
  /\ Goto(c, "schedule")
  /\ made' = [made EXCEPT ![c] = None]
  /\ UNCHANGED <<entries, key, entry, timers, deserted>>

\* time.AfterFunc.
ScheduleDelete(c) ==
  /\ At(c, "schedule")
  /\ timers' = timers \union {<<key[c], entry[c]>>}
  /\ Return(c)
  /\ UNCHANGED <<entries, done, deserted>>

\* A slip: the timer is not started with Complete but with the entry.
DeleteEntry_BeforeDone(t) ==
  /\ \/ t \in timers
     \/ t[1] \in Keys /\ entries[t[1]] = t[2]
  /\ entries' = [entries EXCEPT ![t[1]] = None]
  /\ timers' = timers \ {t}
  /\ UNCHANGED <<done, pc, key, entry, made, deserted>>

\* A timer fires and deletes whatever the key holds then.
DeleteEntry(t) ==
  /\ t \in timers
  /\ entries' = [entries EXCEPT ![t[1]] = None]
  /\ timers' = timers \ {t}
  /\ UNCHANGED <<done, pc, key, entry, made, deserted>>

-----------------------------------------------------------------------------
(* Wait *)

Receive(c) ==
  /\ At(c, "waiter")
  /\ entry[c] \in done
  /\ Return(c)
  /\ UNCHANGED <<entries, done, timers, deserted>>

\* The waiter's context is cancelled.
Cancelled(c) ==
  /\ At(c, "waiter")
  /\ Return(c)
  /\ UNCHANGED <<entries, done, timers, deserted>>

-----------------------------------------------------------------------------

Complete(c) == LookUp(c) \/ Publish(c) \/ ScheduleDelete(c)

Request(c) ==
  \E k \in Keys : JoinEntry(c, k) \/ \E e \in Entries : CreateEntry(c, k, e)

Next ==
  \/ \E c \in Callers :
       \/ Request(c) \/ Finish(c) \/ ReturnEarly(c) \/ Complete(c)
       \/ Receive(c) \/ Cancelled(c)
  \/ \E t \in Keys \X Entries : DeleteEntry(t)

Spec == Init /\ [][Next]_vars

\* Requests end (the HTTP client has a timeout), goroutines are scheduled and
\* timers fire.  Nobody has to start a request and no context has to end.
FairSpec ==
  /\ Spec
  /\ \A c \in Callers :
       WF_vars(Finish(c)) /\ WF_vars(Complete(c)) /\ WF_vars(Receive(c))
  /\ \A t \in Keys \X Entries : WF_vars(DeleteEntry(t))

-----------------------------------------------------------------------------

\* The callers carrying out a request they own, until its result is known.
Owning(c) == pc[c] \in {"owner", "complete", "publish"}

\* Two owners never carry out requests for one key at the same time.
ExclusiveOwner ==
  \A c, d \in Callers :
    c # d /\ Owning(c) /\ Owning(d) => key[c] # key[d]

\* Complete, which only knows the key, finds the entry its caller created: no
\* timer of an earlier request has removed or replaced it meanwhile. And it
\* closes done for the first time: closing it again would panic.
CompletesOwnEntry ==
  \A c \in Callers :
    /\ At(c, "complete") => entries[key[c]] = made[c]
    /\ At(c, "publish") => entry[c] = made[c] /\ entry[c] \notin done

\* Every waiter is waiting for somebody: its entry is done, or the caller that
\* created it is still on its way to Complete, unless that caller returned early.
NobodyAbandoned ==
  \A w \in Callers :
    At(w, "waiter") =>
      \/ entry[w] \in done \union deserted
      \/ \E c \in Callers : Owning(c) /\ made[c] = entry[w]

\* "releases waiters": every waiter returns, even one whose context never ends.
\* Only the waiters of an owner that returned early may be left behind.
WaitersReturn ==
  \A c \in Callers, e \in Entries :
    At(c, "waiter") /\ entry[c] = e ~> entry[c] # e \/ e \in deserted

\* The map does not keep an entry for ever, unless its owner returned early:
\* the key can be requested anew, and the request is carried out.
EntriesExpire ==
  \A k \in Keys, e \in Entries :
    entries[k] = e ~> entries[k] # e \/ e \in deserted

Progress == WaitersReturn /\ EntriesExpire

\* The tracker implements the promise of Coalescing.
leads == [c \in Callers |-> IF Owning(c) THEN made[c] ELSE None]
follows == [c \in Callers |-> IF At(c, "waiter") THEN entry[c] ELSE None]

Promise == INSTANCE Coalescing WITH
             Flights <- Entries, current <- entries, landed <- done,
             MayVanish <- MayReturnEarly, MayForget <- FALSE, MayGiveUp <- TRUE

PromiseKept == Promise!Spec
=============================================================================
