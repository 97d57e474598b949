----------------------------- MODULE Coalescing -----------------------------
(***************************************************************************)
(* What request coalescing promises: of the callers that ask for a key at  *)
(* the same time one leads a flight for that key and the others follow it, *)
(* each follower gets the result of the flight it joined, and a flight may *)
(* be joined until it is forgotten, which happens only after it landed.    *)
(* The ways out of this promise are parameters: a leader that vanishes     *)
(* before its flight has landed, a flight forgotten on request, a follower *)
(* that gives up.                                                          *)
(*                                                                         *)
(* The promise is abstract: DeduplicationTracker and singleflight.Group    *)
(* are shown to implement it.                                              *)
(***************************************************************************)
CONSTANTS Callers, Keys, Flights, None, MayVanish, MayForget, MayGiveUp

VARIABLES
  current,  \* current[k]: the flight a caller asking for k joins, or None
  landed,   \* the flights whose result is known
  leads,    \* leads[c]: the flight caller c carries out, or None
  follows   \* follows[c]: the flight caller c waits for, or None

vars == <<current, landed, leads, follows>>

Init ==
  /\ current = [k \in Keys |-> None]
  /\ landed = {}
  /\ leads = [c \in Callers |-> None]
  /\ follows = [c \in Callers |-> None]

Free(c) == leads[c] = None /\ follows[c] = None

Referenced(f) ==
  \/ \E k \in Keys : current[k] = f
  \/ \E c \in Callers : leads[c] = f \/ follows[c] = f

Lead(c, k, f) ==
  /\ Free(c)
  /\ current[k] = None
  /\ ~Referenced(f)
  /\ current' = [current EXCEPT ![k] = f]
  /\ leads' = [leads EXCEPT ![c] = f]
  /\ landed' = landed \ {f}
  /\ UNCHANGED follows

Follow(c, k) ==
  /\ Free(c)
  /\ current[k] # None
  /\ follows' = [follows EXCEPT ![c] = current[k]]
  /\ UNCHANGED <<current, landed, leads>>

Land(c) ==
  /\ leads[c] # None
  /\ landed' = landed \union {leads[c]}
  /\ leads' = [leads EXCEPT ![c] = None]
  /\ UNCHANGED <<current, follows>>

Vanish(c) ==
  /\ MayVanish
  /\ leads[c] # None
  /\ leads' = [leads EXCEPT ![c] = None]
  /\ UNCHANGED <<current, landed, follows>>

Receive(c) ==
  /\ follows[c] \in landed
  /\ follows' = [follows EXCEPT ![c] = None]
  /\ UNCHANGED <<current, landed, leads>>

\* The caller's context is cancelled.
GiveUp(c) ==
  /\ MayGiveUp
  /\ follows[c] # None
  /\ follows' = [follows EXCEPT ![c] = None]
  /\ UNCHANGED <<current, landed, leads>>

Forget(k) ==
  /\ current[k] # None
  /\ current[k] \in landed \/ MayForget
  /\ current' = [current EXCEPT ![k] = None]
  /\ UNCHANGED <<landed, leads, follows>>

Next ==
  \/ \E c \in Callers : Land(c) \/ Vanish(c) \/ Receive(c) \/ GiveUp(c)
  \/ \E c \in Callers, k \in Keys :
       Follow(c, k) \/ \E f \in Flights : Lead(c, k, f)
  \/ \E k \in Keys : Forget(k)

Spec == Init /\ [][Next]_vars
=============================================================================
