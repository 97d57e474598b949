---------------------------- MODULE ClientProofs ----------------------------
(***************************************************************************)
(* What Client.Do guarantees for any number of callers and keys, all       *)
(* configurations, thresholds and limits, and whatever expires in between: *)
(* one request upstream per key, and nothing left behind.                  *)
(***************************************************************************)
EXTENDS Client, TLAPS

Inside == {"limit", "breaker", "upstream", "decide", "attempted"}

\* What a caller's place in Do says of its own variables.
Places ==
  \A c \in Callers :
    /\ key[c] = None <=> At(c, "idle")
    /\ pc[c] \in {"decide", "attempted", "land", "finish", "complete"} => result[c] # None
    /\ pc[c] \in {"dedupWait", "complete"} => config.dedup
    /\ pc[c] \in Inside => route[c] # "none"
    /\ pc[c] \in {"idle", "dedupWait", "cache", "flight", "flightWait"} => route[c] = "none"
    /\ At(c, "land") => route[c] = "leader"
    /\ route[c] = "direct" => ~singleFlightMode
    /\ route[c] = "revalidation" => config.cache = "legacy" /\ config.mode = "HTTPSemantics"

\* An entry under its owner's key runs, and so does a flight under its leader's;
\* a second owner or leader would have found it so.
Owners ==
  \A c \in Callers, k \in Keys :
    Owns(c, k) => /\ dedup[k] = "running"
                  /\ \A d \in Callers : Owns(d, k) => d = c

Leaders ==
  \A c \in Callers, k \in Keys :
    Leads(c, k) => /\ flight[k] = "running"
                   /\ \A d \in Callers : Leads(d, k) => d = c

IInv == TypeOK /\ Places /\ Owners /\ Leaders /\ NothingLeftBehind

\* The types of the breaker's fields.
BreakerType == [state : {"Closed", "Open", "HalfOpen"},
                failures : 0..FailureThreshold, successes : 0..SuccessThreshold]

\* RecordFailure, RecordSuccess and Allow keep the breaker's counters in their ranges.
LEMMA BreakerSteps ==
  ASSUME NEW b \in BreakerType
  PROVE  /\ AfterFailure(b) \in BreakerType /\ AfterSuccess(b) \in BreakerType
         /\ [b EXCEPT !.state = "HalfOpen", !.successes = 0] \in BreakerType
<1>1. CountFailure(b.failures) \in 0..FailureThreshold
  BY ConfigAssumption DEF CountFailure, BreakerType
<1>2. AfterFailure(b) \in BreakerType
  <2>1. CASE b.state = "Closed"
    BY <1>1, <2>1 DEF AfterFailure, BreakerType
  <2>2. CASE b.state = "Open"
    BY <2>2 DEF AfterFailure
  <2>3. CASE b.state = "HalfOpen"
    BY <1>1, <2>3, ConfigAssumption DEF AfterFailure, BreakerType
  <2> QED BY <2>1, <2>2, <2>3 DEF BreakerType
<1>3. AfterSuccess(b) \in BreakerType
  BY ConfigAssumption DEF AfterSuccess, BreakerType
<1>4. [b EXCEPT !.state = "HalfOpen", !.successes = 0] \in BreakerType
  <2> DEFINE h == [b EXCEPT !.state = "HalfOpen"]
  <2>1. h \in BreakerType
    BY DEF BreakerType
  <2>2. 0 \in 0..SuccessThreshold
    BY ConfigAssumption
  <2> HIDE DEF h
  <2>3. [h EXCEPT !.successes = 0] \in BreakerType
    BY <2>1, <2>2 DEF BreakerType
  <2> QED BY <2>3 DEF h
<1> QED BY <1>2, <1>3, <1>4

LEMMA BreakerKept ==
  ASSUME TypeOK, NEW c \in Callers, BreakerAllow(c) \/ UpstreamReturns(c)
  PROVE  breaker' \in BreakerType
<1>1. breaker \in BreakerType
  BY DEF TypeOK, BreakerType
<1>2. \/ breaker' \in {breaker, AfterFailure(breaker), AfterSuccess(breaker)}
      \/ breaker' = [breaker EXCEPT !.state = "HalfOpen", !.successes = 0]
  BY DEF BreakerAllow, UpstreamReturns
<1> QED BY <1>1, <1>2, BreakerSteps

\* Each call of Do keeps the types; a result that is handed out is one.
LEMMA TypeStep ==
  ASSUME TypeOK, Places, [Next]_vars
  PROVE  TypeOK'
<1> USE ConfigAssumption
        DEF TypeOK, Labels, Places, At, Goto, SetResult, Return, RecordEnd,
            shared, locals, Slot, Results, Outcomes, Done
<1>1. ASSUME NEW c \in Callers, NEW k \in Keys, Start(c, k) PROVE TypeOK'
  BY <1>1 DEF Start
<1>2. ASSUME NEW c \in Callers, DedupHit(c) PROVE TypeOK'
  BY <1>2 DEF DedupHit
<1>3. ASSUME NEW c \in Callers, Cancelled(c) PROVE TypeOK'
  BY <1>3 DEF Cancelled
<1>4. ASSUME NEW c \in Callers, CacheHit(c) PROVE TypeOK'
  BY <1>4 DEF CacheHit
<1>5. ASSUME NEW c \in Callers, SemanticsHit(c) PROVE TypeOK'
  BY <1>5 DEF SemanticsHit
<1>6. ASSUME NEW c \in Callers, CacheMiss(c) PROVE TypeOK'
  BY <1>6 DEF CacheMiss
<1>7. ASSUME NEW c \in Callers, Lead(c) PROVE TypeOK'
  BY <1>7 DEF Lead
<1>8. ASSUME NEW c \in Callers, Follow(c) PROVE TypeOK'
  BY <1>8 DEF Follow
<1>9. ASSUME NEW c \in Callers, LimiterAllow(c) PROVE TypeOK'
  BY <1>9 DEF LimiterAllow, Fail
<1>10. ASSUME NEW c \in Callers, BreakerAllow(c) PROVE TypeOK'
  <2>1. breaker' \in BreakerType
    BY <1>10, BreakerKept
  <2>2. pc' \in [Callers -> Labels] /\ result' \in [Callers -> Results \union {None}]
    <3>1. CASE Goto(c, "upstream") /\ UNCHANGED result
      BY <3>1
    <3>2. CASE Fail(c, "circuitOpen")
      BY <3>2 DEF Fail
    <3> QED BY <1>10, <3>1, <3>2 DEF BreakerAllow
  <2>3. UNCHANGED <<config, dedup, flight, cached, tokens, spent, key, route, attempt, started>>
    BY <1>10 DEF BreakerAllow
  <2> QED BY <2>1, <2>2, <2>3 DEF BreakerType
<1>11. ASSUME NEW c \in Callers, UpstreamReturns(c) PROVE TypeOK'
  <2>1. breaker' \in BreakerType
    BY <1>11, BreakerKept
  <2> QED BY <1>11, <2>1 DEF UpstreamReturns, BreakerType
<1>12. ASSUME NEW c \in Callers, Decide(c) PROVE TypeOK'
  BY <1>12 DEF Decide, Fail, ShouldRetry
<1>13. ASSUME NEW c \in Callers, Attempted(c) PROVE TypeOK'
  BY <1>13 DEF Attempted, Cacheable
<1>14. ASSUME NEW c \in Callers, Land(c) PROVE TypeOK'
  <2>1. result[c] \in Results
    BY <1>14 DEF Land
  <2>2. result' \in [Callers -> Results \union {None}]
    BY <1>14, <2>1 DEF Land, HandOut
  <2>3. flight' \in [Keys -> Slot] /\ pc' \in [Callers -> Labels]
    BY <1>14, <2>1 DEF Land
  <2> QED BY <1>14, <2>2, <2>3 DEF Land
<1>15. ASSUME NEW c \in Callers, Finish(c) PROVE TypeOK'
  BY <1>15 DEF Finish, Cacheable
<1>16. ASSUME NEW c \in Callers, FinishPanics(c) PROVE TypeOK'
  BY <1>16 DEF FinishPanics
<1>17. ASSUME NEW c \in Callers, Complete(c) PROVE TypeOK'
  <2>1. result[c] \in Results
    BY <1>17 DEF Complete
  <2>2. result' \in [Callers -> Results \union {None}]
    BY <1>17, <2>1 DEF Complete
  <2>3. dedup' \in [Keys -> Slot]
    BY <1>17, <2>1 DEF Complete
  <2> QED BY <1>17, <2>2, <2>3 DEF Complete
<1>18. ASSUME NEW k \in Keys, SlotExpires(k) PROVE TypeOK'
  BY <1>18 DEF SlotExpires
<1>19. ASSUME NEW k \in Keys, CacheExpires(k) PROVE TypeOK'
  BY <1>19 DEF CacheExpires
<1>20. ASSUME Refill PROVE TypeOK'
  BY <1>20 DEF Refill
<1>21. ASSUME NewBudgetWindow PROVE TypeOK'
  BY <1>21 DEF NewBudgetWindow
<1>22. ASSUME UNCHANGED vars PROVE TypeOK'
  BY <1>22 DEF vars
<1> QED BY <1>1, <1>2, <1>3, <1>4, <1>5, <1>6, <1>7, <1>8, <1>9, <1>10, <1>11,
           <1>12, <1>13, <1>14, <1>15, <1>16, <1>17, <1>18, <1>19, <1>20, <1>21,
           <1>22
        DEF Next, Environment, Do, Proceed, doWithRetry, singleFlightDo

\* Each call of Do leaves its caller with what the next one relies on.
LEMMA PlacesStep ==
  ASSUME TypeOK, Places, [Next]_vars
  PROVE  Places'
<1> USE ConfigAssumption
        DEF TypeOK, Labels, Places, Inside, singleFlightMode, cacheEnabled,
            At, Goto, SetResult, Return, RecordEnd, shared, locals, Slot, Results,
            Outcomes, Done
<1>1. ASSUME NEW c \in Callers, NEW k \in Keys, Start(c, k) PROVE Places'
  BY <1>1 DEF Start
<1>2. ASSUME NEW c \in Callers, DedupHit(c) PROVE Places'
  BY <1>2 DEF DedupHit
<1>3. ASSUME NEW c \in Callers, Cancelled(c) PROVE Places'
  BY <1>3 DEF Cancelled
<1>4. ASSUME NEW c \in Callers, CacheHit(c) PROVE Places'
  BY <1>4 DEF CacheHit
<1>5. ASSUME NEW c \in Callers, SemanticsHit(c) PROVE Places'
  BY <1>5 DEF SemanticsHit
<1>6. ASSUME NEW c \in Callers, CacheMiss(c) PROVE Places'
  BY <1>6 DEF CacheMiss
<1>7. ASSUME NEW c \in Callers, Lead(c) PROVE Places'
  BY <1>7 DEF Lead
<1>8. ASSUME NEW c \in Callers, Follow(c) PROVE Places'
  BY <1>8 DEF Follow
<1>9. ASSUME NEW c \in Callers, LimiterAllow(c) PROVE Places'
  BY <1>9 DEF LimiterAllow, Fail
<1>10. ASSUME NEW c \in Callers, BreakerAllow(c) PROVE Places'
  BY <1>10 DEF BreakerAllow, Fail
<1>11. ASSUME NEW c \in Callers, UpstreamReturns(c) PROVE Places'
  BY <1>11 DEF UpstreamReturns
<1>12. ASSUME NEW c \in Callers, Decide(c) PROVE Places'
  BY <1>12 DEF Decide, Fail, ShouldRetry
<1>13. ASSUME NEW c \in Callers, Attempted(c) PROVE Places'
  BY <1>13 DEF Attempted
<1>14. ASSUME NEW c \in Callers, Land(c) PROVE Places'
  BY <1>14 DEF Land, HandOut, Waiting
<1>15. ASSUME NEW c \in Callers, Finish(c) PROVE Places'
  BY <1>15 DEF Finish
<1>16. ASSUME NEW c \in Callers, FinishPanics(c) PROVE Places'
  BY <1>16 DEF FinishPanics
<1>17. ASSUME NEW c \in Callers, Complete(c) PROVE Places'
  BY <1>17 DEF Complete, Waiting
<1>18. ASSUME NEW k \in Keys, SlotExpires(k) PROVE Places'
  BY <1>18 DEF SlotExpires
<1>19. ASSUME NEW k \in Keys, CacheExpires(k) PROVE Places'
  BY <1>19 DEF CacheExpires
<1>20. ASSUME Refill PROVE Places'
  BY <1>20 DEF Refill
<1>21. ASSUME NewBudgetWindow PROVE Places'
  BY <1>21 DEF NewBudgetWindow
<1>22. ASSUME UNCHANGED vars PROVE Places'
  BY <1>22 DEF vars
<1> QED BY <1>1, <1>2, <1>3, <1>4, <1>5, <1>6, <1>7, <1>8, <1>9, <1>10, <1>11,
           <1>12, <1>13, <1>14, <1>15, <1>16, <1>17, <1>18, <1>19, <1>20, <1>21,
           <1>22
        DEF Next, Environment, Do, Proceed, doWithRetry, singleFlightDo

\* An owner keeps its entry running until it completes it, and nobody else
\* starts one: GetOrCreateEntry creates an entry only where there is none.
LEMMA OwnersStep ==
  ASSUME TypeOK, Places, Owners, [Next]_vars
  PROVE  Owners'
<1> USE DEF TypeOK, Labels, Places, Inside, Owners, Owns, At, Goto, SetResult,
            Return, RecordEnd, shared, locals, Done, Results, Outcomes
<1>1. ASSUME NEW c \in Callers, NEW k \in Keys, Start(c, k) PROVE Owners'
  BY <1>1 DEF Start
<1>2. ASSUME NEW c \in Callers, DedupHit(c) PROVE Owners'
  BY <1>2 DEF DedupHit
<1>3. ASSUME NEW c \in Callers, Cancelled(c) PROVE Owners'
  BY <1>3 DEF Cancelled
<1>4. ASSUME NEW c \in Callers, CacheHit(c) PROVE Owners'
  BY <1>4 DEF CacheHit
<1>5. ASSUME NEW c \in Callers, SemanticsHit(c) PROVE Owners'
  BY <1>5 DEF SemanticsHit
<1>6. ASSUME NEW c \in Callers, CacheMiss(c) PROVE Owners'
  BY <1>6 DEF CacheMiss
<1>7. ASSUME NEW c \in Callers, Lead(c) PROVE Owners'
  BY <1>7 DEF Lead
<1>8. ASSUME NEW c \in Callers, Follow(c) PROVE Owners'
  BY <1>8 DEF Follow
<1>9. ASSUME NEW c \in Callers, LimiterAllow(c) PROVE Owners'
  BY <1>9 DEF LimiterAllow, Fail
<1>10. ASSUME NEW c \in Callers, BreakerAllow(c) PROVE Owners'
  BY <1>10 DEF BreakerAllow, Fail
<1>11. ASSUME NEW c \in Callers, UpstreamReturns(c) PROVE Owners'
  BY <1>11 DEF UpstreamReturns
<1>12. ASSUME NEW c \in Callers, Decide(c) PROVE Owners'
  BY <1>12 DEF Decide, Fail, ShouldRetry
<1>13. ASSUME NEW c \in Callers, Attempted(c) PROVE Owners'
  BY <1>13 DEF Attempted
<1>14. ASSUME NEW c \in Callers, Land(c) PROVE Owners'
  BY <1>14 DEF Land, HandOut, Waiting
<1>15. ASSUME NEW c \in Callers, Finish(c) PROVE Owners'
  BY <1>15 DEF Finish
<1>16. ASSUME NEW c \in Callers, FinishPanics(c) PROVE Owners'
  BY <1>16 DEF FinishPanics
<1>17. ASSUME NEW c \in Callers, Complete(c) PROVE Owners'
  BY <1>17 DEF Complete, Waiting
<1>18. ASSUME NEW k \in Keys, SlotExpires(k) PROVE Owners'
  BY <1>18 DEF SlotExpires
<1>19. ASSUME NEW k \in Keys, CacheExpires(k) PROVE Owners'
  BY <1>19 DEF CacheExpires
<1>20. ASSUME Refill PROVE Owners'
  BY <1>20 DEF Refill
<1>21. ASSUME NewBudgetWindow PROVE Owners'
  BY <1>21 DEF NewBudgetWindow
<1>22. ASSUME UNCHANGED vars PROVE Owners'
  BY <1>22 DEF vars
<1> QED BY <1>1, <1>2, <1>3, <1>4, <1>5, <1>6, <1>7, <1>8, <1>9, <1>10, <1>11,
           <1>12, <1>13, <1>14, <1>15, <1>16, <1>17, <1>18, <1>19, <1>20, <1>21,
           <1>22
        DEF Next, Environment, Do, Proceed, doWithRetry, singleFlightDo

\* The same of a leader and its flight.
LEMMA LeadersStep ==
  ASSUME TypeOK, Places, Leaders, [Next]_vars
  PROVE  Leaders'
<1> USE DEF TypeOK, Labels, Places, Inside, Leaders, Leads, At, Goto,
            SetResult, Return, RecordEnd, shared, locals, Done, Results, Outcomes
<1>1. ASSUME NEW c \in Callers, NEW k \in Keys, Start(c, k) PROVE Leaders'
  BY <1>1 DEF Start
<1>2. ASSUME NEW c \in Callers, DedupHit(c) PROVE Leaders'
  BY <1>2 DEF DedupHit
<1>3. ASSUME NEW c \in Callers, Cancelled(c) PROVE Leaders'
  BY <1>3 DEF Cancelled
<1>4. ASSUME NEW c \in Callers, CacheHit(c) PROVE Leaders'
  BY <1>4 DEF CacheHit
<1>5. ASSUME NEW c \in Callers, SemanticsHit(c) PROVE Leaders'
  BY <1>5 DEF SemanticsHit
<1>6. ASSUME NEW c \in Callers, CacheMiss(c) PROVE Leaders'
  BY <1>6 DEF CacheMiss
<1>7. ASSUME NEW c \in Callers, Lead(c) PROVE Leaders'
  BY <1>7 DEF Lead
<1>8. ASSUME NEW c \in Callers, Follow(c) PROVE Leaders'
  BY <1>8 DEF Follow
<1>9. ASSUME NEW c \in Callers, LimiterAllow(c) PROVE Leaders'
  BY <1>9 DEF LimiterAllow, Fail
<1>10. ASSUME NEW c \in Callers, BreakerAllow(c) PROVE Leaders'
  BY <1>10 DEF BreakerAllow, Fail
<1>11. ASSUME NEW c \in Callers, UpstreamReturns(c) PROVE Leaders'
  BY <1>11 DEF UpstreamReturns
<1>12. ASSUME NEW c \in Callers, Decide(c) PROVE Leaders'
  BY <1>12 DEF Decide, Fail, ShouldRetry
<1>13. ASSUME NEW c \in Callers, Attempted(c) PROVE Leaders'
  BY <1>13 DEF Attempted
<1>14. ASSUME NEW c \in Callers, Land(c) PROVE Leaders'
  BY <1>14 DEF Land, HandOut, Waiting
<1>15. ASSUME NEW c \in Callers, Finish(c) PROVE Leaders'
  BY <1>15 DEF Finish
<1>16. ASSUME NEW c \in Callers, FinishPanics(c) PROVE Leaders'
  BY <1>16 DEF FinishPanics
<1>17. ASSUME NEW c \in Callers, Complete(c) PROVE Leaders'
  BY <1>17 DEF Complete, Waiting
<1>18. ASSUME NEW k \in Keys, SlotExpires(k) PROVE Leaders'
  BY <1>18 DEF SlotExpires
<1>19. ASSUME NEW k \in Keys, CacheExpires(k) PROVE Leaders'
  BY <1>19 DEF CacheExpires
<1>20. ASSUME Refill PROVE Leaders'
  BY <1>20 DEF Refill
<1>21. ASSUME NewBudgetWindow PROVE Leaders'
  BY <1>21 DEF NewBudgetWindow
<1>22. ASSUME UNCHANGED vars PROVE Leaders'
  BY <1>22 DEF vars
<1> QED BY <1>1, <1>2, <1>3, <1>4, <1>5, <1>6, <1>7, <1>8, <1>9, <1>10, <1>11,
           <1>12, <1>13, <1>14, <1>15, <1>16, <1>17, <1>18, <1>19, <1>20, <1>21,
           <1>22
        DEF Next, Environment, Do, Proceed, doWithRetry, singleFlightDo

\* Whoever leaves Do, or stops leading, has completed what it owned.
LEMMA OrphansStep ==
  ASSUME TypeOK, Places, Owners, Leaders, NoOrphans, [Next]_vars
  PROVE  NoOrphans'
<1> USE DEF TypeOK, Labels, Places, Inside, NoOrphans, Owners, Leaders, Owns,
            Leads, cacheEnabled, At, Goto, SetResult, Return, RecordEnd, shared,
            locals
<1>1. ASSUME NEW c \in Callers, NEW k \in Keys, Start(c, k) PROVE NoOrphans'
  BY <1>1 DEF Start
<1>2. ASSUME NEW c \in Callers, DedupHit(c) PROVE NoOrphans'
  BY <1>2 DEF DedupHit
<1>3. ASSUME NEW c \in Callers, Cancelled(c) PROVE NoOrphans'
  BY <1>3 DEF Cancelled
<1>4. ASSUME NEW c \in Callers, CacheHit(c) PROVE NoOrphans'
  BY <1>4 DEF CacheHit, LooksUp
<1>5. ASSUME NEW c \in Callers, SemanticsHit(c) PROVE NoOrphans'
  BY <1>5 DEF SemanticsHit
<1>6. ASSUME NEW c \in Callers, CacheMiss(c) PROVE NoOrphans'
  BY <1>6 DEF CacheMiss
<1>7. ASSUME NEW c \in Callers, Lead(c) PROVE NoOrphans'
  BY <1>7 DEF Lead
<1>8. ASSUME NEW c \in Callers, Follow(c) PROVE NoOrphans'
  BY <1>8 DEF Follow
<1>9. ASSUME NEW c \in Callers, LimiterAllow(c) PROVE NoOrphans'
  BY <1>9 DEF LimiterAllow, Fail
<1>10. ASSUME NEW c \in Callers, BreakerAllow(c) PROVE NoOrphans'
  BY <1>10 DEF BreakerAllow, Fail
<1>11. ASSUME NEW c \in Callers, UpstreamReturns(c) PROVE NoOrphans'
  BY <1>11 DEF UpstreamReturns
<1>12. ASSUME NEW c \in Callers, Decide(c) PROVE NoOrphans'
  BY <1>12 DEF Decide, Fail, ShouldRetry
<1>13. ASSUME NEW c \in Callers, Attempted(c) PROVE NoOrphans'
  BY <1>13 DEF Attempted
<1>14. ASSUME NEW c \in Callers, Land(c) PROVE NoOrphans'
  <2>1. result[c] # "running" /\ config' = config /\ dedup' = dedup /\ key' = key /\ route' = route
    BY <1>14 DEF Land, Results, Outcomes
  <2>2. ASSUME NEW d \in Callers
        PROVE  pc'[d] = pc[d] \/ ((d = c \/ At(d, "flightWait")) /\ pc'[d] = "finish")
    <3>1. pc'[d] = IF d \in Waiting("flightWait", key[c]) \union {c} THEN "finish" ELSE pc[d]
      BY <1>14 DEF Land
    <3> QED BY <3>1 DEF Waiting
  <2>3. ASSUME NEW k \in Keys, ~cacheEnabled, dedup[k] = "running"
        PROVE  \E d \in Callers : Owns(d, k)'
    BY <2>1, <2>2, <2>3
  <2>4. ASSUME NEW k \in Keys, flight'[k] = "running"
        PROVE  \E d \in Callers : Leads(d, k)'
    <3>1. k # key[c] /\ flight[k] = "running"
      BY <1>14, <2>1, <2>4 DEF Land
    <3>2. PICK d \in Callers : Leads(d, k)
      BY <3>1
    <3>3. d # c /\ pc'[d] = pc[d]
      BY <2>2, <3>1, <3>2
    <3> QED BY <2>1, <3>2, <3>3
  <2> QED BY <2>1, <2>3, <2>4
<1>15. ASSUME NEW c \in Callers, Finish(c) PROVE NoOrphans'
  BY <1>15 DEF Finish
<1>16. ASSUME NEW c \in Callers, FinishPanics(c) PROVE NoOrphans'
  BY <1>16 DEF FinishPanics
<1>17. ASSUME NEW c \in Callers, Complete(c) PROVE NoOrphans'
  <2>1. result[c] # "running" /\ config' = config /\ flight' = flight
    BY <1>17 DEF Complete, Results, Outcomes
  <2>2. \A d \in Callers \ {c} : pc'[d] = pc[d] /\ key'[d] = key[d] /\ route'[d] = route[d]
    BY <1>17 DEF Complete
  <2>3. ASSUME NEW k \in Keys, ~cacheEnabled, dedup'[k] = "running"
        PROVE  \E d \in Callers : Owns(d, k)'
    <3>1. k # key[c] /\ dedup[k] = "running"
      BY <1>17, <2>1, <2>3 DEF Complete
    <3>2. PICK d \in Callers : Owns(d, k)
      BY <2>3, <3>1
    <3> QED BY <2>1, <2>2, <3>1, <3>2
  <2>4. ASSUME NEW k \in Keys, flight[k] = "running"
        PROVE  \E d \in Callers : Leads(d, k)'
    <3>1. PICK d \in Callers : Leads(d, k)
      BY <2>4
    <3>2. d # c
      BY <1>17, <3>1 DEF Complete
    <3> QED BY <2>2, <3>1, <3>2
  <2> QED BY <2>1, <2>3, <2>4
<1>18. ASSUME NEW k \in Keys, SlotExpires(k) PROVE NoOrphans'
  BY <1>18 DEF SlotExpires
<1>19. ASSUME NEW k \in Keys, CacheExpires(k) PROVE NoOrphans'
  BY <1>19 DEF CacheExpires
<1>20. ASSUME Refill PROVE NoOrphans'
  BY <1>20 DEF Refill
<1>21. ASSUME NewBudgetWindow PROVE NoOrphans'
  BY <1>21 DEF NewBudgetWindow
<1>22. ASSUME UNCHANGED vars PROVE NoOrphans'
  BY <1>22 DEF vars
<1> QED BY <1>1, <1>2, <1>3, <1>4, <1>5, <1>6, <1>7, <1>8, <1>9, <1>10, <1>11,
           <1>12, <1>13, <1>14, <1>15, <1>16, <1>17, <1>18, <1>19, <1>20, <1>21,
           <1>22
        DEF Next, Environment, Do, Proceed, doWithRetry, singleFlightDo

\* Whoever leaves Do has recorded the end of its request.
LEMMA GaugeStep ==
  ASSUME TypeOK, Places, GaugeBalanced, [Next]_vars
  PROVE  GaugeBalanced'
<1> USE DEF TypeOK, Labels, Places, GaugeBalanced, At, Goto, SetResult,
            Return, RecordEnd, shared, locals
<1>1. ASSUME NEW c \in Callers, NEW k \in Keys, Start(c, k) PROVE GaugeBalanced'
  BY <1>1 DEF Start
<1>2. ASSUME NEW c \in Callers, DedupHit(c) PROVE GaugeBalanced'
  BY <1>2 DEF DedupHit
<1>3. ASSUME NEW c \in Callers, Cancelled(c) PROVE GaugeBalanced'
  BY <1>3 DEF Cancelled
<1>4. ASSUME NEW c \in Callers, CacheHit(c) PROVE GaugeBalanced'
  BY <1>4 DEF CacheHit
<1>5. ASSUME NEW c \in Callers, SemanticsHit(c) PROVE GaugeBalanced'
  BY <1>5 DEF SemanticsHit
<1>6. ASSUME NEW c \in Callers, CacheMiss(c) PROVE GaugeBalanced'
  BY <1>6 DEF CacheMiss
<1>7. ASSUME NEW c \in Callers, Lead(c) PROVE GaugeBalanced'
  BY <1>7 DEF Lead
<1>8. ASSUME NEW c \in Callers, Follow(c) PROVE GaugeBalanced'
  BY <1>8 DEF Follow
<1>9. ASSUME NEW c \in Callers, LimiterAllow(c) PROVE GaugeBalanced'
  BY <1>9 DEF LimiterAllow, Fail
<1>10. ASSUME NEW c \in Callers, BreakerAllow(c) PROVE GaugeBalanced'
  BY <1>10 DEF BreakerAllow, Fail
<1>11. ASSUME NEW c \in Callers, UpstreamReturns(c) PROVE GaugeBalanced'
  BY <1>11 DEF UpstreamReturns
<1>12. ASSUME NEW c \in Callers, Decide(c) PROVE GaugeBalanced'
  BY <1>12 DEF Decide, Fail, ShouldRetry
<1>13. ASSUME NEW c \in Callers, Attempted(c) PROVE GaugeBalanced'
  BY <1>13 DEF Attempted
<1>14. ASSUME NEW c \in Callers, Land(c) PROVE GaugeBalanced'
  BY <1>14 DEF Land, HandOut, Waiting
<1>15. ASSUME NEW c \in Callers, Finish(c) PROVE GaugeBalanced'
  BY <1>15 DEF Finish
<1>16. ASSUME NEW c \in Callers, FinishPanics(c) PROVE GaugeBalanced'
  BY <1>16 DEF FinishPanics
<1>17. ASSUME NEW c \in Callers, Complete(c) PROVE GaugeBalanced'
  BY <1>17 DEF Complete, Waiting
<1>18. ASSUME NEW k \in Keys, SlotExpires(k) PROVE GaugeBalanced'
  BY <1>18 DEF SlotExpires
<1>19. ASSUME NEW k \in Keys, CacheExpires(k) PROVE GaugeBalanced'
  BY <1>19 DEF CacheExpires
<1>20. ASSUME Refill PROVE GaugeBalanced'
  BY <1>20 DEF Refill
<1>21. ASSUME NewBudgetWindow PROVE GaugeBalanced'
  BY <1>21 DEF NewBudgetWindow
<1>22. ASSUME UNCHANGED vars PROVE GaugeBalanced'
  BY <1>22 DEF vars
<1> QED BY <1>1, <1>2, <1>3, <1>4, <1>5, <1>6, <1>7, <1>8, <1>9, <1>10, <1>11,
           <1>12, <1>13, <1>14, <1>15, <1>16, <1>17, <1>18, <1>19, <1>20, <1>21,
           <1>22
        DEF Next, Environment, Do, Proceed, doWithRetry, singleFlightDo

-----------------------------------------------------------------------------

\* The inductive invariant.
LEMMA Invariant == Spec => []IInv
<1>1. Init => IInv
  BY ConfigAssumption
     DEF Init, IInv, TypeOK, Places, Owners, Leaders, Owns, Leads, NothingLeftBehind,
         NoOrphans, GaugeBalanced, At, Inside, Slot, Results, Outcomes, Labels
<1>2. IInv /\ [Next]_vars => IInv'
  BY TypeStep, PlacesStep, OwnersStep, LeadersStep, OrphansStep, GaugeStep
     DEF IInv, NothingLeftBehind
<1> QED BY <1>1, <1>2, PTL DEF Spec

\* In particular, Do makes no more than MaxRetries retries, and stores nothing
\* but responses below 400.
THEOREM TypeCorrect == Spec => []TypeOK
BY Invariant, PTL DEF IInv

\* With deduplication or with the single flight, at most one caller per key is
\* inside doWithRetry, whatever expires, is cancelled or is retried in between.
THEOREM UpstreamIsExclusive == Spec => []ExclusiveUpstream
<1>1. IInv => ExclusiveUpstream
  <2> SUFFICES ASSUME IInv, config.dedup \/ singleFlightMode,
                      NEW c \in Callers, NEW d \in Callers, c # d, Upstream(c), Upstream(d),
                      key[c] = key[d]
               PROVE  FALSE
    BY DEF ExclusiveUpstream
  <2>1. key[c] \in Keys
    BY DEF IInv, TypeOK, Places, Upstream, At
  <2>2. CASE config.dedup
    <3>1. Owns(c, key[c]) /\ Owns(d, key[c])
      BY <2>2 DEF Upstream, Owns
    <3> QED BY <2>1, <3>1 DEF IInv, Owners
  <2>3. CASE singleFlightMode
    <3>1. route[c] = "leader" /\ route[d] = "leader"
      BY <2>3 DEF IInv, TypeOK, Places, Inside, Upstream
    <3>2. Leads(c, key[c]) /\ Leads(d, key[c])
      BY <3>1 DEF Upstream, Leads
    <3> QED BY <2>1, <3>2 DEF IInv, Leaders
  <2> QED BY <2>2, <2>3
<1> QED BY <1>1, Invariant, PTL

\* Do completes the deduplication entries and the flights it has registered and
\* balances the requests-in-flight gauge, for the configurations in which the
\* code does so.
THEOREM NothingStaysBehind == Spec => []NothingLeftBehind
BY Invariant, PTL DEF IInv
=============================================================================
