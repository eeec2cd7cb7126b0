-------------------------- MODULE ServicesProofs --------------------------
(***************************************************************************)
(* Proofs about components of the search path and of the daemon that share  *)
(* no state: the warmer, the pacing of a host, the keys, the polls of a     *)
(* feed, the grab of a release and the settings that drivers write.         *)
(***************************************************************************)
EXTENDS MCServices, ResolverProofs, EnginesProofs, OrdersProofs, FiniteSetTheorems,
        SequenceTheorems, TLAPS

---------------------------------------------------------------------------
(***************************************************************************)
(* Warmer, for any number of feeds and any interval: a target is warmed at  *)
(* a tick exactly when one of its boundaries has come since the tick        *)
(* before, and its phase never drifts.                                      *)
(***************************************************************************)

LEMMA DivBounds ==
  ASSUME NEW a \in Nat, NEW b \in Nat \ {0}
  PROVE  /\ a \div b \in Nat
         /\ b * (a \div b) <= a
         /\ a < b * (a \div b + 1)
<1> QED OBVIOUS

LEMMA Monotone ==
  ASSUME NEW b \in Nat \ {0}, NEW q \in Int, NEW d \in Int, q <= d
  PROVE  b * q <= b * d
<1> QED OBVIOUS

LEMMA Distribute ==
  ASSUME NEW b \in Int, NEW q \in Int, NEW d \in Int
  PROVE  b * (q + d) = b * q + b * d
<1> QED OBVIOUS

LEMMA DivUnique ==
  ASSUME NEW a \in Nat, NEW b \in Nat \ {0}, NEW q \in Int, b * q <= a, a < b * (q + 1)
  PROVE  a \div b = q
<1> QED BY DivBounds, Monotone

LEMMA DivShift ==
  ASSUME NEW a \in Nat, NEW b \in Nat \ {0}, NEW m \in Nat, b * m <= a
  PROVE  (a - b * m) \div b = (a \div b) - m
<1> QED BY DivBounds, DivUnique, Distribute

-----------------------------------------------------------------------------
(* Of a target that has a due time: it is the first boundary of its grid that *)
(* was not behind it at the last tick.                                       *)
OnGrid(i) ==
  /\ grid[i].base \in Nat /\ grid[i].step \in Interval
  /\ nextDue[i] = grid[i].base + grid[i].step * met[i]
  /\ met[i] > 0 => grid[i].base + grid[i].step * (met[i] - 1) <= clock

WarmerInv ==
  /\ WarmerTypeOK
  /\ grid \in [Feed -> [base : Nat, step : Nat]]
  /\ extra = {}
  /\ \A i \in Feed : Seeded(i) => OnGrid(i)

LEMMA WarmerStart == WarmerInit => WarmerInv
<1> QED BY WarmerAssumption DEF WarmerAssumption, WarmerInit, WarmerInv, WarmerTypeOK, NoGrid, Seeded

(* A boundary has come since the last tick exactly when the target is due.   *)
LEMMA DueIsOwed ==
  ASSUME WarmerInv, NEW i \in Feed, Seeded(i), NEW now \in Nat, clock < now
  PROVE  /\ Passed(i, now) \in Nat
         /\ Passed(i, now) > met[i] <=> nextDue[i] <= now
         /\ nextDue[i] > now => Passed(i, now) = met[i]
<1> DEFINE b == grid[i].base
           s == grid[i].step
           m == met[i]
<1>1. b \in Nat /\ s \in Nat \ {0} /\ m \in Nat /\ clock \in Nat
  BY WarmerAssumption DEF WarmerAssumption, WarmerInv, WarmerTypeOK, OnGrid
<1>2. nextDue[i] = b + s * m /\ (m > 0 => b + s * (m - 1) <= clock)
  BY DEF WarmerInv, OnGrid
<1>3. Passed(i, now) = IF now < b THEN 0 ELSE (now - b) \div s + 1
  BY DEF Passed
<1> HIDE DEF b, s, m
<1>4. s * m \in Nat /\ s * (m - 1) = s * m - s
  BY <1>1
<1>5. CASE now < b
  <2>1. m = 0
    BY <1>1, <1>2, <1>4, <1>5
  <2> QED BY <1>1, <1>2, <1>3, <1>5, <2>1 DEF m
<1>6. CASE b <= now
  <2> DEFINE q == (now - b) \div s
  <2>1. q \in Nat /\ s * q <= now - b /\ now - b < s * (q + 1)
    BY <1>1, <1>6, DivBounds
  <2> HIDE DEF q
  <2>2. Passed(i, now) = q + 1
    BY <1>1, <1>3, <1>6 DEF q
  <2>3. q + 1 > m <=> s * m <= now - b
    <3>1. m <= q => s * m <= s * q
      BY <1>1, <2>1, Monotone
    <3>2. q + 1 <= m => s * (q + 1) <= s * m
      BY <1>1, <2>1, Monotone
    <3> QED BY <1>1, <1>4, <2>1, <3>1, <3>2
  <2>4. s * m > now - b => q + 1 = m
    <3> SUFFICES ASSUME s * m > now - b PROVE q + 1 = m
      OBVIOUS
    <3>1. m > 0 /\ s * (m - 1) <= now - b
      BY <1>1, <1>2, <1>4, <1>6
    <3>2. q = m - 1
      <4>1. now - b < s * ((m - 1) + 1)
        BY <1>1, <1>4
      <4> QED BY <1>1, <1>6, <3>1, <4>1, DivUnique DEF q
    <3> QED BY <1>1, <3>2
  <2> QED BY <1>1, <1>2, <1>4, <1>6, <2>1, <2>2, <2>3, <2>4 DEF m
<1> QED BY <1>1, <1>5, <1>6

(* The next due time after a warm is the boundary after the ones behind it.   *)
LEMMA AdvancedOnGrid ==
  ASSUME WarmerInv, NEW i \in Feed, Seeded(i), NEW now \in Nat, nextDue[i] <= now,
         NEW interval \in Interval
  PROVE  LET q == (now - nextDue[i]) \div interval
         IN /\ q \in Nat /\ nextDue[i] \in Nat
            /\ Advanced(nextDue[i], interval, now) = nextDue[i] + interval * (q + 1)
            /\ nextDue[i] + interval * q <= now
            /\ interval = grid[i].step =>
                 Advanced(nextDue[i], interval, now) = grid[i].base + interval * Passed(i, now)
<1> DEFINE q == (now - nextDue[i]) \div interval
<1>1. nextDue[i] \in Nat /\ interval \in Nat \ {0}
  BY WarmerAssumption DEF WarmerAssumption, WarmerInv, WarmerTypeOK, Seeded
<1>2. q \in Nat /\ interval * q <= now - nextDue[i]
  BY <1>1, DivBounds
<1>3. Advanced(nextDue[i], interval, now) = nextDue[i] + interval * (q + 1)
  BY DEF Advanced
<1>4. ASSUME interval = grid[i].step
      PROVE  Advanced(nextDue[i], interval, now) = grid[i].base + interval * Passed(i, now)
  <2> DEFINE b == grid[i].base
             m == met[i]
  <2>1. b \in Nat /\ m \in Nat /\ nextDue[i] = b + interval * m
    BY <1>4 DEF WarmerInv, WarmerTypeOK, OnGrid
  <2>2. Passed(i, now) = IF now < b THEN 0 ELSE (now - b) \div interval + 1
    BY <1>4 DEF Passed
  <2> HIDE DEF b, m
  <2>3. interval * m \in Nat /\ b <= now /\ interval * m <= now - b
    BY <1>1, <2>1
  <2>4. q = ((now - b) \div interval) - m
    <3>1. now - nextDue[i] = (now - b) - interval * m
      BY <2>1, <2>3, <1>1
    <3>2. now - b \in Nat
      BY <2>1, <2>3
    <3>3. ((now - b) - interval * m) \div interval = ((now - b) \div interval) - m
      BY <1>1, <2>1, <2>3, <3>2, DivShift
    <3> QED BY <3>1, <3>3
  <2> DEFINE p == (now - b) \div interval
  <2>5. p \in Nat
    BY <1>1, <2>1, <2>3, DivBounds
  <2> HIDE DEF p
  <2>6. interval * (q + 1) = interval * (p + 1) - interval * m
    <3>1. q + 1 = (p + 1) + (-m)
      BY <2>1, <2>4, <2>5 DEF p
    <3>2. interval * ((p + 1) + (-m)) = interval * (p + 1) + interval * (-m)
      BY <1>1, <2>1, <2>5, Distribute
    <3>3. interval * (-m) = -(interval * m)
      BY <1>1, <2>1
    <3> QED BY <1>1, <2>1, <2>3, <2>5, <3>1, <3>2, <3>3
  <2>7. Passed(i, now) = p + 1
    BY <1>1, <2>1, <2>2, <2>3 DEF p
  <2>8. b + interval * (p + 1) = nextDue[i] + interval * (q + 1)
    <3> HIDE DEF q
    <3>1. interval * (p + 1) \in Int
      BY <1>1, <2>5
    <3> QED BY <1>1, <1>2, <2>1, <2>3, <2>6, <3>1
  <2> HIDE DEF q
  <2> QED BY <1>3, <2>7, <2>8 DEF b, q
<1> QED BY <1>1, <1>2, <1>3, <1>4

LEMMA TickStep == ASSUME WarmerInv, Tick PROVE WarmerInv'
<1> USE WarmerAssumption DEF WarmerAssumption
<1>1. PICK now \in clock + 1 .. LastTick, unread \in SUBSET {i \in Feed : optIn[i] # 0} :
        LET targets == {i \in Feed : optIn[i] # 0} \ unread
        IN /\ changes + Cardinality(unread) <= MaxChange
           /\ changes' = changes + Cardinality(unread)
           /\ clock' = now
           /\ queue' = Due(targets, now)
           /\ nextDue' = Scheduled(targets, now)
           /\ Account(targets, now)
  BY DEF Tick
<1> DEFINE targets == {i \in Feed : optIn[i] # 0} \ unread
           owed == {i \in targets : Seeded(i) /\ Passed(i, now) > met[i]}
<1>2. /\ clock \in Nat /\ now \in Nat /\ clock < now /\ optIn' = optIn
      /\ optIn \in [Feed -> {0} \cup Interval]
      /\ nextDue \in [Feed -> Nat \cup {Unseeded}] /\ met \in [Feed -> Nat]
      /\ grid \in [Feed -> [base : Nat, step : Nat]] /\ extra = {}
      /\ changes \in Nat
  BY DEF WarmerInv, WarmerTypeOK, Tick
<1>3. owed = Due(targets, now)
  BY <1>2, DueIsOwed DEF Due
<1>4. /\ extra' = {}
      /\ grid' = [i \in Feed |->
           IF i \notin targets THEN NoGrid
           ELSE IF ~Seeded(i) THEN [base |-> now + warmPhase(i, optIn[i]), step |-> optIn[i]]
           ELSE IF i \in owed /\ grid[i].step # optIn[i]
                THEN [base |-> grid[i].base + grid[i].step * met[i], step |-> optIn[i]]
           ELSE grid[i]]
      /\ met' = [i \in Feed |->
           IF i \notin targets \/ ~Seeded(i) THEN 0
           ELSE IF i \in owed /\ grid[i].step # optIn[i]
                THEN (now - (grid[i].base + grid[i].step * met[i])) \div optIn[i] + 1
           ELSE Passed(i, now)]
      /\ nextDue' = [i \in Feed |->
           IF i \notin targets THEN Unseeded
           ELSE IF ~Seeded(i) THEN now + warmPhase(i, optIn[i])
           ELSE IF i \in owed THEN Advanced(nextDue[i], optIn[i], now)
           ELSE nextDue[i]]
  BY <1>1, <1>2, <1>3 DEF Account, Scheduled
<1>5. ASSUME NEW i \in Feed
      PROVE  /\ nextDue'[i] \in Nat \cup {Unseeded} /\ met'[i] \in Nat
             /\ grid'[i] \in [base : Nat, step : Nat]
             /\ Seeded(i)' => OnGrid(i)'
  <2>1. CASE i \notin targets
    BY <1>4, <2>1 DEF Seeded, NoGrid
  <2> SUFFICES ASSUME i \in targets PROVE <1>5!2
    BY <2>1
  <2>2. optIn[i] \in Interval /\ optIn[i] \in Nat \ {0} /\ i \in Nat
    BY <1>2
  <2>3. CASE ~Seeded(i)
    <3>1. warmPhase(i, optIn[i]) \in Nat
      BY <2>2 DEF warmPhase
    <3>2. /\ nextDue'[i] = now + warmPhase(i, optIn[i]) /\ met'[i] = 0
          /\ grid'[i] = [base |-> now + warmPhase(i, optIn[i]), step |-> optIn[i]]
      BY <1>4, <2>3
    <3> QED BY <1>2, <2>2, <3>1, <3>2 DEF OnGrid
  <2>4. CASE Seeded(i) /\ i \notin owed
    <3>1. nextDue[i] > now /\ Passed(i, now) = met[i]
      BY <1>2, <1>3, <2>4, DueIsOwed DEF WarmerInv, Seeded, Due
    <3>2. nextDue'[i] = nextDue[i] /\ met'[i] = met[i] /\ grid'[i] = grid[i]
      BY <1>4, <2>4, <3>1
    <3>3. OnGrid(i)
      BY <2>4 DEF WarmerInv
    <3>4. grid[i].step * (met[i] - 1) \in Int
      BY <1>2, <3>3 DEF OnGrid
    <3>5. met[i] > 0 => grid[i].base + grid[i].step * (met[i] - 1) <= clock'
      BY <1>1, <1>2, <3>3, <3>4 DEF OnGrid
    <3> QED BY <1>2, <3>2, <3>3, <3>5 DEF OnGrid
  <2>5. CASE Seeded(i) /\ i \in owed
    <3> DEFINE q == (now - nextDue[i]) \div optIn[i]
    <3>1. nextDue[i] <= now /\ nextDue[i] \in Nat
      BY <1>2, <1>3, <2>5 DEF Due, Seeded
    <3>2. /\ q \in Nat
          /\ Advanced(nextDue[i], optIn[i], now) = nextDue[i] + optIn[i] * (q + 1)
          /\ nextDue[i] + optIn[i] * q <= now
          /\ optIn[i] = grid[i].step =>
               Advanced(nextDue[i], optIn[i], now) = grid[i].base + optIn[i] * Passed(i, now)
      BY <1>2, <2>2, <2>5, <3>1, AdvancedOnGrid
    <3>3. nextDue[i] = grid[i].base + grid[i].step * met[i] /\ grid[i].base \in Nat
      BY <2>5 DEF WarmerInv, OnGrid
    <3>4. nextDue'[i] = Advanced(nextDue[i], optIn[i], now)
      BY <1>4, <2>5
    <3>5. CASE grid[i].step # optIn[i]
      <4>1. /\ grid'[i] = [base |-> nextDue[i], step |-> optIn[i]]
            /\ met'[i] = q + 1
        BY <1>4, <2>5, <3>3, <3>5
      <4> HIDE DEF q
      <4>2. (q + 1) - 1 = q /\ nextDue[i] + optIn[i] * (q + 1) \in Nat
        BY <2>2, <3>1, <3>2
      <4> QED BY <1>1, <2>2, <3>1, <3>2, <3>4, <4>1, <4>2 DEF OnGrid
    <3>6. CASE grid[i].step = optIn[i]
      <4>1. grid'[i] = grid[i] /\ met'[i] = Passed(i, now)
        BY <1>4, <2>5, <3>6
      <4>2. Passed(i, now) \in Nat
        BY <1>2, <2>5, DueIsOwed
      <4> DEFINE p == Passed(i, now)
                 s == optIn[i]
      <4>3. s * (p - 1) = s * p - s /\ s * (q + 1) = s * q + s /\ s * p \in Nat /\ s * q \in Nat
        BY <2>2, <3>2, <4>2
      <4>4. grid[i].base + s * (p - 1) <= now
        <5> HIDE DEF q, p, s
        <5>1. grid[i].base + s * p = nextDue[i] + s * (q + 1) /\ s \in Nat
          BY <2>2, <3>2, <3>6 DEF p, s
        <5>2. nextDue[i] + s * q <= now
          BY <3>2 DEF s
        <5> QED BY <1>2, <3>1, <3>2, <3>3, <4>2, <4>3, <5>1, <5>2
      <4>5. nextDue'[i] = grid[i].base + s * p
        BY <3>2, <3>4, <3>6
      <4> QED BY <1>1, <2>2, <3>3, <3>6, <4>1, <4>2, <4>3, <4>4, <4>5, <1>2 DEF OnGrid
    <3> QED BY <3>5, <3>6
  <2> QED BY <2>3, <2>4, <2>5
<1>6. changes' \in 0 .. MaxChange
  <2>1. Cardinality(unread) \in Nat
    BY FS_Subset, FS_CardinalityType
  <2> QED BY <1>1, <1>2, <2>1
<1>7. clock' \in 0 .. LastTick /\ queue' \subseteq Feed /\ extra' \subseteq Feed
  BY <1>1, <1>2, <1>4 DEF Due
<1>8. /\ nextDue' \in [Feed -> Nat \cup {Unseeded}] /\ met' \in [Feed -> Nat]
      /\ grid' \in [Feed -> [base : Nat, step : Nat]]
  BY <1>4, <1>5
<1> QED BY <1>2, <1>4, <1>5, <1>6, <1>7, <1>8 DEF WarmerInv, WarmerTypeOK

LEMMA WarmerStep == WarmerInv /\ [WarmerNext]_warmerVars => WarmerInv'
<1> SUFFICES ASSUME WarmerInv, [WarmerNext]_warmerVars PROVE WarmerInv'
  OBVIOUS
<1> USE WarmerAssumption DEF WarmerAssumption, WarmerInv, WarmerTypeOK
<1>1. CASE WarmOne \/ UNCHANGED warmerVars
  BY <1>1 DEF WarmOne, warmerVars, Seeded, OnGrid
<1>2. CASE EditWarmInterval
  <2>1. optIn' \in [Feed -> {0} \cup Interval] /\ changes' \in 0 .. MaxChange
    BY <1>2 DEF EditWarmInterval
  <2> QED BY <1>2, <2>1 DEF EditWarmInterval, Seeded, OnGrid
<1>3. CASE WarmerRestart
  <2>1. changes' \in 0 .. MaxChange /\ NoGrid \in [base : Nat, step : Nat]
    BY <1>3 DEF WarmerRestart, NoGrid
  <2> QED BY <1>3, <2>1 DEF WarmerRestart, Seeded
<1> QED BY <1>1, <1>2, <1>3, TickStep DEF WarmerNext

LEMMA WarmerInvariant == WarmerSpec => []WarmerInv
<1> QED BY WarmerStart, WarmerStep, PTL DEF WarmerSpec

-----------------------------------------------------------------------------
(* The types of the warmer's schedule (registry/warmer.go). *)
THEOREM WarmerTypeCorrect == WarmerSpec => []WarmerTypeOK
<1>1. WarmerInv => WarmerTypeOK
  BY DEF WarmerInv
<1> QED BY <1>1, WarmerInvariant, PTL

(* For any indexers, intervals, edits, failing reads and suspensions of any  *)
(* length, a target is warmed at a tick exactly when one of its boundaries   *)
(* has come, and its phase never drifts (Warmer.TickOnce).       *)
THEOREM EachBoundaryWarmed == WarmerSpec => []WarmedPerBoundary
<1>1. WarmerInv => WarmedPerBoundary
  BY DEF WarmerInv, OnGrid, WarmedPerBoundary
<1> QED BY <1>1, WarmerInvariant, PTL

---------------------------------------------------------------------------
(***************************************************************************)
(* Pacing, for any number of requests to a host, any spacing and any        *)
(* answers: its limiter ends with the strictest interval, no two calls are  *)
(* closer than it, no retry comes early, and no request pauses beyond its   *)
(* budget.                                                                  *)
(***************************************************************************)

LEMMA MaxOfTwo ==
  ASSUME NEW a \in Int, NEW b \in Int
  PROVE  Max({a, b}) = IF a >= b THEN a ELSE b
<1> QED BY DEF Max

LEMMA MinOfTwo ==
  ASSUME NEW a \in Int, NEW b \in Int
  PROVE  Min({a, b}) = IF a <= b THEN a ELSE b
<1> QED BY DEF Min

(* The limiter a request has been through is as strict as it asked for. *)
StrictOk(d) ==
  /\ pace[d].pc # "lookup" => limiter > 0
  /\ pace[d].pc \notin {"lookup", "tighten"} => limiter >= pace[d].want

(* What a request has paused for and what is left of its budget; a pause     *)
(* that has begun fits into it, and time does not pass its end.              *)
BudgetOk(d) ==
  /\ pace[d].paused <= PaceBudget
  /\ pace[d].pc # "over" => pace[d].paused + pace[d].remaining <= PaceBudget
  /\ pace[d].pc \in {"wait", "sleep"} =>
       /\ pace[d].since <= instant /\ instant <= pace[d].wake
       /\ pace[d].wake - pace[d].since <= pace[d].remaining
  /\ pace[d].pc = "sleep" => pace[d].attempt + 1 < maxRetryAttempts

(* A retry does not ask for a token before its Retry-After is over. *)
RetryOk(d) ==
  /\ pace[d].pc \in {"lookup", "tighten", "issue", "wait", "live"} => pace[d].notBefore <= instant
  /\ pace[d].pc = "sleep" /\ ~pace[d].capped => pace[d].notBefore <= pace[d].wake

(* A token granted lies between the last call's interval and the next token. *)
TokenOk(d) ==
  pace[d].pc = "wait" =>
    /\ pace[d].limit > 0
    /\ notUntil <= pace[d].wake
    /\ pace[d].wake + pace[d].limit <= free

(* Two tokens granted are an interval apart. *)
Apart(d, e) ==
  pace[d].pc = "wait" /\ pace[e].pc = "wait" /\ d # e =>
    \/ pace[d].wake + pace[d].limit <= pace[e].wake
    \/ pace[e].wake + pace[e].limit <= pace[d].wake

PacingInv ==
  /\ PacingTypeOK /\ hurried = {}
  /\ notUntil <= free
  /\ \A d \in Doer : StrictOk(d) /\ BudgetOk(d) /\ RetryOk(d) /\ TokenOk(d)
  /\ \A d, e \in Doer : Apart(d, e)

-----------------------------------------------------------------------------
LEMMA NewRequestTyped ==
  ASSUME NEW want \in Spacing, NEW paused \in Nat
  PROVE  /\ NewRequest(want) \in PaceState
         /\ [NewRequest(want) EXCEPT !.pc = "over", !.paused = paused] \in PaceState
         /\ [NewRequest(want) EXCEPT !.pc = "over", !.paused = paused].want = want
<1>1. NewRequest(want) \in PaceState
  BY PacingAssumption DEF PacingAssumption, NewRequest, PaceState, maxRetryAttempts
<1>2. [NewRequest(want) EXCEPT !.pc = "over", !.paused = paused] \in PaceState
  BY <1>1 DEF PaceState
<1>3. NewRequest(want).want = want
  BY DEF NewRequest
<1>4. [NewRequest(want) EXCEPT !.pc = "over", !.paused = paused].want = want
  BY <1>1, <1>3 DEF PaceState
<1> QED BY <1>1, <1>2, <1>4

LEMMA PacingStart == PacingInit => PacingInv
<1> SUFFICES ASSUME PacingInit PROVE PacingInv
  OBVIOUS
<1> USE PacingAssumption DEF PacingAssumption, PacingInit
<1>1. pace \in [Doer -> PaceState]
  <2>1. \A want \in Spacing : NewRequest(want) \in PaceState
    BY NewRequestTyped
  <2> QED BY <2>1
<1>2. \A d \in Doer : \E want \in Spacing : pace[d] = NewRequest(want)
  OBVIOUS
<1>3. \A d \in Doer : StrictOk(d) /\ BudgetOk(d) /\ RetryOk(d) /\ TokenOk(d)
  BY <1>2 DEF NewRequest, StrictOk, BudgetOk, RetryOk, TokenOk
<1>4. \A d, e \in Doer : Apart(d, e)
  BY <1>2 DEF NewRequest, Apart
<1> QED BY <1>1, <1>3, <1>4 DEF PacingInv, PacingTypeOK

(* A step that leaves the tokens alone and moves one request out of no wait.  *)
LEMMA OthersStay ==
  ASSUME PacingInv, NEW d \in Doer,
         UNCHANGED <<instant, free, notUntil>>, limiter' \in Nat, limiter' >= limiter,
         \A e \in Doer \ {d} : pace'[e] = pace[e],
         pace'[d].pc # "wait"
  PROVE  /\ \A e \in Doer \ {d} : StrictOk(e)' /\ BudgetOk(e)' /\ RetryOk(e)' /\ TokenOk(e)'
         /\ TokenOk(d)'
         /\ \A e, f \in Doer : Apart(e, f)'
<1> USE PacingAssumption DEF PacingAssumption, PacingInv, PacingTypeOK
<1>1. ASSUME NEW e \in Doer \ {d} PROVE StrictOk(e)'
  <2>1. limiter \in Nat /\ pace[e].want \in Nat
    BY DEF PaceState
  <2>2. StrictOk(e) /\ pace'[e] = pace[e]
    OBVIOUS
  <2> QED BY <2>1, <2>2 DEF StrictOk
<1>2. \A e \in Doer \ {d} : BudgetOk(e)' /\ RetryOk(e)' /\ TokenOk(e)'
  BY DEF BudgetOk, RetryOk, TokenOk
<1>3. TokenOk(d)' /\ \A e, f \in Doer : Apart(e, f)'
  BY DEF TokenOk, Apart
<1> QED BY <1>1, <1>2, <1>3

LEMMA LimiterForStep == ASSUME PacingInv, NEW d \in Doer, LimiterFor(d) PROVE PacingInv'
<1> USE PacingAssumption DEF PacingAssumption
<1>1. /\ pace'[d] = [pace[d] EXCEPT !.pc = IF pace[d].want > limiter' THEN "tighten" ELSE "issue"]
      /\ \A e \in Doer \ {d} : pace'[e] = pace[e]
      /\ limiter' \in Spacing /\ limiter' >= limiter /\ limiter' \in Nat
  BY DEF LimiterFor, PaceAt, PacingInv, PacingTypeOK, PaceState
<1>2. pace' \in [Doer -> PaceState]
  BY DEF LimiterFor, PacingInv, PacingTypeOK, PaceState
<1>3. StrictOk(d)' /\ BudgetOk(d)' /\ RetryOk(d)'
  BY <1>1 DEF LimiterFor, PaceAt, PacingInv, PacingTypeOK, PaceState, StrictOk, BudgetOk, RetryOk
<1>4. pace'[d].pc # "wait"
  BY <1>1 DEF PacingInv, PacingTypeOK, PaceState
<1> QED BY <1>1, <1>2, <1>3, <1>4, OthersStay DEF LimiterFor, PacingInv, PacingTypeOK

(* A limit that is raised stretches what is missing of the next token. *)
LEMMA Stretched ==
  ASSUME NEW x \in Nat, NEW old \in Nat \ {0}, NEW new \in Nat, new > old
  PROVE  (x * new) \div old \in Nat /\ x <= (x * new) \div old
<1>1. x * new \in Nat /\ x * old <= x * new
  OBVIOUS
<1>2. (x * new) \div old \in Nat
  BY <1>1
<1>3. x * new < old * ((x * new) \div old + 1)
  BY <1>1
<1>4. ASSUME (x * new) \div old < x PROVE FALSE
  <2>1. old * ((x * new) \div old + 1) <= old * x
    BY <1>2, <1>4
  <2>2. old * x = x * old
    OBVIOUS
  <2> QED BY <1>1, <1>2, <1>3, <2>1, <2>2
<1> QED BY <1>2, <1>4

LEMMA TightenStep == ASSUME PacingInv, NEW d \in Doer, Tighten(d) PROVE PacingInv'
<1> USE PacingAssumption DEF PacingAssumption
<1>1. /\ pace'[d] = [pace[d] EXCEPT !.pc = "issue"]
      /\ \A e \in Doer \ {d} : pace'[e] = pace[e]
      /\ pace' \in [Doer -> PaceState]
      /\ pace[d] \in PaceState /\ pace[d].want \in Spacing /\ pace[d].want \in Nat
      /\ pace[d].pc = "tighten"
  BY DEF Tighten, PaceAt, PacingInv, PacingTypeOK, PaceState
<1>2. limiter \in Nat \ {0} /\ limiter \in Spacing /\ instant \in Nat /\ free \in Nat
  BY <1>1 DEF PacingInv, PacingTypeOK, StrictOk
<1>3. /\ limiter' \in Spacing /\ limiter' \in Nat /\ limiter' >= limiter
      /\ limiter' >= pace[d].want
  BY <1>1, <1>2 DEF Tighten, StillStricter
<1>4. free' \in Nat /\ free <= free'
  <2>1. CASE ~StillStricter(pace[d].want) \/ free <= instant
    BY <1>2, <2>1 DEF Tighten
  <2>2. CASE StillStricter(pace[d].want) /\ ~(free <= instant)
    <3>1. free' = instant + ((free - instant) * pace[d].want) \div limiter
      BY <2>2 DEF Tighten
    <3>2. free - instant \in Nat /\ pace[d].want > limiter
      BY <1>1, <1>2, <2>2 DEF StillStricter
    <3> QED BY <1>1, <1>2, <3>1, <3>2, Stretched
  <2> QED BY <2>1, <2>2
<1>5. StrictOk(d)' /\ BudgetOk(d)' /\ RetryOk(d)' /\ TokenOk(d)'
  BY <1>1, <1>2, <1>3 DEF Tighten, PacingInv, PaceState, StrictOk, BudgetOk, RetryOk, TokenOk
<1>6. ASSUME NEW e \in Doer \ {d} PROVE StrictOk(e)' /\ BudgetOk(e)' /\ RetryOk(e)' /\ TokenOk(e)'
  <2>1. /\ pace'[e] = pace[e] /\ pace[e] \in PaceState
        /\ StrictOk(e) /\ BudgetOk(e) /\ RetryOk(e) /\ TokenOk(e)
    BY <1>1 DEF PacingInv, PacingTypeOK
  <2>2. pace[e].want \in Nat /\ pace[e].wake \in Nat /\ pace[e].limit \in Nat
    BY <2>1 DEF PaceState
  <2> QED BY <1>2, <1>3, <1>4, <2>1, <2>2 DEF Tighten, StrictOk, BudgetOk, RetryOk, TokenOk
<1>7. \A e, f \in Doer : Apart(e, f)'
  <2>1. pace'[d].pc # "wait"
    BY <1>1 DEF PaceState
  <2> QED BY <1>1, <2>1 DEF PacingInv, Apart
<1>8. PacingTypeOK' /\ (hurried = {})' /\ (notUntil <= free)'
  BY <1>1, <1>2, <1>3, <1>4 DEF Tighten, PacingInv, PacingTypeOK
<1> QED BY <1>5, <1>6, <1>7, <1>8 DEF PacingInv

(* A request that ends counts no more. *)
LEMMA EndsOk ==
  ASSUME PacingInv, NEW d \in Doer, Ends(d), pace[d].pc \notin {"lookup", "tighten"}
  PROVE  /\ pace' \in [Doer -> PaceState]
         /\ pace'[d].pc = "over" /\ pace'[d].want = pace[d].want
         /\ pace'[d].paused = pace[d].paused
         /\ \A e \in Doer \ {d} : pace'[e] = pace[e]
<1>1. pace \in [Doer -> PaceState] /\ pace[d].want \in Spacing /\ pace[d].paused \in Nat
  BY DEF PacingInv, PacingTypeOK, PaceState
<1>2. Over(d) \in PaceState /\ Over(d).want = pace[d].want
  BY <1>1, NewRequestTyped DEF Over
<1>3. Over(d).pc = "over" /\ Over(d).paused = pace[d].paused
  BY DEF Over, NewRequest
<1> QED BY <1>1, <1>2, <1>3 DEF Ends

LEMMA AwaitTokenStep == ASSUME PacingInv, NEW d \in Doer, AwaitToken(d) PROVE PacingInv'
<1> USE PacingAssumption DEF PacingAssumption
<1>1. CASE ~Patient(d)
  <2>1. Ends(d) /\ UNCHANGED <<instant, limiter, free, notUntil, hurried>> /\ pace[d].pc = "issue"
    BY <1>1 DEF AwaitToken, PaceAt
  <2>2. /\ pace' \in [Doer -> PaceState]
        /\ pace'[d].pc = "over" /\ pace'[d].want = pace[d].want
        /\ pace'[d].paused = pace[d].paused
        /\ \A e \in Doer \ {d} : pace'[e] = pace[e]
    BY <2>1, EndsOk
  <2>3. StrictOk(d)' /\ BudgetOk(d)' /\ RetryOk(d)'
    BY <2>1, <2>2 DEF PacingInv, StrictOk, BudgetOk, RetryOk
  <2>4. limiter \in Nat
    BY DEF PacingInv, PacingTypeOK
  <2> QED BY <2>1, <2>2, <2>3, <2>4, OthersStay DEF PacingInv, PacingTypeOK
<1>2. CASE Patient(d)
  <2>1. /\ instant \in Nat /\ free \in Nat /\ notUntil \in Nat /\ notUntil <= free
        /\ pace \in [Doer -> PaceState] /\ pace[d].pc = "issue" /\ hurried = {}
        /\ pace[d].remaining \in Nat
    BY DEF AwaitToken, PaceAt, PacingInv, PacingTypeOK, PaceState
  <2>2. limiter \in Nat \ {0} /\ limiter \in Spacing
    BY <2>1 DEF PacingInv, PacingTypeOK, StrictOk
  <2>3. Granted = IF instant >= free THEN instant ELSE free
    BY <2>1, MaxOfTwo DEF Granted
  <2>4. Granted \in Nat /\ Granted >= instant /\ Granted >= free
    BY <2>1, <2>3
  <2>5. /\ free' = Granted + limiter
        /\ pace' = [pace EXCEPT ![d].pc = "wait", ![d].since = instant,
                                ![d].wake = Granted, ![d].limit = limiter]
        /\ UNCHANGED <<instant, limiter, notUntil, hurried>>
        /\ Granted - instant <= pace[d].remaining
    BY <1>2 DEF AwaitToken, Patient
  <2> DEFINE new == [pace[d] EXCEPT !.pc = "wait", !.since = instant,
                                    !.wake = Granted, !.limit = limiter]
  <2>6. /\ new \in PaceState
        /\ new.pc = "wait" /\ new.since = instant /\ new.wake = Granted /\ new.limit = limiter
        /\ new.want = pace[d].want /\ new.paused = pace[d].paused
        /\ new.remaining = pace[d].remaining /\ new.notBefore = pace[d].notBefore
    <3>1. pace[d] \in PaceState /\ limiter \in Nat
      BY <2>1, <2>2
    <3> QED BY <2>1, <2>4, <3>1 DEF PaceState
  <2>7. pace' = [pace EXCEPT ![d] = new]
    BY <2>1, <2>5
  <2> HIDE DEF new
  <2>8. /\ pace' \in [Doer -> PaceState] /\ pace'[d] = new
        /\ \A e \in Doer \ {d} : pace'[e] = pace[e]
    BY <2>1, <2>6, <2>7
  <2>9. /\ pace'[d].pc = "wait" /\ pace'[d].since = instant /\ pace'[d].wake = Granted
        /\ pace'[d].limit = limiter /\ pace'[d].want = pace[d].want
        /\ pace'[d].paused = pace[d].paused /\ pace'[d].remaining = pace[d].remaining
        /\ pace'[d].notBefore = pace[d].notBefore
    BY <2>6, <2>8
  <2>10. StrictOk(d)' /\ BudgetOk(d)' /\ RetryOk(d)' /\ TokenOk(d)'
    BY <2>1, <2>2, <2>4, <2>5, <2>9 DEF PacingInv, StrictOk, BudgetOk, RetryOk, TokenOk
  <2>11. ASSUME NEW e \in Doer \ {d}
        PROVE  /\ StrictOk(e)' /\ BudgetOk(e)' /\ RetryOk(e)' /\ TokenOk(e)'
               /\ Apart(d, e)' /\ Apart(e, d)'
    <3>1. /\ pace'[e] = pace[e] /\ pace[e] \in PaceState
          /\ StrictOk(e) /\ BudgetOk(e) /\ RetryOk(e) /\ TokenOk(e)
      BY <2>1, <2>8 DEF PacingInv
    <3>2. pace[e].wake \in Nat /\ pace[e].limit \in Nat
      BY <3>1 DEF PaceState
    <3> QED BY <2>1, <2>2, <2>4, <2>5, <2>9, <3>1, <3>2
            DEF StrictOk, BudgetOk, RetryOk, TokenOk, Apart
  <2>12. \A e, f \in Doer : Apart(e, f)'
    <3>1. \A e, f \in Doer \ {d} : Apart(e, f)'
      BY <2>8 DEF PacingInv, Apart
    <3> QED BY <2>11, <3>1 DEF Apart
  <2> QED BY <2>1, <2>2, <2>4, <2>5, <2>8, <2>10, <2>11, <2>12 DEF PacingInv, PacingTypeOK
<1> QED BY <1>1, <1>2

(* A call is sent when its token is there: not earlier, as the wait is over, *)
(* and not later, as time does not pass it.                                  *)
LEMMA IssueLiveStep == ASSUME PacingInv, NEW d \in Doer, IssueLive(d) PROVE PacingInv'
<1> USE PacingAssumption DEF PacingAssumption
<1>1. /\ instant \in Nat /\ free \in Nat /\ notUntil \in Nat /\ limiter \in Nat
      /\ pace \in [Doer -> PaceState] /\ pace[d] \in PaceState /\ hurried = {}
      /\ pace[d].pc = "wait" /\ pace[d].wake <= instant
      /\ StrictOk(d) /\ BudgetOk(d) /\ RetryOk(d) /\ TokenOk(d)
  BY DEF IssueLive, PaceAt, PacingInv, PacingTypeOK
<1>2. /\ pace[d].wake \in Nat /\ pace[d].since \in Nat /\ pace[d].remaining \in 0 .. PaceBudget
      /\ pace[d].paused \in Nat /\ pace[d].limit \in Nat
  BY <1>1 DEF PaceState
<1>3. /\ pace[d].wake = instant /\ Elapsed(d) \in Nat /\ Left(d) \in 0 .. PaceBudget
      /\ pace[d].paused + Elapsed(d) + Left(d) <= PaceBudget
  BY <1>1, <1>2 DEF BudgetOk, Elapsed, Left
<1>4. pace' = [pace EXCEPT ![d] = [pace[d] EXCEPT !.pc = "live", !.remaining = Left(d),
                          !.since = 0, !.wake = 0, !.notBefore = 0,
                          !.paused = pace[d].paused + Elapsed(d)]]
  BY <1>1 DEF IssueLive
<1> DEFINE new == [pace[d] EXCEPT !.pc = "live", !.remaining = Left(d),
                          !.since = 0, !.wake = 0, !.notBefore = 0,
                          !.paused = pace[d].paused + Elapsed(d)]
<1>5. /\ new \in PaceState /\ new.pc = "live" /\ new.remaining = Left(d) /\ new.notBefore = 0
      /\ new.paused = pace[d].paused + Elapsed(d) /\ new.want = pace[d].want
  <2>1. pace[d].paused + Elapsed(d) \in Nat
    BY <1>2, <1>3
  <2> QED BY <1>1, <1>3, <2>1 DEF PaceState
<1> HIDE DEF new
<1>6. pace' \in [Doer -> PaceState] /\ pace'[d] = new /\ \A e \in Doer \ {d} : pace'[e] = pace[e]
  BY <1>1, <1>4, <1>5 DEF new
<1>7. hurried' = {} /\ notUntil' = instant + pace[d].limit
      /\ UNCHANGED <<instant, limiter, free>>
  <2>1. notUntil <= instant
    BY <1>1, <1>3 DEF TokenOk
  <2>2. pace[d].notBefore <= instant /\ pace[d].notBefore \in Nat
    BY <1>1 DEF RetryOk, PaceState
  <2>3. ~(instant < notUntil \/ instant < pace[d].notBefore)
    BY <1>1, <2>1, <2>2
  <2> QED BY <1>1, <2>3 DEF IssueLive
<1>8. StrictOk(d)' /\ BudgetOk(d)' /\ RetryOk(d)' /\ TokenOk(d)'
  BY <1>1, <1>2, <1>3, <1>5, <1>6, <1>7 DEF StrictOk, BudgetOk, RetryOk, TokenOk
<1>9. ASSUME NEW e \in Doer \ {d} PROVE StrictOk(e)' /\ BudgetOk(e)' /\ RetryOk(e)' /\ TokenOk(e)'
  <2>1. /\ pace'[e] = pace[e] /\ pace[e] \in PaceState /\ Apart(d, e)
        /\ StrictOk(e) /\ BudgetOk(e) /\ RetryOk(e) /\ TokenOk(e)
    BY <1>1, <1>6 DEF PacingInv
  <2>2. pace[e].wake \in Nat /\ pace[e].limit \in Nat
    BY <2>1 DEF PaceState
  <2>3. TokenOk(e)'
    BY <1>1, <1>2, <1>3, <1>7, <2>1, <2>2 DEF Apart, TokenOk, BudgetOk
  <2> QED BY <1>7, <2>1, <2>3 DEF StrictOk, BudgetOk, RetryOk
<1>10. \A e, f \in Doer : Apart(e, f)'
  BY <1>5, <1>6 DEF PacingInv, Apart
<1>11. notUntil' <= free'
  BY <1>1, <1>2, <1>3, <1>7 DEF TokenOk
<1> QED BY <1>1, <1>2, <1>6, <1>7, <1>8, <1>9, <1>10, <1>11 DEF PacingInv, PacingTypeOK

LEMMA AnswerFinalStep == ASSUME PacingInv, NEW d \in Doer, AnswerFinal(d) PROVE PacingInv'
<1>1. Ends(d) /\ UNCHANGED <<instant, limiter, free, notUntil, hurried>> /\ pace[d].pc = "live"
  BY DEF AnswerFinal, PaceAt
<1>2. /\ pace' \in [Doer -> PaceState]
      /\ pace'[d].pc = "over" /\ pace'[d].want = pace[d].want
      /\ pace'[d].paused = pace[d].paused
      /\ \A e \in Doer \ {d} : pace'[e] = pace[e]
  BY <1>1, EndsOk
<1>3. StrictOk(d)' /\ BudgetOk(d)' /\ RetryOk(d)'
  BY <1>1, <1>2 DEF PacingInv, StrictOk, BudgetOk, RetryOk
<1>4. limiter \in Nat
  BY PacingAssumption DEF PacingAssumption, PacingInv, PacingTypeOK
<1> QED BY <1>1, <1>2, <1>3, <1>4, OthersStay DEF PacingInv, PacingTypeOK

(* A sleep fits into what is left, and is capped only when it ends the        *)
(* request.                                                                  *)
LEMMA AnswerLimitedStep == ASSUME PacingInv, NEW d \in Doer, AnswerLimited(d) PROVE PacingInv'
<1> USE PacingAssumption DEF PacingAssumption
<1>1. /\ instant \in Nat /\ limiter \in Nat /\ hurried = {}
      /\ pace \in [Doer -> PaceState] /\ pace[d] \in PaceState
      /\ pace[d].pc = "live"
      /\ StrictOk(d) /\ BudgetOk(d) /\ RetryOk(d)
      /\ UNCHANGED <<instant, limiter, free, notUntil, hurried>>
  <2>1. pace[d].pc = "live" /\ UNCHANGED <<instant, limiter, free, notUntil, hurried>>
    BY DEF AnswerLimited, PaceAt
  <2> QED BY <2>1 DEF PacingInv, PacingTypeOK
<1>2. /\ pace[d].remaining \in 0 .. PaceBudget /\ pace[d].remaining \in Nat /\ pace[d].paused \in Nat
      /\ pace[d].attempt \in 0 .. maxRetryAttempts - 1
  BY <1>1 DEF PaceState
<1>3. CASE Ends(d)
  <2>1. /\ pace' \in [Doer -> PaceState]
        /\ pace'[d].pc = "over" /\ pace'[d].want = pace[d].want
        /\ pace'[d].paused = pace[d].paused
        /\ \A e \in Doer \ {d} : pace'[e] = pace[e]
    BY <1>1, <1>3, EndsOk
  <2>2. StrictOk(d)' /\ BudgetOk(d)' /\ RetryOk(d)'
    BY <1>1, <2>1 DEF StrictOk, BudgetOk, RetryOk
  <2> QED BY <1>1, <2>1, <2>2, OthersStay DEF PacingInv, PacingTypeOK
<1>4. CASE ~Ends(d)
  <2> DEFINE left == pace[d].remaining
             delay(after) == IF after > 0 THEN after ELSE Backoff
             nap(after) == Min({delay(after), left})
  <2>1. PICK after \in Retry :
          /\ pace[d].attempt + 1 < maxRetryAttempts
          /\ \E capped \in BOOLEAN :
                /\ ~capped => delay(after) <= left
                /\ pace' = [pace EXCEPT ![d].pc = "sleep", ![d].since = instant,
                                        ![d].wake = instant + nap(after),
                                        ![d].capped = capped,
                                        ![d].notBefore = instant + after]
    <3>1. PICK after \in Retry :
            IF pace[d].attempt + 1 >= maxRetryAttempts \/ left <= 0
              THEN Ends(d)
              ELSE \E capped \in BOOLEAN :
                /\ capped => delay(after) >= left
                /\ ~capped => delay(after) <= left
                /\ pace' = [pace EXCEPT ![d].pc = "sleep", ![d].since = instant,
                                        ![d].wake = instant + nap(after),
                                        ![d].capped = capped,
                                        ![d].notBefore = instant + after]
      BY DEF AnswerLimited
    <3>2. ~(pace[d].attempt + 1 >= maxRetryAttempts)
      BY <1>4, <3>1
    <3>3. pace[d].attempt + 1 < maxRetryAttempts
      BY <1>2, <3>2 DEF maxRetryAttempts
    <3> QED BY <1>4, <3>1, <3>3
  <2>2. PICK capped \in BOOLEAN :
          /\ ~capped => delay(after) <= left
          /\ pace' = [pace EXCEPT ![d].pc = "sleep", ![d].since = instant,
                                  ![d].wake = instant + nap(after),
                                  ![d].capped = capped,
                                  ![d].notBefore = instant + after]
    BY <2>1
  <2>3. /\ delay(after) \in Nat /\ left \in Nat /\ after \in Nat /\ after <= delay(after)
        /\ nap(after) = IF delay(after) <= left THEN delay(after) ELSE left
    <3>1. delay(after) \in Nat /\ left \in Nat /\ after \in Nat /\ after <= delay(after)
      <4>1. after \in Nat /\ Backoff \in Nat
        BY <2>1
      <4>2. CASE after > 0
        BY <1>2, <4>1, <4>2
      <4>3. CASE ~(after > 0)
        BY <1>2, <4>1, <4>3
      <4> QED BY <4>2, <4>3
    <3> HIDE DEF delay, left
    <3>2. nap(after) = IF delay(after) <= left THEN delay(after) ELSE left
      BY <3>1, MinOfTwo
    <3> QED BY <3>1, <3>2
  <2> HIDE DEF delay, nap
  <2>4. nap(after) \in Nat /\ nap(after) <= left /\ (~capped => after <= nap(after))
    BY <2>2, <2>3
  <2> DEFINE new == [pace[d] EXCEPT !.pc = "sleep", !.since = instant, !.wake = instant + nap(after),
                                    !.capped = capped, !.notBefore = instant + after]
  <2>5. instant + nap(after) \in Nat /\ instant + after \in Nat
    BY <1>1, <2>3, <2>4
  <2>6. /\ new \in PaceState /\ new.pc = "sleep" /\ new.since = instant
        /\ new.wake = instant + nap(after) /\ new.capped = capped /\ new.notBefore = instant + after
        /\ new.want = pace[d].want /\ new.paused = pace[d].paused
        /\ new.remaining = pace[d].remaining /\ new.attempt = pace[d].attempt
    BY <1>1, <2>5 DEF PaceState
  <2>7. pace' = [pace EXCEPT ![d] = new]
    BY <1>1, <2>2
  <2> HIDE DEF new
  <2>8. pace' \in [Doer -> PaceState] /\ pace'[d] = new /\ \A e \in Doer \ {d} : pace'[e] = pace[e]
    BY <1>1, <2>6, <2>7
  <2>9. StrictOk(d)' /\ BudgetOk(d)' /\ RetryOk(d)'
    BY <1>1, <1>2, <2>1, <2>3, <2>4, <2>6, <2>8 DEF StrictOk, BudgetOk, RetryOk
  <2> QED BY <1>1, <2>6, <2>8, <2>9, OthersStay DEF PacingInv, PacingTypeOK
<1> QED BY <1>3, <1>4

LEMMA WakeUpStep == ASSUME PacingInv, NEW d \in Doer, WakeUp(d) PROVE PacingInv'
<1> USE PacingAssumption DEF PacingAssumption
<1>1. /\ instant \in Nat /\ limiter \in Nat /\ hurried = {}
      /\ pace \in [Doer -> PaceState] /\ pace[d] \in PaceState
      /\ pace[d].pc = "sleep" /\ pace[d].wake <= instant
      /\ StrictOk(d) /\ BudgetOk(d) /\ RetryOk(d)
      /\ UNCHANGED <<instant, limiter, free, notUntil, hurried>>
  BY DEF WakeUp, PaceAt, PacingInv, PacingTypeOK
<1>2. /\ pace[d].wake \in Nat /\ pace[d].since \in Nat /\ pace[d].remaining \in 0 .. PaceBudget
      /\ pace[d].paused \in Nat /\ pace[d].attempt \in Nat /\ pace[d].capped \in BOOLEAN
      /\ pace[d].want \in Spacing
  BY <1>1 DEF PaceState
<1>3. /\ pace[d].wake = instant /\ Elapsed(d) \in Nat /\ Left(d) \in 0 .. PaceBudget
      /\ pace[d].paused + Elapsed(d) + Left(d) <= PaceBudget
      /\ pace[d].paused + Elapsed(d) \in Nat
      /\ pace[d].attempt + 1 \in 0 .. maxRetryAttempts - 1
  BY <1>1, <1>2 DEF BudgetOk, Elapsed, Left, maxRetryAttempts
<1> DEFINE base == IF pace[d].capped THEN Over(d) ELSE [pace[d] EXCEPT !.pc = "issue"]
           new == [base EXCEPT !.attempt = pace[d].attempt + 1, !.remaining = Left(d), !.wake = 0,
                               !.since = 0, !.paused = pace[d].paused + Elapsed(d)]
<1>4. /\ base \in PaceState /\ base.want = pace[d].want
      /\ base.pc = IF pace[d].capped THEN "over" ELSE "issue"
      /\ ~pace[d].capped => base.notBefore = pace[d].notBefore
  <2>1. Over(d) \in PaceState /\ Over(d).want = pace[d].want
    BY <1>2, NewRequestTyped DEF Over
  <2>2. Over(d).pc = "over"
    BY DEF Over, NewRequest
  <2>3. /\ [pace[d] EXCEPT !.pc = "issue"] \in PaceState
        /\ [pace[d] EXCEPT !.pc = "issue"].want = pace[d].want
        /\ [pace[d] EXCEPT !.pc = "issue"].pc = "issue"
        /\ [pace[d] EXCEPT !.pc = "issue"].notBefore = pace[d].notBefore
    BY <1>1 DEF PaceState
  <2> QED BY <1>2, <2>1, <2>2, <2>3
<1>5. pace' = [pace EXCEPT ![d] = new]
  BY <1>1 DEF WakeUp
<1> HIDE DEF base
<1>6. /\ new \in PaceState /\ new.pc = base.pc /\ new.want = base.want
      /\ new.notBefore = base.notBefore /\ new.remaining = Left(d)
      /\ new.paused = pace[d].paused + Elapsed(d)
  BY <1>3, <1>4 DEF PaceState
<1> HIDE DEF new
<1>7. pace' \in [Doer -> PaceState] /\ pace'[d] = new /\ \A e \in Doer \ {d} : pace'[e] = pace[e]
  BY <1>1, <1>5, <1>6
<1>8. StrictOk(d)' /\ BudgetOk(d)' /\ RetryOk(d)'
  BY <1>1, <1>2, <1>3, <1>4, <1>6, <1>7 DEF StrictOk, BudgetOk, RetryOk
<1>9. pace'[d].pc # "wait"
  BY <1>4, <1>6, <1>7
<1> QED BY <1>1, <1>7, <1>8, <1>9, OthersStay DEF PacingInv, PacingTypeOK

(* A token that is given back was the last one: the others come before it.    *)
LEMMA AbortPauseStep == ASSUME PacingInv, NEW d \in Doer, AbortPause(d) PROVE PacingInv'
<1> USE PacingAssumption DEF PacingAssumption
<1>1. /\ Ends(d) /\ UNCHANGED <<instant, limiter, notUntil, hurried>>
      /\ pace[d].pc \in {"wait", "sleep"}
      /\ instant \in Nat /\ free \in Nat /\ notUntil \in Nat /\ limiter \in Nat /\ notUntil <= free
      /\ pace \in [Doer -> PaceState] /\ pace[d] \in PaceState
      /\ StrictOk(d) /\ BudgetOk(d) /\ RetryOk(d) /\ TokenOk(d)
  BY DEF AbortPause, PacingInv, PacingTypeOK
<1>2. /\ pace' \in [Doer -> PaceState]
      /\ pace'[d].pc = "over" /\ pace'[d].want = pace[d].want
      /\ pace'[d].paused = pace[d].paused
      /\ \A e \in Doer \ {d} : pace'[e] = pace[e]
  BY <1>1, EndsOk
<1>3. StrictOk(d)' /\ BudgetOk(d)' /\ RetryOk(d)' /\ TokenOk(d)'
  BY <1>1, <1>2 DEF StrictOk, BudgetOk, RetryOk, TokenOk
<1>4. pace[d].wake \in Nat /\ pace[d].limit \in Nat
  BY <1>1 DEF PaceState
<1>5. free' \in Nat /\ notUntil <= free'
  BY <1>1, <1>4 DEF AbortPause, PaceAt, TokenOk
<1>6. ASSUME NEW e \in Doer \ {d} PROVE StrictOk(e)' /\ BudgetOk(e)' /\ RetryOk(e)' /\ TokenOk(e)'
  <2>1. /\ pace'[e] = pace[e] /\ pace[e] \in PaceState /\ Apart(d, e)
        /\ StrictOk(e) /\ BudgetOk(e) /\ RetryOk(e) /\ TokenOk(e)
    BY <1>1, <1>2 DEF PacingInv
  <2>2. pace[e].wake \in Nat /\ pace[e].limit \in Nat
    BY <2>1 DEF PaceState
  <2>3. TokenOk(e)'
    BY <1>1, <1>4, <2>1, <2>2 DEF AbortPause, PaceAt, Apart, TokenOk
  <2> QED BY <1>1, <2>1, <2>3 DEF StrictOk, BudgetOk, RetryOk
<1>7. \A e, f \in Doer : Apart(e, f)'
  BY <1>2 DEF PacingInv, Apart
<1> QED BY <1>1, <1>2, <1>3, <1>5, <1>6, <1>7 DEF PacingInv, PacingTypeOK

LEMMA InstantPassesStep == ASSUME PacingInv, InstantPasses PROVE PacingInv'
<1> USE PacingAssumption DEF PacingAssumption
<1>1. ASSUME NEW d \in Doer PROVE StrictOk(d)' /\ BudgetOk(d)' /\ RetryOk(d)' /\ TokenOk(d)'
  <2>1. /\ pace[d] \in PaceState /\ pace'[d] = pace[d] /\ instant \in Nat /\ instant' = instant + 1
        /\ UNCHANGED <<limiter, free, notUntil>>
        /\ pace[d].pc \in {"wait", "sleep"} => instant < pace[d].wake
        /\ StrictOk(d) /\ BudgetOk(d) /\ RetryOk(d) /\ TokenOk(d)
    BY DEF InstantPasses, PacingInv, PacingTypeOK
  <2>2. pace[d].wake \in Nat /\ pace[d].since \in Nat /\ pace[d].notBefore \in Nat
    BY <2>1 DEF PaceState
  <2> QED BY <2>1, <2>2 DEF StrictOk, BudgetOk, RetryOk, TokenOk
<1> QED BY <1>1 DEF InstantPasses, PacingInv, PacingTypeOK, Apart

LEMMA PacingStep == PacingInv /\ [PacingNext]_pacingVars => PacingInv'
<1> SUFFICES ASSUME PacingInv, [PacingNext]_pacingVars PROVE PacingInv'
  OBVIOUS
<1>1. CASE UNCHANGED pacingVars
  BY <1>1 DEF pacingVars, PacingInv, PacingTypeOK, StrictOk, BudgetOk, RetryOk, TokenOk, Apart
<1> QED BY <1>1, LimiterForStep, TightenStep, AwaitTokenStep, IssueLiveStep, AnswerFinalStep,
           AnswerLimitedStep, WakeUpStep, AbortPauseStep, InstantPassesStep DEF PacingNext

LEMMA PacingInvariant == PacingSpec => []PacingInv
<1> QED BY PacingStart, PacingStep, PTL DEF PacingSpec

-----------------------------------------------------------------------------
(* The types of the paced client (registry/pacedclient.go). *)
THEOREM PacingTypeCorrect == PacingSpec => []PacingTypeOK
<1>1. PacingInv => PacingTypeOK
  BY DEF PacingInv
<1> QED BY <1>1, PacingInvariant, PTL

(* For any number of requests to a host and any intervals, Retry-Afters and   *)
(* budgets: the limiter ends as strict as each asked for, no call is sent     *)
(* before the interval of the last one or its own Retry-After is over, and no *)
(* request pauses beyond its budget (pacedclient.go: limiterFor, issue,       *)
(* pacedWait, backoffSleep).                                                  *)
THEOREM TrackersAreSpared == PacingSpec => []HostIsSpared
<1>1. PacingInv => HostIsSpared
  BY DEF PacingInv, StrictOk, BudgetOk, HostIsSpared
<1> QED BY <1>1, PacingInvariant, PTL

---------------------------------------------------------------------------
(***************************************************************************)
(* Keys, for any keys and tables: every stored secret opens under the key   *)
(* in force, whenever a start or a rotation is cut off.                     *)
(***************************************************************************)

(* A secret is sealed for its row under the key in force, or there is none. *)
RowSealed(t) == sealed[t] = Nothing \/ (canaryId # NoKey /\ sealed[t] = Encrypt(canaryId, t))

(* The id never runs ahead of the canary it names. *)
CanaryOk == canaryId # NoKey => canaryBlob = canaryId

(* Between the two statements of the canary there is no key in force, so no  *)
(* secret either; after them it is the daemon's.                            *)
StartOk ==
  /\ ~DaemonAt("down") => daemon.keyring \in Keyring
  /\ DaemonAt("tagged") => canaryBlob = daemon.keyring /\ canaryId = NoKey
  /\ DaemonAt("up") => VerifyCanary(daemon.keyring)

(* A rotation holds every secret there is, and nobody writes another one.   *)
PlanOk ==
  rekeyPlan # NoPlan =>
    /\ DaemonAt("down")
    /\ rekeyPlan.new \in Key
    /\ rekeyPlan.rows = {t \in Table : sealed[t] # Nothing}

KeysInv == KeysTypeOK /\ (\A t \in Table : RowSealed(t)) /\ CanaryOk /\ StartOk /\ PlanOk

-----------------------------------------------------------------------------
LEMMA Sealing ==
  ASSUME NEW k \in Keyring, NEW t \in Table
  PROVE  /\ Encrypt(k, t) # Nothing
         /\ Encrypt(k, t) \in [by : Keyring \cup {NoKey}, aad : Table \cup {""},
                               keyId : Keyring \cup {NoKey}]
         /\ Decrypts(k, t, Encrypt(k, t))
<1> QED BY KeysAssumption DEF KeysAssumption, Keyring, Encrypt, Nothing, Decrypts

LEMMA NothingTyped ==
  Nothing \in [by : Keyring \cup {NoKey}, aad : Table \cup {""}, keyId : Keyring \cup {NoKey}]
<1> QED BY DEF Nothing

LEMMA KeysStart == KeysInit => KeysInv
<1> SUFFICES ASSUME KeysInit PROVE KeysInv
  OBVIOUS
<1>1. KeysTypeOK
  BY NothingTyped DEF KeysInit, KeysTypeOK, Down, NoPlan
<1>2. \A t \in Table : RowSealed(t)
  BY DEF KeysInit, RowSealed
<1> QED BY <1>1, <1>2 DEF KeysInit, KeysInv, CanaryOk, StartOk, PlanOk, DaemonAt, Down

-----------------------------------------------------------------------------
(* A step of the start leaves the secrets and the plan alone.               *)
LEMMA StartStep ==
  ASSUME KeysInv, OpenKeyring \/ GenerateKeyFile \/ CheckCanary \/ WriteCanaryId \/ Stop
  PROVE  KeysInv'
<1> USE KeysAssumption DEF KeysAssumption, KeysInv, KeysTypeOK, Keyring
<1>1. CASE OpenKeyring \/ GenerateKeyFile
  <2>1. \E k \in Keyring : daemon' \in {daemon, [pc |-> "opened", keyring |-> k]}
    BY <1>1 DEF OpenKeyring, GenerateKeyFile
  <2>2. /\ DaemonAt("down") /\ rekeyPlan = NoPlan
        /\ UNCHANGED <<configured, allowPlain, storeVars, rekeyPlan>>
    BY <1>1 DEF OpenKeyring, GenerateKeyFile, Offline, operatorVars
  <2>3. keyfile' \in Key \cup {NoKey, Torn}
    BY <1>1 DEF OpenKeyring, GenerateKeyFile, operatorVars
  <2>4. /\ daemon' \in [pc : {"down", "opened", "tagged", "up"}, keyring : Keyring \cup {NoKey}]
        /\ daemon'.pc \in {"down", "opened"}
        /\ daemon'.pc = "opened" => daemon'.keyring \in Keyring
    <3>1. PICK k \in Keyring : daemon' \in {daemon, [pc |-> "opened", keyring |-> k]}
      BY <2>1
    <3>2. CASE daemon' = daemon
      BY <2>2, <3>2 DEF DaemonAt
    <3>3. CASE daemon' = [pc |-> "opened", keyring |-> k]
      BY <3>3
    <3> QED BY <3>1, <3>2, <3>3
  <2>5. KeysTypeOK'
    BY <2>2, <2>3, <2>4 DEF storeVars
  <2> QED BY <2>2, <2>4, <2>5 DEF storeVars, DaemonAt, StartOk, PlanOk, CanaryOk, RowSealed
<1>2. CASE CheckCanary
  <2>1. /\ UNCHANGED <<configured, allowPlain, keyfile, canaryId, sealed, rekeyPlan>>
        /\ DaemonAt("opened")
    BY <1>2 DEF CheckCanary, operatorVars
  <2>2. CASE HaveCanary
    <3>1. /\ canaryBlob' = canaryBlob
          /\ \/ daemon' = [daemon EXCEPT !.pc = "up"] /\ VerifyCanary(daemon.keyring)
             \/ daemon' = Down
      BY <1>2, <2>2 DEF CheckCanary
    <3>2. rekeyPlan = NoPlan /\ daemon.keyring \in Keyring
      BY <2>1 DEF PlanOk, StartOk, DaemonAt
    <3>3. CASE daemon' = Down
      BY <2>1, <3>1, <3>2, <3>3 DEF Down, DaemonAt, StartOk, PlanOk, CanaryOk, RowSealed
    <3>4. CASE daemon' = [daemon EXCEPT !.pc = "up"] /\ VerifyCanary(daemon.keyring)
      BY <2>1, <3>1, <3>2, <3>4
      DEF DaemonAt, StartOk, PlanOk, CanaryOk, RowSealed, VerifyCanary
    <3> QED BY <3>1, <3>3, <3>4
  <2>3. CASE ~HaveCanary
    <3>1. canaryId = NoKey
      BY <2>3 DEF HaveCanary, CanaryOk
    <3>2. /\ canaryBlob' = daemon.keyring /\ daemon.keyring \in Keyring
          /\ daemon' = [daemon EXCEPT !.pc = "tagged"]
      BY <1>2, <2>1, <2>3 DEF CheckCanary, StartOk, DaemonAt
    <3> QED BY <2>1, <3>1, <3>2 DEF DaemonAt, StartOk, PlanOk, CanaryOk, RowSealed
  <2> QED BY <2>2, <2>3
<1>3. CASE WriteCanaryId
  <2>1. /\ UNCHANGED <<configured, allowPlain, keyfile, canaryBlob, sealed, rekeyPlan>>
        /\ DaemonAt("tagged") /\ canaryId' = daemon.keyring
        /\ daemon' = [daemon EXCEPT !.pc = "up"]
    BY <1>3 DEF WriteCanaryId, operatorVars
  <2>2. canaryBlob = daemon.keyring /\ canaryId = NoKey /\ daemon.keyring \in Keyring
    BY <2>1 DEF StartOk, DaemonAt
  <2>3. \A t \in Table : sealed[t] = Nothing
    BY <2>2 DEF RowSealed
  <2> QED BY <2>1, <2>2, <2>3 DEF DaemonAt, StartOk, PlanOk, CanaryOk, RowSealed, VerifyCanary
<1>4. CASE Stop
  BY <1>4
  DEF Stop, operatorVars, storeVars, Down, DaemonAt, StartOk, PlanOk, CanaryOk, RowSealed
<1> QED BY <1>1, <1>2, <1>3, <1>4

(* A daemon that serves writes under the key in force.                      *)
LEMMA SecretStep ==
  ASSUME KeysInv, NEW t \in Table, StoreSecret(t) \/ DeleteSecret(t)
  PROVE  KeysInv'
<1> USE KeysAssumption DEF KeysAssumption, KeysInv, KeysTypeOK
<1>1. /\ DaemonAt("up") /\ canaryId = daemon.keyring /\ daemon.keyring \in Keyring
      /\ UNCHANGED <<configured, allowPlain, keyfile, canaryBlob, canaryId, daemon, rekeyPlan>>
  BY DEF StoreSecret, DeleteSecret, operatorVars, StartOk, DaemonAt, VerifyCanary
<1>2. /\ sealed' \in [Table -> [by : Keyring \cup {NoKey}, aad : Table \cup {""},
                                keyId : Keyring \cup {NoKey}]]
      /\ sealed'[t] \in {Nothing, Encrypt(canaryId, t)}
      /\ \A s \in Table \ {t} : sealed'[s] = sealed[s]
  <2>1. PICK new \in {Nothing, Encrypt(canaryId, t)} : sealed' = [sealed EXCEPT ![t] = new]
    BY <1>1 DEF StoreSecret, DeleteSecret
  <2>2. new \in [by : Keyring \cup {NoKey}, aad : Table \cup {""}, keyId : Keyring \cup {NoKey}]
    <3>1. Encrypt(canaryId, t) \in [by : Keyring \cup {NoKey}, aad : Table \cup {""},
                                    keyId : Keyring \cup {NoKey}]
      BY <1>1 DEF Encrypt
    <3> QED BY <2>1, <3>1, NothingTyped
  <2> QED BY <2>1, <2>2
<1>3. canaryId # NoKey
  BY <1>1 DEF Keyring
<1>4. \A s \in Table : RowSealed(s)'
  BY <1>1, <1>2, <1>3 DEF RowSealed
<1>5. rekeyPlan = NoPlan
  BY <1>1 DEF PlanOk, DaemonAt
<1> QED BY <1>1, <1>2, <1>4, <1>5 DEF StartOk, CanaryOk, PlanOk, DaemonAt, VerifyCanary

(* A rotation opens every secret before it writes one, and writes all.      *)
LEMMA RotationStep ==
  ASSUME KeysInv,
         (\E old, new \in Key : ReencryptAll(old, new)) \/ ApplyRotation \/ AbandonRotation
           \/ Reconfigure
  PROVE  KeysInv'
<1> USE KeysAssumption DEF KeysAssumption, KeysInv, KeysTypeOK
<1>1. CASE \E old, new \in Key : ReencryptAll(old, new)
  <2>1. PICK new \in Key :
          /\ rekeyPlan' = [new |-> new, rows |-> {t \in Table : sealed[t] # Nothing}]
          /\ DaemonAt("down") /\ UNCHANGED <<operatorVars, storeVars, daemon>>
    BY <1>1 DEF ReencryptAll, Rekeyed, SecretSurfaces, Table, Offline
  <2> QED BY <2>1 DEF operatorVars, storeVars, StartOk, CanaryOk, PlanOk, DaemonAt, RowSealed
<1>2. CASE ApplyRotation
  <2> DEFINE k == rekeyPlan.new
  <2>1. /\ DaemonAt("down") /\ k \in Key
        /\ rekeyPlan.rows = {t \in Table : sealed[t] # Nothing}
        /\ canaryBlob' = k /\ canaryId' = k /\ rekeyPlan' = NoPlan
        /\ UNCHANGED <<operatorVars, daemon>>
    BY <1>2 DEF ApplyRotation, PlanOk
  <2>2. /\ sealed' = [t \in Table |-> IF t \in rekeyPlan.rows THEN Encrypt(k, t) ELSE sealed[t]]
        /\ k \in Keyring /\ k # NoKey
    BY <1>2, <2>1 DEF ApplyRotation, Keyring
  <2> HIDE DEF k
  <2>3. \A t \in Table : sealed'[t] \in {Nothing, Encrypt(k, t)}
    BY <2>1, <2>2
  <2>4. sealed' \in [Table -> [by : Keyring \cup {NoKey}, aad : Table \cup {""},
                               keyId : Keyring \cup {NoKey}]]
    BY <2>2, Sealing
  <2>5. \A t \in Table : RowSealed(t)'
    BY <2>1, <2>2, <2>3 DEF RowSealed
  <2>6. rekeyPlan' \in [new : Key \cup {NoKey}, rows : SUBSET Table]
    BY <2>1 DEF NoPlan
  <2> QED BY <2>1, <2>2, <2>4, <2>5, <2>6 DEF operatorVars, StartOk, CanaryOk, PlanOk, DaemonAt
<1>3. CASE AbandonRotation
  BY <1>3
  DEF AbandonRotation, operatorVars, storeVars, NoPlan, StartOk, CanaryOk, PlanOk, DaemonAt, RowSealed
<1>4. CASE Reconfigure
  <2>1. KeysTypeOK' /\ UNCHANGED <<storeVars, daemon, rekeyPlan>>
    BY <1>4 DEF Reconfigure, storeVars
  <2> QED BY <2>1 DEF storeVars, StartOk, CanaryOk, PlanOk, DaemonAt, RowSealed, VerifyCanary
<1> QED BY <1>1, <1>2, <1>3, <1>4

LEMMA KeysStep == KeysInv /\ [KeysNext]_keysVars => KeysInv'
<1> SUFFICES ASSUME KeysInv, [KeysNext]_keysVars PROVE KeysInv'
  OBVIOUS
<1>1. CASE UNCHANGED keysVars
  BY <1>1
  DEF keysVars, KeysInv, KeysTypeOK, StartOk, CanaryOk, PlanOk, DaemonAt, RowSealed, VerifyCanary
<1> QED BY <1>1, StartStep, SecretStep, RotationStep DEF KeysNext

LEMMA KeysInvariant == KeysSpec => []KeysInv
<1> QED BY KeysStart, KeysStep, PTL DEF KeysSpec

-----------------------------------------------------------------------------
(* The types of the keys and of what is sealed (secrets/keyring.go). *)
THEOREM KeysTypeCorrect == KeysSpec => []KeysTypeOK
<1>1. KeysInv => KeysTypeOK
  BY DEF KeysInv
<1> QED BY <1>1, KeysInvariant, PTL

(* For any tables and any number of keys: wherever a start or a rotation is  *)
(* cut off, every sealed secret opens for its row under the one key the      *)
(* store names, and a daemon that serves has that key (secrets/canary.go,    *)
(* database/rotation.go).                                                    *)
THEOREM SecretsOpen == KeysSpec => []StoreOpens
<1>1. ASSUME KeysInv, NEW t \in Table, sealed[t] # Nothing
      PROVE  Decrypts(canaryId, t, sealed[t]) /\ sealed[t].keyId = canaryId /\ HaveCanary
  <2>1. canaryId \in Keyring /\ sealed[t] = Encrypt(canaryId, t) /\ canaryBlob = canaryId
    BY <1>1 DEF KeysInv, KeysTypeOK, RowSealed, CanaryOk
  <2>2. canaryId # NoKey
    BY <1>1 DEF KeysInv, RowSealed
  <2>3. sealed[t].keyId = canaryId
    BY <2>1 DEF Encrypt
  <2>4. HaveCanary
    BY <2>1, <2>2 DEF HaveCanary
  <2> QED BY <2>1, <2>3, <2>4, Sealing
<1>2. KeysInv => StoreOpens
  BY <1>1 DEF KeysInv, StartOk, StoreOpens
<1> QED BY <1>2, KeysInvariant, PTL

---------------------------------------------------------------------------
(***************************************************************************)
(* Polls, for any number of clients, updates and restarts: a 304 leaves the *)
(* client with the page a full answer would carry, and nothing is served    *)
(* past its lifetime or out of a definition that is gone.                   *)
(***************************************************************************)

(* What a client has is a page and the validator it came with.              *)
PolledPages == {Page(feed, l) : feed \in FeedRequest, l \in Listing}
CopyOk(c) ==
  copy[c] = NoCopy \/ \E feed \in FeedRequest, page \in PolledPages :
                        copy[c] = [etag |-> pagedETag(feed, page), body |-> page]

(* A row that was stored while the fingerprint vouched for its definition is *)
(* of the definition the fingerprint names, or expired; once the check of a  *)
(* start has expired rows, it is of the definition that runs.               *)
RowOk ==
  cached # NothingCached /\ cached.traced =>
    /\ cached.def = fingerprint \/ cached.till <= second
    /\ boot = "expired" => cached.def = def \/ cached.till <= second

(* Nothing is under way before the check is over.                           *)
BootOk ==
  boot # "up" => /\ \A c \in Client : poll[c].path = "idle"
                 /\ ~refresh

PollsInv ==
  /\ PollsTypeOK /\ PollsAreTrue /\ RowOk /\ BootOk
  /\ DOMAIN copy = Client /\ \A c \in Client : CopyOk(c)

-----------------------------------------------------------------------------
LEMMA LifetimeTyped ==
  ASSUME PollsTypeOK, NEW n
  PROVE  resolveTTL(n) \in Nat
<1>1. settings.override \in Nat /\ settings.warm \in Nat /\ tuning.rss \in Nat /\ ThinTTL \in Nat
  BY PollsAssumption DEF PollsAssumption, PollsTypeOK, View
<1> QED BY <1>1 DEF resolveTTL, Least, Most

(* The validator tells any two pages apart.                                 *)
LEMMA ValidatorTells ==
  ASSUME NEW f \in FeedRequest, NEW g \in FeedRequest, NEW p \in PolledPages, NEW q \in PolledPages,
         pagedETag(f, p) = pagedETag(g, q)
  PROVE  p = q
<1>1. /\ p = [releases |-> p.releases, offset |-> p.offset, total |-> p.total]
      /\ q = [releases |-> q.releases, offset |-> q.offset, total |-> q.total]
  BY DEF PolledPages, Page
<1>2. p.releases = q.releases /\ p.offset = q.offset /\ p.total = q.total
  BY DEF pagedETag
<1> QED BY <1>1, <1>2

(* An answer with no fault of its own leaves every client with a true copy.  *)
LEMMA Answered ==
  ASSUME PollsInv, NEW c \in Client, NEW p, p.feed \in FeedRequest, NEW l \in Listing,
         NEW backed, Respond(c, p, l, backed, {})
  PROVE  lies' = {} /\ DOMAIN copy' = Client /\ \A d \in Client : CopyOk(d)'
<1> DEFINE page == Page(p.feed, l)
           etag == pagedETag(p.feed, page)
           unchanged == backed /\ ~p.fresh /\ copy[c] # NoCopy /\ copy[c].etag = etag
           new == IF unchanged THEN copy[c] ELSE IF backed THEN [etag |-> etag, body |-> page] ELSE NoCopy
<1>1. /\ copy' = [copy EXCEPT ![c] = new]
      /\ lies' = lies \cup {} \cup IF unchanged /\ copy[c].body # page THEN {"body"} ELSE {}
  BY DEF Respond
<1>2. page \in PolledPages
  BY DEF PolledPages
<1> HIDE DEF page
<1>3. unchanged => copy[c].body = page
  <2> SUFFICES ASSUME unchanged PROVE copy[c].body = page
    OBVIOUS
  <2>1. PICK g \in FeedRequest, q \in PolledPages : copy[c] = [etag |-> pagedETag(g, q), body |-> q]
    BY DEF PollsInv, CopyOk
  <2>2. pagedETag(g, q) = pagedETag(p.feed, page) /\ copy[c].body = q
    BY <2>1
  <2> QED BY <1>2, <2>2, ValidatorTells
<1>4. lies' = {}
  BY <1>1, <1>3 DEF PollsInv, PollsAreTrue
<1>5. new = NoCopy \/ \E g \in FeedRequest, q \in PolledPages : new = [etag |-> pagedETag(g, q), body |-> q]
  BY <1>2 DEF PollsInv, CopyOk
<1> HIDE DEF new, unchanged
<1>6. /\ DOMAIN copy' = Client /\ copy'[c] = new
      /\ \A d \in Client \ {c} : copy'[d] = copy[d]
  BY <1>1 DEF PollsInv
<1>7. \A d \in Client : CopyOk(d)'
  BY <1>5, <1>6 DEF PollsInv, CopyOk
<1> QED BY <1>4, <1>6, <1>7

(* A row served as good is neither too old nor of a superseded definition.   *)
LEMMA GoodHasNoFaults ==
  ASSUME PollsInv, Good
  PROVE  RowFaults = {}
<1> USE DEF PollsInv
<1>1. /\ cached # NothingCached /\ cached.till > second /\ effectiveExpiry(cached) > second
      /\ cached.at \in Nat /\ cached.till \in Nat /\ second \in Nat
  BY DEF Good, Fetched, PollsTypeOK
<1>2. resolveTTL(Len(cached.releases)) \in Nat
  BY LifetimeTyped
<1>3. second < cached.at + resolveTTL(Len(cached.releases))
  BY <1>1, <1>2 DEF effectiveExpiry, Least
<1>4. ~(second >= cached.at + resolveTTL(Len(cached.releases)))
  BY <1>1, <1>2, <1>3
<1>5. ~(cached.def # def /\ cached.traced /\ fingerprint = def)
  BY <1>1 DEF RowOk
<1> QED BY <1>4, <1>5 DEF RowFaults

(* What is laid over a tuning is a tuning, over stored rows stored rows.     *)
LEMMA OverlayTyped ==
  ASSUME NEW kv \in Overrides
  PROVE  /\ \A view \in View : Overlay(view, kv) \in View
         /\ \A view \in Overrides : Overlay(view, kv) \in Overrides
<1>1. kv.enabled \in BOOLEAN \cup {Absent} /\ kv.rss \in TTL \cup {Absent}
  BY DEF Overrides
<1>2. ASSUME NEW view \in View PROVE Overlay(view, kv) \in View
  <2>1. /\ DOMAIN view = {"enabled", "rss"}
        /\ view.enabled \in BOOLEAN /\ view.rss \in TTL
    BY DEF View
  <2>2. Overlay(view, kv) = [enabled |-> IF kv.enabled = Absent THEN view.enabled ELSE kv.enabled,
                             rss |-> IF kv.rss = Absent THEN view.rss ELSE kv.rss]
    BY <2>1 DEF Overlay
  <2> QED BY <1>1, <2>1, <2>2 DEF View
<1>3. ASSUME NEW view \in Overrides PROVE Overlay(view, kv) \in Overrides
  <2>1. /\ DOMAIN view = {"enabled", "rss"}
        /\ view.enabled \in BOOLEAN \cup {Absent} /\ view.rss \in TTL \cup {Absent}
    BY DEF Overrides
  <2>2. Overlay(view, kv) = [enabled |-> IF kv.enabled = Absent THEN view.enabled ELSE kv.enabled,
                             rss |-> IF kv.rss = Absent THEN view.rss ELSE kv.rss]
    BY <2>1 DEF Overlay
  <2> QED BY <1>1, <2>1, <2>2 DEF Overrides
<1> QED BY <1>2, <1>3

LEMMA Constants ==
  /\ NothingStored \in Overrides /\ NoPoll.path = "idle"
  /\ NoReseed \in [stage : {"no", "tx", "read"}, rows : Overrides]
  /\ NoPoll \in [path : {"idle", "flight", "bypass", "off", "orphan"},
                 feed : FeedRequest, fresh : BOOLEAN]
BY PollsAssumption DEF PollsAssumption, NothingStored, Overrides, NoReseed, NoPoll, FeedRequest

LEMMA PollsStart == PollsInit => PollsInv
<1> SUFFICES ASSUME PollsInit PROVE PollsInv
  OBVIOUS
<1> USE DEF PollsInit
<1>1. appSettings \in Overrides /\ tuning \in View
  BY Constants, OverlayTyped, PollsAssumption DEF AtBoot, PollsAssumption
<1>2. PollsTypeOK
  <2>1. def \in 1 .. LastDef /\ fingerprint \in 0 .. LastDef /\ second \in Nat /\ turns \in Nat
    BY PollsAssumption DEF PollsAssumption
  <2>2. reseed \in [stage : {"no", "tx", "read"}, rows : Overrides]
    BY Constants
  <2>3. poll \in [Client -> [path : {"idle", "flight", "bypass", "off", "orphan"},
                            feed : FeedRequest, fresh : BOOLEAN]]
    BY Constants
  <2>4. /\ listed \in Listing /\ settings \in Setting /\ update = NoUpdate /\ boot = "check"
        /\ refresh = FALSE /\ lies = {} /\ cached = NothingCached
    OBVIOUS
  <2> QED BY <1>1, <2>1, <2>2, <2>3, <2>4 DEF PollsTypeOK
<1>3. RowOk /\ PollsAreTrue
  BY DEF RowOk, PollsAreTrue
<1>4. BootOk
  BY Constants DEF BootOk
<1>5. DOMAIN copy = Client /\ \A c \in Client : CopyOk(c)
  BY DEF CopyOk
<1> QED BY <1>2, <1>3, <1>4, <1>5 DEF PollsInv

-----------------------------------------------------------------------------
(* The steps.                                                              *)

(* A step that leaves the row, the definition and the check alone, and with  *)
(* them everything but the answer.                                          *)
LEMMA AnswerSteps ==
  ASSUME PollsInv, NEW c \in Client, NEW p, p.feed \in FeedRequest,
         cached # NothingCached, Respond(c, p, cached.releases, TRUE, {}),
         UNCHANGED <<worldVars, configVars, cached>>,
         poll' = poll \/ poll' = [poll EXCEPT ![c] = NoPoll],
         refresh' \in BOOLEAN, boot # "up" => refresh' = refresh
  PROVE  PollsInv'
<1>1. cached.releases \in Listing /\ Respond(c, p, cached.releases, TRUE, {})
  BY DEF PollsInv, PollsTypeOK
<1>2. lies' = {} /\ DOMAIN copy' = Client /\ \A d \in Client : CopyOk(d)'
  <2> DEFINE l == cached.releases
  <2>1. l \in Listing /\ Respond(c, p, l, TRUE, {})
    BY <1>1
  <2> HIDE DEF l
  <2> QED BY <2>1, Answered
<1>3. PollsTypeOK'
  BY <1>2, Constants DEF PollsInv, PollsTypeOK, worldVars, configVars
<1>4. RowOk'
  BY DEF PollsInv, RowOk, worldVars
<1>5. BootOk'
  BY Constants DEF PollsInv, BootOk, PollsTypeOK, worldVars
<1> QED BY <1>2, <1>3, <1>4, <1>5 DEF PollsInv, PollsAreTrue

(* A step that leaves the answers alone.                                    *)
LEMMA Untold ==
  ASSUME PollsInv, PollsTypeOK', RowOk', BootOk', UNCHANGED <<copy, lies>>
  PROVE  PollsInv'
<1>1. DOMAIN copy' = Client /\ \A c \in Client : CopyOk(c)'
  BY DEF PollsInv, CopyOk
<1> QED BY <1>1 DEF PollsInv, PollsAreTrue

LEMMA MissStep ==
  ASSUME PollsInv, NEW c \in Client, NEW feed \in FeedRequest, NEW fresh \in BOOLEAN,
         MissOrBypass(c, feed, fresh)
  PROVE  PollsInv'
<1> DEFINE path == IF ~tuning.enabled THEN "off" ELSE IF fresh THEN "bypass" ELSE "flight"
           new == NewPoll(path, feed, fresh)
<1>1. /\ boot = "up" /\ poll' = [poll EXCEPT ![c] = new]
      /\ UNCHANGED <<worldVars, configVars, cached, refresh, copy, lies>>
  BY DEF MissOrBypass, Go
<1>2. path \in {"idle", "flight", "bypass", "off", "orphan"}
  OBVIOUS
<1> HIDE DEF path
<1>3. new \in [path : {"idle", "flight", "bypass", "off", "orphan"}, feed : FeedRequest,
               fresh : BOOLEAN]
  BY <1>2 DEF NewPoll
<1> HIDE DEF new
<1>4. PollsTypeOK'
  BY <1>1, <1>3 DEF PollsInv, PollsTypeOK, worldVars, configVars
<1>5. RowOk'
  BY <1>1 DEF PollsInv, RowOk, worldVars
<1>6. BootOk'
  BY <1>1 DEF BootOk, worldVars
<1> QED BY <1>1, <1>4, <1>5, <1>6, Untold

(* What a search stores is a row of the definition that runs.               *)
LEMMA Stored ==
  ASSUME PollsInv, StoreBestEffort, UNCHANGED <<worldVars, configVars>>
  PROVE  /\ RowOk'
         /\ cached' = NothingCached \/
              cached' \in [releases : Listing, at : Nat, till : Nat, def : 1 .. LastDef,
                           traced : BOOLEAN]
<1> USE DEF PollsInv, PollsTypeOK
<1>1. CASE cached' = cached
  BY <1>1 DEF RowOk, worldVars
<1>2. CASE cached' = StoredEntry
  <2>1. resolveTTL(Len(listed)) \in Nat
    BY LifetimeTyped
  <2>2. second + resolveTTL(Len(listed)) \in Nat
    BY <2>1
  <2>3. (fingerprint = def) \in BOOLEAN
    OBVIOUS
  <2>4. cached' \in [releases : Listing, at : Nat, till : Nat, def : 1 .. LastDef,
                     traced : BOOLEAN]
    BY <1>2, <2>2, <2>3 DEF StoredEntry
  <2>5. cached'.def = def /\ (cached'.traced => fingerprint = def)
    BY <1>2 DEF StoredEntry
  <2> QED BY <2>4, <2>5 DEF RowOk, worldVars
<1> QED BY <1>1, <1>2 DEF StoreBestEffort

LEMMA LiveStep ==
  ASSUME PollsInv, NEW c \in Client, LiveReturns(c)
  PROVE  PollsInv'
<1>1. /\ poll[c].path # "idle" /\ poll' = [poll EXCEPT ![c] = NoPoll]
      /\ StoreBestEffort \/ UNCHANGED cached
      /\ UNCHANGED <<worldVars, configVars, refresh>>
  BY DEF LiveReturns, Go
<1>2. PICK backed : Respond(c, poll[c], listed, backed, {})
  BY DEF LiveReturns
<1>3. poll[c].feed \in FeedRequest /\ listed \in Listing
  BY DEF PollsInv, PollsTypeOK
<1>4. lies' = {} /\ DOMAIN copy' = Client /\ \A d \in Client : CopyOk(d)'
  <2> DEFINE p == poll[c]
  <2>1. p.feed \in FeedRequest /\ Respond(c, p, listed, backed, {})
    BY <1>2, <1>3
  <2> HIDE DEF p
  <2> QED BY <1>3, <2>1, Answered
<1>5. /\ RowOk'
      /\ cached' = NothingCached \/
           cached' \in [releases : Listing, at : Nat, till : Nat, def : 1 .. LastDef,
                        traced : BOOLEAN]
  <2>1. CASE StoreBestEffort
    BY <1>1, <2>1, Stored
  <2>2. CASE UNCHANGED cached
    BY <1>1, <2>2 DEF PollsInv, PollsTypeOK, RowOk, worldVars
  <2> QED BY <1>1, <2>1, <2>2
<1>6. PollsTypeOK'
  BY <1>1, <1>4, <1>5, Constants DEF PollsInv, PollsTypeOK, worldVars, configVars
<1>7. BootOk'
  BY <1>1, Constants DEF PollsInv, BootOk, PollsTypeOK, worldVars
<1> QED BY <1>4, <1>5, <1>6, <1>7 DEF PollsInv, PollsAreTrue

LEMMA PollEnds ==
  ASSUME PollsInv, (\E c \in Client : PollFails(c)) \/ RefreshEnds
  PROVE  PollsInv'
<1>1. ASSUME NEW c \in Client, PollFails(c) PROVE PollsInv'
  <2> USE <1>1 DEF PollFails, Go
  <2>1. PollsTypeOK'
    BY Constants DEF PollsInv, PollsTypeOK, worldVars, configVars
  <2>2. RowOk'
    BY DEF PollsInv, RowOk, worldVars
  <2>3. BootOk'
    BY Constants DEF PollsInv, BootOk, PollsTypeOK, worldVars
  <2> QED BY <2>1, <2>2, <2>3, Untold
<1>2. CASE RefreshEnds
  <2> USE <1>2 DEF RefreshEnds
  <2>1. /\ RowOk'
        /\ cached' = NothingCached \/
             cached' \in [releases : Listing, at : Nat, till : Nat, def : 1 .. LastDef,
                          traced : BOOLEAN]
    BY Stored
  <2>2. PollsTypeOK'
    BY <2>1 DEF PollsInv, PollsTypeOK, worldVars, configVars
  <2>3. BootOk'
    BY DEF PollsInv, BootOk, worldVars
  <2> QED BY <2>1, <2>2, <2>3, Untold
<1> QED BY <1>1, <1>2

LEMMA ConfigSteps ==
  ASSUME PollsInv,
         (\E patch \in Patch : PersistConfig(patch)) \/ SwapConfig \/ ReseedReads \/ LoadOverrides
  PROVE  PollsInv'
<1>1. \A patch \in Patch : patch \in Overrides
  BY PollsAssumption DEF PollsAssumption
<1>2. /\ UNCHANGED <<second, listed, settings, def, boot, fingerprint, pollVars>>
      /\ turns' \in Nat
      /\ tuning' \in View /\ appSettings' \in Overrides /\ update' \in View \cup {NoUpdate}
      /\ reseed' \in [stage : {"no", "tx", "read"}, rows : Overrides]
  <2> USE DEF PollsInv, PollsTypeOK
  <2>1. ASSUME NEW patch \in Patch, PersistConfig(patch) PROVE <1>2
    <3>1. Overlay(tuning, patch) \in View /\ Overlay(appSettings, patch) \in Overrides
      BY <1>1, OverlayTyped
    <3> QED BY <2>1, <3>1 DEF PersistConfig
  <2>2. CASE SwapConfig
    BY <2>2 DEF SwapConfig, worldVars
  <2>3. CASE ReseedReads
    BY <2>3 DEF ReseedReads, worldVars
  <2>4. CASE LoadOverrides
    <3>1. reseed.rows \in Overrides
      OBVIOUS
    <3>2. Overlay(tuning, reseed.rows) \in View
      BY <3>1, OverlayTyped
    <3> QED BY <2>4, <3>2, Constants DEF LoadOverrides, worldVars
  <2> QED BY <2>1, <2>2, <2>3, <2>4
<1>3. PollsTypeOK'
  BY <1>2 DEF PollsInv, PollsTypeOK, pollVars
<1>4. RowOk'
  BY <1>2 DEF PollsInv, RowOk, pollVars
<1>5. BootOk'
  BY <1>2 DEF PollsInv, BootOk, pollVars
<1> QED BY <1>2, <1>3, <1>4, <1>5, Untold DEF pollVars

LEMMA ImportStep ==
  ASSUME PollsInv, NEW bundle \in Bundle, ImportCommits(bundle)
  PROVE  PollsInv'
<1> USE DEF ImportCommits
<1>1. bundle.rows \in Overrides /\ bundle.fp \in 0 .. LastDef
  BY PollsAssumption DEF PollsAssumption
<1> DEFINE Orphaned(p) == [p EXCEPT !.path = "orphan"]
           new == [c \in Client |-> IF poll[c].path \in {"flight", "bypass"}
                                    THEN [poll[c] EXCEPT !.path = "orphan"] ELSE poll[c]]
<1>2. new \in [Client -> [path : {"idle", "flight", "bypass", "off", "orphan"},
                          feed : FeedRequest, fresh : BOOLEAN]]
  BY DEF PollsInv, PollsTypeOK
<1>3. poll' = new
  OBVIOUS
<1>4. [NoReseed EXCEPT !.stage = "tx"] \in [stage : {"no", "tx", "read"}, rows : Overrides]
  BY Constants DEF NoReseed
<1> HIDE DEF new
<1>5. PollsTypeOK'
  <2>1. poll' \in [Client -> [path : {"idle", "flight", "bypass", "off", "orphan"},
                            feed : FeedRequest, fresh : BOOLEAN]]
    BY <1>2, <1>3
  <2>2. reseed' \in [stage : {"no", "tx", "read"}, rows : Overrides]
    BY <1>4
  <2>3. /\ appSettings' \in Overrides /\ fingerprint' \in 0 .. LastDef
        /\ cached' = NothingCached /\ refresh' = FALSE /\ turns' = turns + 1
        /\ UNCHANGED <<second, listed, settings, def, boot, tuning, update, lies>>
    BY <1>1
  <2>4. turns' \in Nat
    BY <2>3 DEF PollsInv, PollsTypeOK
  <2> HIDE DEF ImportCommits
  <2> QED BY <2>1, <2>2, <2>3, <2>4 DEF PollsInv, PollsTypeOK
<1>6. RowOk'
  BY DEF RowOk
<1>7. BootOk'
  BY DEF BootOk
<1> QED BY <1>5, <1>6, <1>7, Untold

LEMMA BootStep ==
  ASSUME PollsInv, NEW d \in 1 .. LastDef, RestartWith(d)
  PROVE  PollsInv'
<1> USE DEF RestartWith
<1>1. AtBoot(appSettings) \in View
  BY OverlayTyped, PollsAssumption DEF AtBoot, PollsAssumption, PollsInv, PollsTypeOK
<1>2. PollsTypeOK'
  <2>1. poll' \in [Client -> [path : {"idle", "flight", "bypass", "off", "orphan"},
                            feed : FeedRequest, fresh : BOOLEAN]]
    BY Constants
  <2>2. reseed' \in [stage : {"no", "tx", "read"}, rows : Overrides]
    BY Constants
  <2>3. /\ tuning' \in View /\ def' \in 1 .. LastDef /\ boot' = "check" /\ update' = NoUpdate
        /\ refresh' = FALSE /\ turns' = turns + 1
        /\ UNCHANGED <<second, listed, settings, appSettings, fingerprint, cached, lies>>
    BY <1>1
  <2>4. turns' \in Nat
    BY <2>3 DEF PollsInv, PollsTypeOK
  <2> HIDE DEF RestartWith
  <2> QED BY <2>1, <2>2, <2>3, <2>4 DEF PollsInv, PollsTypeOK
<1>3. RowOk'
  BY DEF PollsInv, RowOk
<1>4. BootOk'
  BY Constants DEF BootOk
<1> QED BY <1>2, <1>3, <1>4, Untold

LEMMA CheckSteps ==
  ASSUME PollsInv, ExpireChangedDefs \/ PersistFingerprint \/ CheckFails
  PROVE  PollsInv'
<1> USE DEF PollsInv, PollsTypeOK
<1>1. CASE ExpireChangedDefs
  <2> USE <1>1 DEF ExpireChangedDefs
  <2> DEFINE new == [cached EXCEPT !.till = second]
  <2>1. CASE fingerprint \notin {0, def} /\ Fetched
    <3>1. /\ cached' = new
          /\ new \in [releases : Listing, at : Nat, till : Nat, def : 1 .. LastDef,
                      traced : BOOLEAN]
          /\ new.till = second
      BY <2>1 DEF Fetched
    <3> HIDE DEF new
    <3>2. PollsTypeOK'
      BY <3>1 DEF configVars
    <3>3. RowOk'
      BY <3>1 DEF RowOk
    <3> QED BY <3>2, <3>3, Untold DEF BootOk
  <2>2. CASE ~(fingerprint \notin {0, def} /\ Fetched)
    <3>1. cached' = cached
      BY <2>2
    <3>2. PollsTypeOK'
      BY <3>1 DEF configVars
    <3>3. cached # NothingCached /\ cached.traced => cached.def = def \/ cached.till <= second
      BY <2>2 DEF RowOk, Fetched
    <3>4. RowOk'
      BY <3>1, <3>3 DEF RowOk
    <3> QED BY <3>2, <3>4, Untold DEF BootOk
  <2> QED BY <2>1, <2>2
<1>2. CASE PersistFingerprint
  <2>1. PollsTypeOK'
    BY <1>2 DEF PersistFingerprint, configVars, pollVars
  <2>2. RowOk' /\ BootOk'
    BY <1>2 DEF PersistFingerprint, pollVars, RowOk, BootOk
  <2> QED BY <1>2, <2>1, <2>2, Untold DEF PersistFingerprint, pollVars
<1>3. CASE CheckFails
  <2>1. PollsTypeOK'
    BY <1>3 DEF CheckFails, configVars, pollVars
  <2>2. RowOk' /\ BootOk'
    BY <1>3 DEF CheckFails, pollVars, RowOk, BootOk
  <2> QED BY <1>3, <2>1, <2>2, Untold DEF CheckFails, pollVars
<1> QED BY <1>1, <1>2, <1>3

LEMMA WorldSteps ==
  ASSUME PollsInv, (\E l \in Listing : TrackerLists(l)) \/ TimePasses
  PROVE  PollsInv'
<1>1. /\ UNCHANGED <<settings, def, boot, fingerprint, configVars, pollVars>>
      /\ listed' \in Listing /\ turns' \in Nat /\ second' \in Nat /\ second' >= second
  BY DEF TrackerLists, TimePasses, PollsInv, PollsTypeOK
<1>2. PollsTypeOK'
  BY <1>1 DEF PollsInv, PollsTypeOK, configVars, pollVars
<1>3. RowOk'
  BY <1>1 DEF PollsInv, PollsTypeOK, RowOk, pollVars
<1>4. BootOk'
  BY <1>1 DEF PollsInv, BootOk, pollVars
<1> QED BY <1>1, <1>2, <1>3, <1>4, Untold DEF pollVars

-----------------------------------------------------------------------------
LEMMA PollsStep == PollsInv /\ [PollsNext]_pollsVars => PollsInv'
<1> SUFFICES ASSUME PollsInv, [PollsNext]_pollsVars PROVE PollsInv'
  OBVIOUS
<1>1. ASSUME NEW c \in Client, NEW feed \in FeedRequest, ServeHit(c, feed) PROVE PollsInv'
  <2> DEFINE p == NewPoll("flight", feed, FALSE)
  <2>1. p.feed \in FeedRequest
    BY DEF NewPoll
  <2>2. /\ cached # NothingCached /\ Respond(c, p, cached.releases, TRUE, {}) /\ boot = "up"
        /\ UNCHANGED <<worldVars, configVars, cached>> /\ poll' = poll
        /\ refresh' = (refresh \/ shouldRefreshAhead)
    BY <1>1, GoodHasNoFaults DEF ServeHit, Good, Fetched
  <2>3. refresh' \in BOOLEAN
    BY <2>2
  <2> HIDE DEF p
  <2> QED BY <2>1, <2>2, <2>3, AnswerSteps
<1>2. ASSUME NEW c \in Client, DoubleCheckHit(c) PROVE PollsInv'
  <2> DEFINE p == poll[c]
  <2>1. p.feed \in FeedRequest /\ refresh \in BOOLEAN
    BY DEF PollsInv, PollsTypeOK
  <2>2. cached # NothingCached /\ Respond(c, p, cached.releases, TRUE, {})
    BY <1>2, GoodHasNoFaults DEF DoubleCheckHit, Good, Fetched
  <2>3. /\ UNCHANGED <<worldVars, configVars, cached>> /\ poll' = [poll EXCEPT ![c] = NoPoll]
        /\ refresh' = refresh
    BY <1>2 DEF DoubleCheckHit, Go
  <2>4. refresh' \in BOOLEAN
    BY <2>1, <2>3
  <2> HIDE DEF p
  <2> QED BY <2>1, <2>2, <2>3, <2>4, AnswerSteps
<1>3. ASSUME NEW c \in Client, ServeStale(c) PROVE PollsInv'
  <2> DEFINE p == poll[c]
  <2>1. p.feed \in FeedRequest /\ refresh \in BOOLEAN
    BY DEF PollsInv, PollsTypeOK
  <2>2. cached # NothingCached /\ Respond(c, p, cached.releases, TRUE, {})
    BY <1>3 DEF ServeStale
  <2>3. /\ UNCHANGED <<worldVars, configVars, cached>> /\ poll' = [poll EXCEPT ![c] = NoPoll]
        /\ refresh' = refresh
    BY <1>3 DEF ServeStale, Go
  <2>4. refresh' \in BOOLEAN
    BY <2>1, <2>3
  <2> HIDE DEF p
  <2> QED BY <2>1, <2>2, <2>3, <2>4, AnswerSteps
<1>4. CASE UNCHANGED pollsVars
  <2>1. PollsTypeOK'
    BY <1>4 DEF PollsInv, PollsTypeOK, pollsVars
  <2>2. RowOk' /\ BootOk'
    BY <1>4 DEF PollsInv, RowOk, BootOk, pollsVars
  <2> QED BY <1>4, <2>1, <2>2, Untold DEF pollsVars
<1> QED BY <1>1, <1>2, <1>3, <1>4, MissStep, LiveStep, PollEnds, ConfigSteps, ImportStep,
           BootStep, CheckSteps, WorldSteps DEF PollsNext

LEMMA PollsInvariant == PollsSpec => []PollsInv
BY PollsStart, PollsStep, PTL DEF PollsSpec

(* The cache, its tuning and the requests have their types.                 *)
THEOREM PollsTypeCorrect == PollsSpec => []PollsTypeOK
<1>1. PollsInv => PollsTypeOK
  BY DEF PollsInv
<1> QED BY <1>1, PollsInvariant, PTL

(* However polls, write-backs, tunings, imports, restarts and the check of   *)
(* the definitions interleave: a 304 leaves the consumer with the document   *)
(* a full answer would carry, and nothing is served as good past its tier    *)
(* or out of a definition that a start has superseded.                       *)
THEOREM AnswersAreTrue == PollsSpec => []PollsAreTrue
<1>1. PollsInv => PollsAreTrue
  BY DEF PollsInv
<1> QED BY <1>1, PollsInvariant, PTL

---------------------------------------------------------------------------
(***************************************************************************)
(* WriteBacks, for any number of queries and tests: the updates of the      *)
(* operator and what the drivers write back do not undo each other.         *)
(***************************************************************************)

Marks == {Mark(c) : c \in Cap}
SeededNames == Cap \cup {"unit"}
BuiltOnLatest(e) == engines[e].built = choices

EngineState == [mem : Nat, limits : [Name -> Nat], built : 0 .. MaxChoice]
WriteState == [name : Name, value : Nat]
WorkState(n) ==
  [pc : {"idle", "asked", "persist"}, engine : 0 .. n, todo : Seq(WriteState), seeded : BOOLEAN]

(* The writes of a test that seeds: each cap behind its mark, and nothing    *)
(* that was set when the engine was built.                                  *)
SeedsOf(limits, s) ==
  \A i \in DOMAIN s :
    /\ s[i].name \in SeededNames \cup Marks /\ s[i].value = Found
    /\ s[i].name \in SeededNames => limits[s[i].name] = 0
    /\ s[i].name \in Marks => i + 1 \in DOMAIN s /\ s[i + 1].name \in Cap
                               /\ s[i].name = Mark(s[i + 1].name)
    /\ s[i].name \in Cap /\ i # 1 => s[i - 1].name = Mark(s[i].name)

TodoOf(w) ==
  /\ work[w].pc # "idle" => work[w].engine \in DOMAIN engines
  /\ work[w].pc # "persist" => work[w].todo = <<>>
  /\ work[w].pc = "persist" =>
       /\ work[w].todo # <<>>
       /\ driver = "rotating" => \E v \in Nat : work[w].todo = <<Write("token", v)>>
       /\ driver = "learning" => work[w].todo = <<Write("passkey", Found)>>
       /\ driver = "seeding" => SeedsOf(engines[work[w].engine].limits, work[w].todo)
WritesOk == \A w \in Worker : TodoOf(w)

PatchesOk ==
  \/ edit.patch = Patched({}, 0)
  \/ driver = "rotating" /\ \E t \in Nat : edit.patch = Patched({"token"}, t)
  \/ driver = "seeding" /\ \E n \in {"query", "unit"}, v \in {0, Typed} :
       edit.patch = Patched({n}, v)
EditOk ==
  /\ edit # NoEdit => present /\ ~evicting /\ choices < MaxChoice /\ edit.read = stored /\ PatchesOk
  /\ ~present => choices < MaxChoice
  /\ choices <= MaxChoice

EnginesOk ==
  /\ \A e \in DOMAIN engines : engines[e].built <= choices
  /\ driver # "seeding" => \A n \in SeededNames : stored[n] = 0
  /\ \A e \in DOMAIN engines :
       BuiltOnLatest(e) /\ driver = "seeding" =>
         \A n \in SeededNames : stored[n] = Typed => engines[e].limits[n] = Typed
  /\ \A e \in DOMAIN engines :
       BuiltOnLatest(e) /\ driver = "learning" /\ present /\ engines[e].mem # 0 => stored["passkey"] # 0

RotatedOk ==
  driver = "rotating" /\ behind = {} =>
    /\ present /\ (\A w \in Worker : work[w].pc # "persist") => stored["token"] = newest
    /\ \A w \in Worker :
         work[w].pc = "persist" /\ ~Outdated(w) => Head(work[w].todo).value = newest

MarksOk ==
  \A w \in Worker : \A c \in Cap :
    present /\ work[w].pc = "persist" /\ Head(work[w].todo).name = c /\ ~Outdated(w)
      => stored[Mark(c)] = Found

WriteInv ==
  /\ WriteBacksTypeOK /\ WritesOk /\ EditOk /\ EnginesOk /\ RotatedOk /\ MarksOk
  /\ wrong = {} /\ SeedMarked

-----------------------------------------------------------------------------
LEMMA NameFacts ==
  /\ Cap = {"query", "grab"} /\ Marks = {"querySource", "grabSource"}
  /\ SeededNames = {"query", "grab", "unit"}
  /\ Name = {"token", "passkey", "unit", "query", "grab", "querySource", "grabSource"}
  /\ \A c \in Cap : Mark(c) \in Marks
  /\ \A c, d \in Cap : Mark(c) = Mark(d) => c = d
BY DEF Cap, Marks, Mark, SeededNames, Name

LEMMA WritesTyped ==
  ASSUME WriteBacksTypeOK
  PROVE  /\ engines \in Seq(EngineState) /\ Len(engines) \in Nat
         /\ DOMAIN engines = 1 .. Len(engines)
         /\ \A e \in DOMAIN engines :
              /\ engines[e] \in EngineState /\ engines[e].built \in Nat /\ engines[e].mem \in Nat
              /\ engines[e].limits \in [Name -> Nat]
         /\ work \in [Worker -> WorkState(Len(engines))]
         /\ \A w \in Worker :
              /\ work[w] \in WorkState(Len(engines)) /\ work[w].engine \in 0 .. Len(engines)
              /\ work[w].todo \in Seq(WriteState) /\ work[w].seeded \in BOOLEAN
              /\ work[w].pc \in {"idle", "asked", "persist"}
         /\ choices \in Nat /\ newest \in Nat /\ lastToken \in Nat /\ losses \in Nat
         /\ cachedEngine \in 0 .. Len(engines)
         /\ stored \in [Name -> Nat] /\ account \in [Cap -> {0, Found}]
<1>1. engines \in Seq(EngineState) /\ work \in [Worker -> WorkState(Len(engines))]
  BY DEF WriteBacksTypeOK, EngineState, WorkState, WriteState
<1>2. Len(engines) \in Nat /\ DOMAIN engines = 1 .. Len(engines)
      /\ \A e \in DOMAIN engines : engines[e] \in EngineState
  BY <1>1
<1>3. ASSUME NEW e \in EngineState
      PROVE  e.built \in Nat /\ e.mem \in Nat /\ e.limits \in [Name -> Nat]
  BY WriteBacksAssumption DEF EngineState, WriteBacksAssumption
<1>4. ASSUME NEW w \in Worker
      PROVE  /\ work[w] \in WorkState(Len(engines)) /\ work[w].engine \in 0 .. Len(engines)
             /\ work[w].todo \in Seq(WriteState) /\ work[w].seeded \in BOOLEAN
             /\ work[w].pc \in {"idle", "asked", "persist"}
  <2>1. work[w] \in WorkState(Len(engines))
    BY <1>1
  <2> QED  BY <2>1 DEF WorkState
<1>5. choices \in Nat /\ newest \in Nat /\ lastToken \in Nat /\ losses \in Nat
  BY DEF WriteBacksTypeOK
<1>6. cachedEngine \in 0 .. Len(engines) /\ stored \in [Name -> Nat]
      /\ account \in [Cap -> {0, Found}]
  BY DEF WriteBacksTypeOK
<1> QED  BY <1>1, <1>2, <1>3, <1>4, <1>5, <1>6

(* A token is pending exactly when a rotating driver has a write to do.      *)
LEMMA PendingFacts ==
  ASSUME WriteInv, driver = "rotating"
  PROVE  /\ \A w \in Worker : Pending(w) <=> work[w].pc = "persist"
         /\ Quiet <=> \A w \in Worker : work[w].pc # "persist"
<1>1. ASSUME NEW w \in Worker PROVE Pending(w) <=> work[w].pc = "persist"
  <2>1. TodoOf(w)
    BY DEF WriteInv, WritesOk
  <2>2. CASE work[w].pc = "persist"
    <3>1. PICK v \in Nat : work[w].todo = <<Write("token", v)>>
      BY <2>1, <2>2 DEF TodoOf
    <3>2. 1 \in DOMAIN work[w].todo /\ work[w].todo[1].name = "token"
      BY <3>1 DEF Write
    <3> QED  BY <2>2, <3>2 DEF Pending
  <2>3. CASE work[w].pc # "persist"
    <3>1. work[w].todo = <<>>
      BY <2>1, <2>3 DEF TodoOf
    <3> QED  BY <2>3, <3>1 DEF Pending
  <2> QED  BY <2>2, <2>3
<1> QED  BY <1>1 DEF Quiet

(* What becomes of the engines that are there.                              *)
Grown ==
  /\ engines' \in Seq(EngineState) /\ Len(engines) <= Len(engines') /\ Len(engines') \in Nat
  /\ DOMAIN engines' = 1 .. Len(engines')
  /\ \A e \in DOMAIN engines :
       engines'[e].limits = engines[e].limits /\ engines'[e].built = engines[e].built

LEMMA SameEngines ==
  ASSUME WriteInv, engines' = engines
  PROVE  Grown
BY WritesTyped DEF WriteInv, Grown

LEMMA EnginesBuilt ==
  ASSUME WriteInv, engines' = BuildEngine
  PROVE  /\ Grown /\ Len(engines') = Len(engines) + 1
         /\ \A e \in DOMAIN engines : engines'[e] = engines[e]
         /\ engines'[Len(engines) + 1].built = choices
         /\ engines'[Len(engines) + 1].mem = Credential
         /\ engines'[Len(engines) + 1].limits = readBudgetLimits
<1> DEFINE e == [mem |-> Credential, limits |-> readBudgetLimits, built |-> choices]
<1>1. /\ engines \in Seq(EngineState) /\ Len(engines) \in Nat /\ stored \in [Name -> Nat]
      /\ DOMAIN engines = 1 .. Len(engines)
  BY WritesTyped DEF WriteInv
<1>2. Credential \in Nat /\ readBudgetLimits \in [Name -> Nat] /\ choices \in 0 .. MaxChoice
  <2>1. "token" \in Name /\ "passkey" \in Name
    BY NameFacts
  <2>2. Unset \in [Name -> Nat]
    BY DEF Unset
  <2>3. choices \in 0 .. MaxChoice
    BY WritesTyped, WriteBacksAssumption DEF WriteInv, EditOk, WriteBacksAssumption
  <2> QED  BY <1>1, <2>1, <2>2, <2>3 DEF Credential, readBudgetLimits
<1>3. e \in EngineState
  BY <1>2 DEF EngineState
<1>4. e.built = choices /\ e.mem = Credential /\ e.limits = readBudgetLimits
  OBVIOUS
<1>5. engines' = Append(engines, e)
  BY DEF BuildEngine
<1> HIDE DEF e
<1>6. /\ engines' \in Seq(EngineState) /\ Len(engines') = Len(engines) + 1
      /\ DOMAIN engines' = 1 .. Len(engines')
      /\ \A i \in DOMAIN engines : engines'[i] = engines[i]
      /\ engines'[Len(engines) + 1] = e
  BY <1>1, <1>3, <1>5
<1> QED  BY <1>1, <1>4, <1>6 DEF Grown

(* One worker moves on.                                                     *)
Moves(w, new) ==
  /\ new \in WorkState(Len(engines')) /\ work' = [work EXCEPT ![w] = new]

LEMMA OneMoves ==
  ASSUME WriteInv, Grown, NEW w \in Worker, NEW new, Moves(w, new)
  PROVE  /\ work' \in [Worker -> WorkState(Len(engines'))] /\ work'[w] = new
         /\ \A v \in Worker \ {w} : work'[v] = work[v]
<1>1. work \in [Worker -> WorkState(Len(engines))]
  BY WritesTyped DEF WriteInv
<1>2. Len(engines) \in Nat /\ Len(engines') \in Nat /\ Len(engines) <= Len(engines')
  BY WritesTyped DEF WriteInv, Grown
<1>3. 0 .. Len(engines) \subseteq 0 .. Len(engines')
  BY <1>2
<1>4. WorkState(Len(engines)) \subseteq WorkState(Len(engines'))
  BY <1>3 DEF WorkState
<1> QED  BY <1>1, <1>4 DEF Moves

LEMMA TodoKept ==
  ASSUME WriteInv, Grown, driver' = driver, NEW v \in Worker, work'[v] = work[v]
  PROVE  TodoOf(v)'
<1>1. TodoOf(v)
  BY DEF WriteInv, WritesOk
<1>2. work[v].engine \in DOMAIN engines => work[v].engine \in DOMAIN engines'
  BY WritesTyped DEF WriteInv, Grown
<1>3. work[v].engine \in DOMAIN engines =>
        engines'[work[v].engine].limits = engines[work[v].engine].limits
  BY DEF Grown
<1> QED  BY <1>1, <1>2, <1>3 DEF TodoOf

LEMMA OutdatedKept ==
  ASSUME WriteInv, Grown, choices' = choices, NEW v \in Worker,
         work'[v].engine = work[v].engine, work[v].pc # "idle"
  PROVE  Outdated(v)' <=> Outdated(v)
<1>1. work[v].engine \in DOMAIN engines
  BY DEF WriteInv, WritesOk, TodoOf
<1> QED  BY <1>1 DEF Grown, Outdated

(* Settings that stay put keep what the others rely on.                     *)
LEMMA SettingsKept ==
  ASSUME WriteInv, UNCHANGED <<driver, account, present, stored, edit, choices, evicting>>
  PROVE  EditOk'
BY DEF WriteInv, EditOk, PatchesOk

LEMMA TypeKept ==
  ASSUME WriteInv, Grown, UNCHANGED <<driver, account, present, stored, edit, evicting>>,
         work' \in [Worker -> WorkState(Len(engines'))], cachedEngine' \in 0 .. Len(engines'),
         choices' \in Nat, lastToken' \in Nat, losses' \in Nat, newest' \in Nat,
         behind' \subseteq {"overlapping", "superseded", "failed", "lost"}, wrong' = {}
  PROVE  WriteBacksTypeOK'
BY DEF WriteInv, WriteBacksTypeOK, Grown, WorkState, WriteState, EngineState

(* A search or a test begins, on an engine that is there or a new one.      *)
LEMMA RebuildStep ==
  ASSUME WriteInv, NEW w \in Worker, NEW e, AskTracker(w, e), e \in DOMAIN engines',
         work[w] = NoWork,
         engines' = engines \/ engines' = BuildEngine,
         cachedEngine' \in 0 .. Len(engines'),
         UNCHANGED <<instanceVars, stored, tokenVars, wrong>>
  PROVE  WriteInv'
<1> DEFINE new == [NoWork EXCEPT !.pc = "asked", !.engine = e]
<1>1. Grown
  BY SameEngines, EnginesBuilt
<1>2. e \in 1 .. Len(engines') /\ e \in 0 .. Len(engines')
  BY <1>1 DEF Grown
<1>3. new \in WorkState(Len(engines')) /\ new.pc = "asked" /\ new.todo = <<>> /\ new.engine = e
  <2>1. <<>> \in Seq(WriteState)
    OBVIOUS
  <2>2. Len(engines') \in Nat
    BY <1>1 DEF Grown
  <2>3. NoWork \in WorkState(Len(engines')) /\ NoWork.todo = <<>>
    BY <2>1, <2>2 DEF NoWork, WorkState
  <2> QED  BY <1>2, <2>3 DEF WorkState
<1>4. work' = [work EXCEPT ![w] = new]
  BY DEF AskTracker
<1> HIDE DEF new
<1>5. /\ work' \in [Worker -> WorkState(Len(engines'))] /\ work'[w] = new
      /\ \A v \in Worker \ {w} : work'[v] = work[v]
  BY <1>1, <1>3, <1>4, OneMoves DEF Moves
<1>6. UNCHANGED <<driver, account, present, edit, losses, choices, evicting, stored, lastToken,
                  newest, behind, wrong>>
  BY DEF instanceVars, tokenVars
<1>7. WriteBacksTypeOK'
  <2>1. choices' \in Nat /\ lastToken' \in Nat /\ losses' \in Nat /\ newest' \in Nat
    BY <1>6, WritesTyped DEF WriteInv
  <2>2. behind' \subseteq {"overlapping", "superseded", "failed", "lost"} /\ wrong' = {}
    BY <1>6 DEF WriteInv, WriteBacksTypeOK
  <2> QED  BY <1>1, <1>5, <1>6, <2>1, <2>2, TypeKept
<1>8. WritesOk'
  <2>1. TodoOf(w)'
    BY <1>2, <1>3, <1>5 DEF TodoOf
  <2>2. \A v \in Worker \ {w} : TodoOf(v)'
    BY <1>1, <1>5, <1>6, TodoKept
  <2> QED  BY <2>1, <2>2 DEF WritesOk
<1>9. EditOk'
  BY <1>6, SettingsKept
<1>10. EnginesOk'
  <2>1. CASE engines' = engines
    BY <1>6, <2>1 DEF WriteInv, EnginesOk, BuiltOnLatest
  <2>2. CASE engines' = BuildEngine
    <3> DEFINE n == Len(engines) + 1
    <3>1. /\ Len(engines') = n /\ DOMAIN engines' = 1 .. n /\ DOMAIN engines = 1 .. Len(engines)
          /\ Len(engines) \in Nat
          /\ \A i \in DOMAIN engines : engines'[i] = engines[i]
          /\ engines'[n].mem = Credential /\ engines'[n].limits = readBudgetLimits
      BY <1>1, <2>2, EnginesBuilt, WritesTyped DEF Grown, WriteInv
    <3>2. \A i \in DOMAIN engines' : i = n \/ i \in DOMAIN engines
      BY <3>1
    <3>3. driver = "seeding" => engines'[n].limits = stored
      BY <3>1 DEF readBudgetLimits
    <3>4. driver = "learning" => engines'[n].mem = stored["passkey"]
      BY <3>1 DEF Credential
    <3> HIDE DEF n
    <3>5. \A i \in DOMAIN engines : BuiltOnLatest(i)' <=> BuiltOnLatest(i)
      BY <1>6, <3>1 DEF BuiltOnLatest
    <3>6. EnginesOk
      BY DEF WriteInv
    <3>7. driver' # "seeding" => \A i \in SeededNames : stored'[i] = 0
      BY <1>6, <3>6 DEF EnginesOk
    <3>8. ASSUME NEW i \in DOMAIN engines', BuiltOnLatest(i)', driver' = "seeding",
                 NEW s \in SeededNames, stored'[s] = Typed
          PROVE  engines'[i].limits[s] = Typed
      BY <1>6, <3>1, <3>2, <3>3, <3>5, <3>6, <3>8 DEF EnginesOk
    <3>9. ASSUME NEW i \in DOMAIN engines', BuiltOnLatest(i)', driver' = "learning", present',
                 engines'[i].mem # 0
          PROVE  stored'["passkey"] # 0
      BY <1>6, <3>1, <3>2, <3>4, <3>5, <3>6, <3>9 DEF EnginesOk
    <3>10. \A i \in DOMAIN engines' : engines'[i].built <= choices'
      <4>1. engines'[n].built = choices /\ choices \in Nat
        BY <2>2, EnginesBuilt, WritesTyped DEF n, WriteInv
      <4> QED  BY <1>6, <3>1, <3>2, <3>6, <4>1 DEF EnginesOk
    <3> QED  BY <3>7, <3>8, <3>9, <3>10 DEF EnginesOk
  <2> QED  BY <2>1, <2>2
<1>11. \A v \in Worker : work'[v].pc = "persist" =>
         v # w /\ work'[v] = work[v] /\ (Outdated(v)' <=> Outdated(v))
  <2>1. \A v \in Worker : work'[v].pc = "persist" => v # w /\ work'[v] = work[v]
    BY <1>3, <1>5
  <2>2. ASSUME NEW v \in Worker, work'[v].pc = "persist" PROVE Outdated(v)' <=> Outdated(v)
    BY <1>1, <1>6, <2>1, <2>2, OutdatedKept
  <2> QED  BY <2>1, <2>2

<1>12. RotatedOk'
  <2>1. (\A v \in Worker : work'[v].pc # "persist") => \A v \in Worker : work[v].pc # "persist"
    BY <1>5 DEF NoWork
  <2> QED  BY <1>6, <1>11, <2>1 DEF WriteInv, RotatedOk
<1>13. MarksOk' /\ wrong' = {} /\ SeedMarked'
  BY <1>6, <1>11 DEF WriteInv, MarksOk, SeedMarked
<1> QED  BY <1>7, <1>8, <1>9, <1>10, <1>12, <1>13 DEF WriteInv

LEMMA SearchStep ==
  ASSUME WriteInv, NEW w \in Worker, Search(w) \/ Test(w)
  PROVE  WriteInv'
<1>1. /\ Len(engines) \in Nat /\ DOMAIN engines = 1 .. Len(engines)
      /\ cachedEngine \in 0 .. Len(engines)
  BY WritesTyped DEF WriteInv
<1>2. engines' = BuildEngine => /\ Len(engines') = Len(engines) + 1
                                /\ DOMAIN engines' = 1 .. Len(engines) + 1
  BY EnginesBuilt DEF Grown
<1>3. CASE Search(w) /\ cachedEngine = 0
  <2>1. engines' = BuildEngine /\ cachedEngine' = Len(engines')
    BY <1>3 DEF Search
  <2>2. cachedEngine' \in DOMAIN engines' /\ cachedEngine' \in 0 .. Len(engines')
    BY <1>1, <1>2, <2>1
  <2> QED  BY <1>3, <2>1, <2>2, RebuildStep DEF Search
<1>4. CASE Search(w) /\ cachedEngine # 0
  <2>1. engines' = engines /\ cachedEngine' = cachedEngine
    BY <1>4 DEF Search
  <2>2. cachedEngine' \in DOMAIN engines' /\ cachedEngine' \in 0 .. Len(engines')
    BY <1>1, <1>4, <2>1
  <2> QED  BY <1>4, <2>1, <2>2, RebuildStep DEF Search
<1>5. CASE Test(w)
  <2>1. engines' = BuildEngine /\ cachedEngine' = cachedEngine
    BY <1>5 DEF Test
  <2>2. Len(engines') \in DOMAIN engines' /\ cachedEngine' \in 0 .. Len(engines')
    BY <1>1, <1>2, <2>1
  <2> QED  BY <1>5, <2>1, <2>2, RebuildStep DEF Test
<1> QED  BY <1>3, <1>4, <1>5

-----------------------------------------------------------------------------
(* A worker that asked has its answer, and its writes.                      *)
Continued(w, writes) ==
  IF writes = <<>> THEN NoWork ELSE [work[w] EXCEPT !.pc = "persist", !.todo = writes]

LEMMA ContinueFacts ==
  ASSUME WriteInv, NEW w \in Worker, NEW writes \in Seq(WriteState), Continue(w, writes), Grown
  PROVE  /\ Moves(w, Continued(w, writes))
         /\ writes = <<>> => Continued(w, writes) = NoWork
         /\ writes # <<>> =>
              /\ Continued(w, writes).pc = "persist" /\ Continued(w, writes).todo = writes
              /\ Continued(w, writes).engine = work[w].engine
<1>1. work[w] \in WorkState(Len(engines))
      /\ Len(engines) \in Nat /\ Len(engines') \in Nat /\ Len(engines) <= Len(engines')
      /\ work \in [Worker -> WorkState(Len(engines))]
  BY WritesTyped DEF WriteInv, Grown
<1>2. 0 .. Len(engines) \subseteq 0 .. Len(engines') /\ 0 \in 0 .. Len(engines')
  BY <1>1
<1>3. NoWork \in WorkState(Len(engines'))
  BY <1>2 DEF NoWork, WorkState
<1>4. writes # <<>> => Continued(w, writes) \in WorkState(Len(engines'))
  BY <1>1, <1>2 DEF Continued, WorkState
<1>5. work' = [work EXCEPT ![w] = Continued(w, writes)]
  BY <1>1 DEF Continue, Continued
<1>6. writes # <<>> =>
        /\ Continued(w, writes).pc = "persist" /\ Continued(w, writes).todo = writes
        /\ Continued(w, writes).engine = work[w].engine
  BY <1>1 DEF Continued, WorkState
<1> QED  BY <1>3, <1>4, <1>5, <1>6 DEF Moves, Continued

LEMMA SeedPair ==
  ASSUME WriteBacksTypeOK, NEW limits \in [Name -> Nat], NEW cap \in Cap
  PROVE  /\ seedLimit(limits, cap) \in Seq(WriteState) /\ SeedsOf(limits, seedLimit(limits, cap))
         /\ seedLimit(limits, cap) # <<>> => Head(seedLimit(limits, cap)).name \in Marks
<1> DEFINE a == Write(Mark(cap), Found)
           b == Write(cap, account[cap])
<1>1. account[cap] \in {0, Found} /\ Found = 1 /\ limits[cap] \in Nat
      /\ Mark(cap) \in Marks /\ Mark(cap) \in Name /\ cap \in Name
  BY NameFacts, WritesTyped DEF Found
<1>2. CASE shouldSeed(limits[cap], account[cap])
  <2>1. account[cap] = Found /\ limits[cap] = 0
    BY <1>1, <1>2 DEF shouldSeed
  <2>2. a \in WriteState /\ b \in WriteState
    BY <1>1, <2>1 DEF WriteState, Write
  <2>3. a.name = Mark(cap) /\ a.value = Found /\ b.name = cap /\ b.value = Found
    BY <2>1 DEF Write
  <2>4. seedLimit(limits, cap) = <<a, b>>
    BY <1>2 DEF seedLimit
  <2> HIDE DEF a, b
  <2>5. <<a, b>> \in Seq(WriteState) /\ Head(<<a, b>>) = a /\ <<a, b>> # <<>>
    BY <2>2
  <2>6. DOMAIN <<a, b>> = {1, 2} /\ <<a, b>>[1] = a /\ <<a, b>>[2] = b
    BY <2>2
  <2>7. \A i \in {1, 2} : i = 1 \/ i = 2
    OBVIOUS
  <2>8. Mark(cap) \notin SeededNames /\ cap \in SeededNames /\ cap \notin Marks
    BY <1>1, NameFacts
  <2>9. SeedsOf(limits, <<a, b>>)
    <3> DEFINE s == <<a, b>>
    <3>1. DOMAIN s = {1, 2} /\ s[1] = a /\ s[2] = b
      BY <2>6
    <3> HIDE DEF s
    <3>2. SeedsOf(limits, s)
      BY <1>1, <2>1, <2>3, <2>8, <3>1 DEF SeedsOf
    <3> QED  BY <3>2 DEF s
  <2> QED  BY <1>1, <2>3, <2>4, <2>5, <2>9
<1>3. CASE ~shouldSeed(limits[cap], account[cap])
  BY <1>3 DEF seedLimit, SeedsOf
<1> QED  BY <1>2, <1>3

LEMMA SeedsJoined ==
  ASSUME NEW limits, NEW s \in Seq(WriteState), NEW t \in Seq(WriteState),
         SeedsOf(limits, s), SeedsOf(limits, t),
         t # <<>> => Head(t).name \notin Cap
  PROVE  /\ s \o t \in Seq(WriteState) /\ SeedsOf(limits, s \o t)
         /\ s # <<>> => Head(s \o t) = Head(s)
         /\ s = <<>> => s \o t = t
<1> DEFINE u == s \o t
           n == Len(s)
<1>1. /\ u \in Seq(WriteState) /\ n \in Nat /\ Len(t) \in Nat /\ Len(u) = n + Len(t)
      /\ DOMAIN s = 1 .. n /\ DOMAIN t = 1 .. Len(t) /\ DOMAIN u = 1 .. n + Len(t)
      /\ \A i \in 1 .. n : u[i] = s[i]
      /\ \A i \in 1 .. Len(t) : u[n + i] = t[i]
  BY ConcatProperties
<1>2. s = <<>> => u = t
  OBVIOUS
<1>3. s # <<>> => Head(u) = Head(s)
  BY <1>1
<1>4. t # <<>> => t[1].name \notin Cap
  OBVIOUS
<1> HIDE DEF u, n
<1>5. SeedsOf(limits, u)
  <2> SUFFICES ASSUME NEW i \in DOMAIN u
               PROVE  /\ u[i].name \in SeededNames \cup Marks /\ u[i].value = Found
                      /\ u[i].name \in SeededNames => limits[u[i].name] = 0
                      /\ u[i].name \in Marks =>
                           /\ i + 1 \in DOMAIN u /\ u[i + 1].name \in Cap
                           /\ u[i].name = Mark(u[i + 1].name)
                      /\ u[i].name \in Cap /\ i # 1 => u[i - 1].name = Mark(u[i].name)
    BY DEF SeedsOf
  <2>1. CASE i <= n
    <3>1. i \in DOMAIN s /\ u[i] = s[i]
      BY <1>1, <2>1
    <3>2. i # 1 => i - 1 \in 1 .. n /\ u[i - 1] = s[i - 1]
      BY <1>1, <2>1
    <3>3. i + 1 \in DOMAIN s => i + 1 \in DOMAIN u /\ u[i + 1] = s[i + 1]
      BY <1>1
    <3> QED  BY <3>1, <3>2, <3>3 DEF SeedsOf
  <2>2. CASE i > n
    <3> DEFINE j == i - n
    <3>1. j \in DOMAIN t /\ u[i] = t[j] /\ i \in Nat /\ j \in Nat
      BY <1>1, <2>2
    <3>2. j + 1 \in DOMAIN t => i + 1 \in DOMAIN u /\ u[i + 1] = t[j + 1]
      BY <1>1, <3>1
    <3>3. j # 1 => u[i - 1] = t[j - 1]
      <4>1. j \in 1 .. Len(t) /\ j \in Nat /\ n \in Nat /\ i \in Nat /\ i = n + j
        BY <1>1, <3>1
      <4> HIDE DEF j
      <4>2. j # 1 => j - 1 \in 1 .. Len(t) /\ n + (j - 1) = i - 1
        BY <1>1, <4>1
      <4> QED  BY <1>1, <4>2
    <3>4. t # <<>>
      BY <1>1, <3>1
    <3> HIDE DEF j
    <3>5. j = 1 => u[i].name \notin Cap
      BY <1>4, <3>1, <3>4
    <3> QED  BY <3>1, <3>2, <3>3, <3>5 DEF SeedsOf
  <2> QED  BY <1>1, <2>1, <2>2
<1> QED  BY <1>1, <1>2, <1>3, <1>5 DEF u

LEMMA SeedUnit ==
  ASSUME NEW limits, limits["unit"] = 0, NEW s \in Seq(WriteState), SeedsOf(limits, s)
  PROVE  LET u == Append(s, Write("unit", Found)) IN
         u \in Seq(WriteState) /\ SeedsOf(limits, u) /\ (s # <<>> => Head(u) = Head(s))
<1> DEFINE e == Write("unit", Found)
           t == <<e>>
<1>1. e \in WriteState /\ e.name = "unit" /\ e.value = Found
  BY NameFacts DEF Write, WriteState, Found
<1> HIDE DEF e
<1>2. /\ t \in Seq(WriteState) /\ DOMAIN t = {1} /\ t[1] = e /\ Head(t) = e
      /\ Append(s, e) = s \o t
  BY <1>1, AppendIsConcat
<1>3. "unit" \in SeededNames /\ "unit" \notin Marks /\ "unit" \notin Cap
  BY NameFacts
<1> HIDE DEF t
<1>4. SeedsOf(limits, t)
  BY <1>1, <1>2, <1>3 DEF SeedsOf
<1>5. s \o t \in Seq(WriteState) /\ SeedsOf(limits, s \o t) /\ (s # <<>> => Head(s \o t) = Head(s))
  BY <1>1, <1>2, <1>3, <1>4, SeedsJoined
<1> QED  BY <1>2, <1>5 DEF e

LEMMA SeedBudgetFacts ==
  ASSUME WriteBacksTypeOK, NEW limits \in [Name -> Nat]
  PROVE  /\ seedBudget(limits) \in Seq(WriteState) /\ SeedsOf(limits, seedBudget(limits))
         /\ seedBudget(limits) # <<>> => Head(seedBudget(limits)).name \notin Cap
<1> DEFINE a == seedLimit(limits, "query")
           b == seedLimit(limits, "grab")
           seeds == a \o b
<1>1. /\ a \in Seq(WriteState) /\ b \in Seq(WriteState)
      /\ SeedsOf(limits, a) /\ SeedsOf(limits, b)
      /\ a # <<>> => Head(a).name \in Marks
      /\ b # <<>> => Head(b).name \in Marks
  BY NameFacts, SeedPair
<1>2. Marks \cap Cap = {}
  BY NameFacts
<1>3. limits["unit"] \in Nat
  BY NameFacts
<1>4. seedBudget(limits) = IF seeds = <<>> \/ limits["unit"] # 0 THEN seeds
                           ELSE Append(seeds, Write("unit", Found))
  BY DEF seedBudget
<1> HIDE DEF a, b
<1>5. seeds \in Seq(WriteState) /\ SeedsOf(limits, seeds)
  BY <1>1, <1>2, SeedsJoined
<1>6. seeds # <<>> => Head(seeds).name \in Marks
  <2>1. a # <<>> => Head(seeds) = Head(a)
    BY <1>1, <1>2, SeedsJoined
  <2>2. a = <<>> => seeds = b
    BY <1>1, <1>2, SeedsJoined
  <2> QED  BY <1>1, <2>1, <2>2
<1> HIDE DEF seeds
<1>7. CASE seeds = <<>> \/ limits["unit"] # 0
  BY <1>2, <1>4, <1>5, <1>6, <1>7
<1>8. CASE seeds # <<>> /\ limits["unit"] = 0
  BY <1>2, <1>4, <1>5, <1>6, <1>8, SeedUnit
<1> QED  BY <1>3, <1>7, <1>8

LEMMA SeedsLeft ==
  ASSUME NEW limits, NEW s \in Seq(WriteState), s # <<>>, SeedsOf(limits, s)
  PROVE  /\ Tail(s) \in Seq(WriteState) /\ SeedsOf(limits, Tail(s))
         /\ Head(s).name \in SeededNames \cup Marks /\ Head(s).value = Found
         /\ Head(s).name \in SeededNames => limits[Head(s).name] = 0
         /\ Head(s).name \in Marks =>
              /\ Tail(s) # <<>> /\ Head(Tail(s)).name \in Cap
              /\ Head(s).name = Mark(Head(Tail(s)).name)
         /\ Tail(s) # <<>> /\ Head(Tail(s)).name \in Cap =>
              Head(s).name = Mark(Head(Tail(s)).name)
<1> DEFINE t == Tail(s)
<1>1. /\ t \in Seq(WriteState) /\ Len(s) \in Nat \ {0} /\ Len(t) = Len(s) - 1 /\ Head(s) = s[1]
      /\ DOMAIN s = 1 .. Len(s) /\ DOMAIN t = 1 .. Len(s) - 1
      /\ \A i \in DOMAIN t : t[i] = s[i + 1]
      /\ t # <<>> => Head(t) = s[2] /\ Len(s) >= 2
      /\ Len(s) >= 2 => t # <<>>
  OBVIOUS
<1> HIDE DEF t
<1>2. 1 \in DOMAIN s
  BY <1>1
<1>3. SeedsOf(limits, t)
  <2> SUFFICES ASSUME NEW i \in DOMAIN t
               PROVE  /\ t[i].name \in SeededNames \cup Marks /\ t[i].value = Found
                      /\ t[i].name \in SeededNames => limits[t[i].name] = 0
                      /\ t[i].name \in Marks =>
                           /\ i + 1 \in DOMAIN t /\ t[i + 1].name \in Cap
                           /\ t[i].name = Mark(t[i + 1].name)
                      /\ t[i].name \in Cap /\ i # 1 => t[i - 1].name = Mark(t[i].name)
    BY DEF SeedsOf
  <2>1. i \in Nat /\ i + 1 \in DOMAIN s /\ t[i] = s[i + 1] /\ i + 1 # 1
    BY <1>1
  <2>2. (i + 1) + 1 \in DOMAIN s => i + 1 \in DOMAIN t /\ t[i + 1] = s[(i + 1) + 1]
    BY <1>1, <2>1
  <2>3. i # 1 => t[i - 1] = s[(i + 1) - 1]
    <3>1. i # 1 => i - 1 \in DOMAIN t /\ (i - 1) + 1 = (i + 1) - 1
      BY <1>1, <2>1
    <3> QED  BY <1>1, <3>1
  <2> QED  BY <2>1, <2>2, <2>3 DEF SeedsOf
<1>4. Head(s).name \in Marks => 2 \in DOMAIN s /\ s[2].name \in Cap /\ s[1].name = Mark(s[2].name)
  BY <1>1, <1>2 DEF SeedsOf
<1>5. 2 \in DOMAIN s => Len(s) >= 2
  BY <1>1
<1>6. t # <<>> /\ Head(t).name \in Cap => Head(s).name = Mark(Head(t).name)
  <2>1. t # <<>> => 2 \in DOMAIN s /\ 2 - 1 = 1 /\ 2 # 1
    BY <1>1
  <2> QED  BY <1>1, <2>1 DEF SeedsOf
<1>7. /\ Head(s).name \in SeededNames \cup Marks /\ Head(s).value = Found
      /\ Head(s).name \in SeededNames => limits[Head(s).name] = 0
  BY <1>1, <1>2 DEF SeedsOf
<1> QED  BY <1>1, <1>3, <1>4, <1>5, <1>6, <1>7 DEF t

(* A worker is done with one thing and has these writes left, of which the   *)
(* first is no cap: nothing is written.                                     *)
LEMMA ContinueStep ==
  ASSUME WriteInv, NEW w \in Worker, work[w].pc # "idle", NEW writes \in Seq(WriteState),
         Continue(w, writes), engines' = engines,
         UNCHANGED <<instanceVars, stored, cachedEngine, lastToken, newest, wrong>>,
         behind' = behind \/ behind' = behind \cup {"failed"},
         driver = "rotating" => writes = <<>> /\ (work[w].pc = "persist" => behind' # {}),
         driver = "learning" => writes = <<>> \/ writes = <<Write("passkey", Found)>>,
         driver = "seeding" => SeedsOf(engines[work[w].engine].limits, writes),
         writes # <<>> => Head(writes).name \notin Cap
  PROVE  WriteInv'
<1> DEFINE new == Continued(w, writes)
<1>1. Grown
  BY SameEngines
<1>2. /\ Moves(w, new)
      /\ writes = <<>> => new = NoWork
      /\ writes # <<>> => new.pc = "persist" /\ new.todo = writes /\ new.engine = work[w].engine
  BY <1>1, ContinueFacts
<1> HIDE DEF new
<1>3. /\ work' \in [Worker -> WorkState(Len(engines'))] /\ work'[w] = new
      /\ \A v \in Worker \ {w} : work'[v] = work[v]
  BY <1>1, <1>2, OneMoves
<1>4. UNCHANGED <<driver, account, present, edit, losses, choices, evicting, stored, cachedEngine,
                  lastToken, newest, wrong>>
  BY DEF instanceVars
<1>5. WriteBacksTypeOK'
  <2>1. choices' \in Nat /\ lastToken' \in Nat /\ losses' \in Nat /\ newest' \in Nat
        /\ cachedEngine' \in 0 .. Len(engines')
    BY <1>4, WritesTyped DEF WriteInv
  <2>2. behind' \subseteq {"overlapping", "superseded", "failed", "lost"} /\ wrong' = {}
    BY <1>4 DEF WriteInv, WriteBacksTypeOK
  <2> QED  BY <1>1, <1>3, <1>4, <2>1, <2>2, TypeKept
<1>6. WritesOk'
  <2>1. TodoOf(w)'
    <3>1. TodoOf(w)
      BY DEF WriteInv, WritesOk
    <3>2. CASE writes = <<>>
      BY <1>2, <1>3, <3>2 DEF TodoOf, NoWork
    <3>3. CASE writes # <<>>
      BY <1>2, <1>3, <1>4, <3>1, <3>3 DEF TodoOf
    <3> QED  BY <3>2, <3>3
  <2>2. \A v \in Worker \ {w} : TodoOf(v)'
    BY <1>1, <1>3, <1>4, TodoKept
  <2> QED  BY <2>1, <2>2 DEF WritesOk
<1>7. EditOk'
  BY <1>4, SettingsKept
<1>8. EnginesOk'
  BY <1>4 DEF WriteInv, EnginesOk, BuiltOnLatest
<1>9. \A v \in Worker \ {w} : work'[v].pc = "persist" =>
         work'[v] = work[v] /\ (Outdated(v)' <=> Outdated(v))
  BY <1>1, <1>3, <1>4, OutdatedKept
<1>10. RotatedOk'
  <2>1. SUFFICES ASSUME driver = "rotating", behind' = {} PROVE RotatedOk'
    BY <1>4 DEF RotatedOk
  <2>2. behind = {} /\ work[w].pc # "persist" /\ work'[w].pc # "persist"
    BY <1>2, <1>3, <2>1 DEF NoWork
  <2>3. (\A v \in Worker : work'[v].pc # "persist") => \A v \in Worker : work[v].pc # "persist"
    BY <1>3, <2>2
  <2> QED  BY <1>4, <1>9, <2>1, <2>2, <2>3 DEF WriteInv, RotatedOk
<1>11. MarksOk'
  BY <1>2, <1>3, <1>4, <1>9 DEF WriteInv, MarksOk, NoWork
<1>12. wrong' = {} /\ SeedMarked'
  BY <1>4 DEF WriteInv, SeedMarked
<1> QED  BY <1>5, <1>6, <1>7, <1>8, <1>10, <1>11, <1>12 DEF WriteInv

LEMMA LearnSteps ==
  ASSUME WriteInv, NEW w \in Worker, LearnPasskey(w) \/ SeedBudget(w) \/ NothingLearned(w)
  PROVE  WriteInv'
<1>1. UNCHANGED <<instanceVars, stored, engines, cachedEngine, tokenVars, wrong>>
      /\ work[w].pc = "asked"
  BY DEF LearnPasskey, SeedBudget, NothingLearned
<1>2. UNCHANGED <<lastToken, newest, behind>>
  BY <1>1 DEF tokenVars
<1>3. CASE LearnPasskey(w)
  <2> DEFINE e == Write("passkey", Found)
  <2>1. e \in WriteState /\ e.name = "passkey"
    BY NameFacts DEF Write, WriteState, Found
  <2>2. driver = "learning" /\ Continue(w, <<e>>)
    BY <1>3 DEF LearnPasskey
  <2> HIDE DEF e
  <2>3. <<e>> \in Seq(WriteState) /\ Head(<<e>>) = e /\ "passkey" \notin Cap
    BY <2>1, NameFacts
  <2> QED  BY <1>1, <1>2, <2>1, <2>2, <2>3, ContinueStep DEF e
<1>4. CASE SeedBudget(w)
  <2> DEFINE l == engines[work[w].engine].limits
             b == seedBudget(l)
  <2>1. l \in [Name -> Nat]
    BY <1>1, WritesTyped DEF WriteInv, WritesOk, TodoOf
  <2>2. driver = "seeding" /\ Continue(w, b)
    BY <1>4 DEF SeedBudget
  <2>3. b \in Seq(WriteState) /\ SeedsOf(l, b) /\ (b # <<>> => Head(b).name \notin Cap)
    BY <2>1, SeedBudgetFacts DEF WriteInv
  <2> HIDE DEF b
  <2> QED  BY <1>1, <1>2, <2>2, <2>3, ContinueStep
<1>5. CASE NothingLearned(w)
  <2>1. Continue(w, <<>>) /\ <<>> \in Seq(WriteState)
    BY <1>5 DEF NothingLearned
  <2>2. \A l : SeedsOf(l, <<>>)
    BY DEF SeedsOf
  <2> QED  BY <1>1, <1>2, <2>1, <2>2, ContinueStep
<1> QED  BY <1>3, <1>4, <1>5

LEMMA PersistFailsStep ==
  ASSUME WriteInv, NEW w \in Worker, PersistFails(w)
  PROVE  WriteInv'
<1> DEFINE s == work[w].todo
           l == engines[work[w].engine].limits
           rest == IF Head(s).name \in Marks THEN Tail(Tail(s)) ELSE Tail(s)
           left == IF ~work[w].seeded /\ rest # <<>> /\ Head(rest).name = "unit" THEN <<>> ELSE rest
<1>1. /\ work[w].pc = "persist" /\ Continue(w, left)
      /\ UNCHANGED <<instanceVars, stored, engines, cachedEngine, lastToken, newest, wrong>>
      /\ behind' = IF Pending(w) THEN behind \cup {"failed"} ELSE behind
  BY DEF PersistFails, AfterFailure, Marks
<1>2. /\ s \in Seq(WriteState) /\ s # <<>>
      /\ driver = "rotating" => \E v \in Nat : s = <<Write("token", v)>>
      /\ driver = "learning" => s = <<Write("passkey", Found)>>
      /\ driver = "seeding" => SeedsOf(l, s)
      /\ driver \in {"rotating", "seeding", "learning"}
  BY <1>1, WritesTyped DEF WriteInv, WritesOk, TodoOf, WriteBacksTypeOK
<1>3. behind' = behind \/ behind' = behind \cup {"failed"}
  BY <1>1
<1>4. driver = "rotating" => behind' # {}
  <2>1. driver = "rotating" => Pending(w)
    BY <1>1, PendingFacts
  <2> QED  BY <1>1, <2>1
<1> DEFINE empty == <<>>
<1>9. empty \in Seq(WriteState) /\ (\A x : SeedsOf(x, empty)) /\ left \in {empty, rest}
      /\ (left = <<>> <=> left = empty)
  BY DEF SeedsOf
<1>5. driver # "seeding" => left = <<>>
  <2>1. driver # "seeding" => Tail(s) = <<>> /\ Head(s).name \in {"token", "passkey"}
    <3>1. \A e : Tail(<<e>>) = <<>> /\ Head(<<e>>) = e
      OBVIOUS
    <3>2. CASE driver = "rotating"
      <4>1. PICK v \in Nat : s = <<Write("token", v)>>
        BY <1>2, <3>2
      <4> QED  BY <3>1, <4>1 DEF Write
    <3>3. CASE driver = "learning"
      <4>1. s = <<Write("passkey", Found)>>
        BY <1>2, <3>3
      <4> QED  BY <3>1, <4>1 DEF Write
    <3> QED  BY <1>2, <3>2, <3>3
  <2>2. {"token", "passkey"} \cap Marks = {}
    BY NameFacts
  <2> QED  BY <2>1, <2>2
<1>6. left \in Seq(WriteState)
      /\ (driver = "seeding" => SeedsOf(l, left) /\ (left # <<>> => Head(left).name \notin Cap))
  <2> HIDE DEF left, empty
  <2>1. CASE driver # "seeding"
    BY <1>5, <1>9, <2>1
  <2>2. CASE driver = "seeding"
    <3>1. /\ Tail(s) \in Seq(WriteState) /\ SeedsOf(l, Tail(s))
          /\ Head(s).name \in Marks => Tail(s) # <<>> /\ Head(Tail(s)).name \in Cap
          /\ Tail(s) # <<>> /\ Head(Tail(s)).name \in Cap =>
               Head(s).name = Mark(Head(Tail(s)).name)
      BY <1>2, <2>2, SeedsLeft
    <3>2. CASE Head(s).name \in Marks
      <4> DEFINE t == Tail(s)
      <4>1. t \in Seq(WriteState) /\ t # <<>> /\ SeedsOf(l, t) /\ Head(t).name \in Cap
        BY <3>1, <3>2
      <4> HIDE DEF t
      <4>2. /\ Tail(t) \in Seq(WriteState) /\ SeedsOf(l, Tail(t))
            /\ Tail(t) # <<>> /\ Head(Tail(t)).name \in Cap => Head(t).name = Mark(Head(Tail(t)).name)
        BY <4>1, SeedsLeft
      <4>3. Tail(t) # <<>> => Head(Tail(t)).name \notin Cap
        BY <4>1, <4>2, NameFacts
      <4>4. rest = Tail(t)
        BY <3>2 DEF t
      <4> QED  BY <1>9, <2>2, <4>2, <4>3, <4>4
    <3>3. CASE Head(s).name \notin Marks
      <4>1. Tail(s) # <<>> => Head(Tail(s)).name \notin Cap
        BY <3>1, <3>3, NameFacts
      <4>2. rest = Tail(s)
        BY <3>3
      <4> QED  BY <1>9, <2>2, <3>1, <4>1, <4>2
    <3> QED  BY <3>2, <3>3
  <2> QED  BY <2>1, <2>2
<1>7. work[w].pc # "idle"
  BY <1>1
<1> HIDE DEF left
<1>8. left # <<>> => Head(left).name \notin Cap
  BY <1>5, <1>6
<1> QED  BY <1>1, <1>3, <1>4, <1>5, <1>6, <1>7, <1>8, ContinueStep

(* A token comes up; the driver has it, and will store it.                  *)
LEMMA CaptureStep ==
  ASSUME WriteInv, NEW w \in Worker, captureRotatedMamID(w)
  PROVE  WriteInv'
<1> DEFINE e == Write("token", lastToken')
           new == Continued(w, <<e>>)
<1>1. /\ driver = "rotating" /\ work[w].pc = "asked" /\ lastToken' = lastToken + 1
      /\ newest' = lastToken' /\ engines' = [engines EXCEPT ![work[w].engine].mem = lastToken']
      /\ Continue(w, <<e>>)
      /\ behind' = behind \cup IF Quiet THEN {} ELSE {"overlapping"}
      /\ UNCHANGED <<instanceVars, stored, cachedEngine, wrong>>
  BY DEF captureRotatedMamID
<1>2. UNCHANGED <<driver, account, present, edit, losses, choices, evicting, stored, cachedEngine,
                  wrong>>
  BY <1>1 DEF instanceVars
<1>3. lastToken' \in Nat /\ newest' \in Nat
  BY <1>1, WritesTyped DEF WriteInv
<1>4. Grown
  <2>1. engines \in Seq(EngineState) /\ \A i \in DOMAIN engines : engines[i] \in EngineState
        /\ Len(engines) \in Nat /\ DOMAIN engines = 1 .. Len(engines)
    BY WritesTyped DEF WriteInv
  <2> DEFINE i == work[w].engine
             g == [engines[i] EXCEPT !.mem = lastToken']
  <2>2. i \in DOMAIN engines
    BY <1>1 DEF WriteInv, WritesOk, TodoOf
  <2>3. g \in EngineState /\ g.limits = engines[i].limits /\ g.built = engines[i].built
    BY <1>3, <2>1, <2>2 DEF EngineState
  <2>4. engines' = [engines EXCEPT ![i] = g]
    BY <1>1
  <2> HIDE DEF g, i
  <2>5. engines' \in Seq(EngineState) /\ Len(engines') = Len(engines)
        /\ DOMAIN engines' = DOMAIN engines
        /\ \A j \in DOMAIN engines : engines'[j] = IF j = i THEN g ELSE engines[j]
    BY <2>1, <2>2, <2>3, <2>4, ExceptSeq
  <2> QED  BY <2>1, <2>2, <2>3, <2>5 DEF Grown
<1>5. <<e>> \in Seq(WriteState) /\ <<e>> # <<>> /\ Head(<<e>>).value = lastToken'
  <2>1. e \in WriteState /\ e.value = lastToken'
    BY <1>3, NameFacts DEF Write, WriteState
  <2> HIDE DEF e
  <2> QED  BY <2>1
<1>6. Moves(w, new) /\ new.pc = "persist" /\ new.todo = <<e>> /\ new.engine = work[w].engine
  BY <1>1, <1>4, <1>5, ContinueFacts
<1> HIDE DEF new
<1>7. /\ work' \in [Worker -> WorkState(Len(engines'))] /\ work'[w] = new
      /\ \A v \in Worker \ {w} : work'[v] = work[v]
  BY <1>4, <1>6, OneMoves
<1>8. WriteBacksTypeOK'
  <2>1. choices' \in Nat /\ losses' \in Nat /\ cachedEngine' \in 0 .. Len(engines')
    BY <1>2, <1>4, WritesTyped DEF WriteInv, Grown
  <2>2. behind' \subseteq {"overlapping", "superseded", "failed", "lost"} /\ wrong' = {}
    BY <1>1, <1>2 DEF WriteInv, WriteBacksTypeOK
  <2> QED  BY <1>2, <1>3, <1>4, <1>7, <2>1, <2>2, TypeKept
<1>9. WritesOk'
  <2>1. TodoOf(w)'
    <3>1. work[w].engine \in DOMAIN engines'
      <4>1. work[w].engine \in DOMAIN engines
        BY <1>1 DEF WriteInv, WritesOk, TodoOf
      <4> QED  BY <1>4, <4>1, WritesTyped DEF Grown, WriteInv
    <3> QED  BY <1>1, <1>2, <1>3, <1>5, <1>6, <1>7, <3>1 DEF TodoOf
  <2>2. \A v \in Worker \ {w} : TodoOf(v)'
    BY <1>2, <1>4, <1>7, TodoKept
  <2> QED  BY <2>1, <2>2 DEF WritesOk
<1>10. EditOk'
  BY <1>2, SettingsKept
<1>11. EnginesOk'
  BY <1>1, <1>2 DEF WriteInv, EnginesOk
<1>12. RotatedOk'
  <2>1. SUFFICES ASSUME behind' = {} PROVE RotatedOk'
    BY DEF RotatedOk
  <2>2. Quiet
    BY <1>1, <2>1
  <2>3. \A v \in Worker \ {w} : work'[v].pc # "persist"
    BY <1>1, <1>7, <2>2, PendingFacts
  <2> QED  BY <1>1, <1>5, <1>6, <1>7, <2>3 DEF RotatedOk
<1>13. MarksOk' /\ wrong' = {}
  <2>1. \A v \in Worker : work'[v].pc = "persist" => Head(work'[v].todo).name = "token"
    <3>1. \A u : Head(<<u>>) = u
      OBVIOUS
    <3>2. ASSUME NEW v \in Worker, work'[v].pc = "persist"
          PROVE  \E t \in Nat : work'[v].todo = <<Write("token", t)>>
      BY <1>1, <1>2, <1>9, <3>2 DEF WritesOk, TodoOf
    <3>3. \A t : Write("token", t).name = "token"
      BY DEF Write
    <3> QED  BY <3>1, <3>2, <3>3
  <2> QED  BY <1>2, <2>1, NameFacts DEF WriteInv, MarksOk
<1>14. SeedMarked'
  BY <1>1, <1>2 DEF WriteInv, SeedMarked
<1> QED  BY <1>8, <1>9, <1>10, <1>11, <1>12, <1>13, <1>14 DEF WriteInv

-----------------------------------------------------------------------------
(* One write of a driver.                                                   *)
LEMMA PersistStep ==
  ASSUME WriteInv, NEW w \in Worker, PersistSetting(w)
  PROVE  WriteInv'
<1> DEFINE s == work[w].todo
           write == Head(s)
           rest == Tail(s)
           l == engines[work[w].engine].limits
           new == IF rest = <<>> THEN NoWork
                  ELSE [work[w] EXCEPT !.todo = rest, !.seeded = @ \/ write.name \in Cap]
<1>1. /\ work[w].pc = "persist" /\ edit = NoEdit /\ present
      /\ stored' = [stored EXCEPT ![write.name] = write.value]
      /\ engines' = IF write.name = "passkey"
                      THEN [engines EXCEPT ![work[w].engine].mem = write.value] ELSE engines
      /\ wrong' = IF write.name \in Cap \cup {"unit"} /\ stored[write.name] = Typed
                     /\ ~Outdated(w)
                    THEN wrong \cup {write.name} ELSE wrong
      /\ behind' = IF Outdated(w) THEN behind \cup {"superseded"}
                   ELSE IF write.name = "token" /\ write.value = newest
                           /\ \A v \in Worker \ {w} : ~Pending(v)
                     THEN {} ELSE behind
      /\ UNCHANGED <<instanceVars, cachedEngine, lastToken, newest>>
  BY DEF PersistSetting, DbFree
<1>2. work' = [work EXCEPT ![w] = new]
  BY DEF PersistSetting
<1>3. /\ s \in Seq(WriteState) /\ s # <<>>
      /\ driver = "rotating" => \E v \in Nat : s = <<Write("token", v)>>
      /\ driver = "learning" => s = <<Write("passkey", Found)>>
      /\ driver = "seeding" => SeedsOf(l, s)
      /\ driver \in {"rotating", "seeding", "learning"}
      /\ work[w].engine \in DOMAIN engines
  BY <1>1, WritesTyped DEF WriteInv, WritesOk, TodoOf, WriteBacksTypeOK
<1>4. UNCHANGED <<driver, account, present, edit, losses, choices, evicting, cachedEngine,
                  lastToken, newest>>
  BY <1>1 DEF instanceVars
<1>5. write \in WriteState /\ write.name \in Name /\ write.value \in Nat
  <2>1. write \in WriteState
    BY <1>3
  <2> QED  BY <2>1 DEF WriteState
<1>6. driver = "rotating" => write.name = "token" /\ rest = <<>>
  <2>1. \A e : Tail(<<e>>) = <<>> /\ Head(<<e>>) = e
    OBVIOUS
  <2>2. ASSUME driver = "rotating" PROVE write.name = "token" /\ rest = <<>>
    <3>1. PICK v \in Nat : s = <<Write("token", v)>>
      BY <1>3, <2>2
    <3> QED  BY <2>1, <3>1 DEF Write
  <2> QED  BY <2>2
<1>7. driver = "learning" => write.name = "passkey" /\ write.value = Found /\ rest = <<>>
  <2>1. \A e : Tail(<<e>>) = <<>> /\ Head(<<e>>) = e
    OBVIOUS
  <2>2. ASSUME driver = "learning"
        PROVE  write.name = "passkey" /\ write.value = Found /\ rest = <<>>
    <3>1. s = <<Write("passkey", Found)>>
      BY <1>3, <2>2
    <3>2. write = Write("passkey", Found) /\ rest = <<>>
      BY <2>1, <3>1
    <3> QED  BY <3>2 DEF Write
  <2> QED  BY <2>2
<1>8. driver = "seeding" =>
        /\ rest \in Seq(WriteState) /\ SeedsOf(l, rest)
        /\ write.name \in SeededNames \cup Marks /\ write.value = Found
        /\ write.name \in SeededNames => l[write.name] = 0
        /\ rest # <<>> /\ Head(rest).name \in Cap => write.name = Mark(Head(rest).name)
  BY <1>3, SeedsLeft
<1>9. rest # <<>> => driver = "seeding"
  BY <1>3, <1>6, <1>7
<1>10. Found = 1 /\ Typed = 2
  BY DEF Found, Typed
<1> HIDE DEF s, write, rest, l
<1>11. Grown
  <2>1. engines \in Seq(EngineState) /\ \A i \in DOMAIN engines : engines[i] \in EngineState
        /\ Len(engines) \in Nat /\ DOMAIN engines = 1 .. Len(engines)
    BY WritesTyped DEF WriteInv
  <2>2. CASE write.name = "passkey"
    <3> DEFINE i == work[w].engine
               g == [engines[i] EXCEPT !.mem = write.value]
    <3>1. g \in EngineState /\ g.limits = engines[i].limits /\ g.built = engines[i].built
      BY <1>3, <1>5, <2>1 DEF EngineState
    <3>2. engines' = [engines EXCEPT ![i] = g] /\ i \in DOMAIN engines
      BY <1>1, <1>3, <2>2
    <3> HIDE DEF g, i
    <3>3. engines' \in Seq(EngineState) /\ Len(engines') = Len(engines)
          /\ DOMAIN engines' = DOMAIN engines
          /\ \A j \in DOMAIN engines : engines'[j] = IF j = i THEN g ELSE engines[j]
      BY <2>1, <3>1, <3>2, ExceptSeq
    <3> QED  BY <2>1, <3>1, <3>2, <3>3 DEF Grown
  <2>3. CASE write.name # "passkey"
    BY <1>1, <2>3, SameEngines
  <2> QED  BY <2>2, <2>3
<1>12. new \in WorkState(Len(engines'))
       /\ (rest = <<>> => new.pc = "idle" /\ new.todo = <<>>)
       /\ (rest # <<>> => new.pc = "persist" /\ new.todo = rest /\ new.engine = work[w].engine)
  <2>1. work[w] \in WorkState(Len(engines))
        /\ Len(engines) \in Nat /\ Len(engines') \in Nat /\ Len(engines) <= Len(engines')
    BY <1>11, WritesTyped DEF WriteInv, Grown
  <2>2. 0 .. Len(engines) \subseteq 0 .. Len(engines') /\ 0 \in 0 .. Len(engines')
    BY <2>1
  <2>3. NoWork \in WorkState(Len(engines')) /\ NoWork.pc = "idle" /\ NoWork.todo = <<>>
    BY <2>2 DEF NoWork, WorkState
  <2> DEFINE b == (work[w].seeded \/ write.name \in Cap)
  <2>4. b \in BOOLEAN
    OBVIOUS
  <2>5. rest # <<>> => new = [work[w] EXCEPT !.todo = rest, !.seeded = b]
    OBVIOUS
  <2>6. work[w] \in WorkState(Len(engines'))
    BY <2>1, <2>2 DEF WorkState
  <2>7. rest = <<>> => new = NoWork
    OBVIOUS
  <2> HIDE DEF new, b
  <2>8. CASE rest = <<>>
    BY <2>3, <2>7, <2>8
  <2>9. CASE rest # <<>>
    <3>1. rest \in Seq(WriteState)
      BY <1>8, <1>9, <2>9
    <3>2. new \in WorkState(Len(engines'))
      BY <2>4, <2>5, <2>6, <2>9, <3>1 DEF WorkState
    <3>3. new.pc = work[w].pc /\ new.todo = rest /\ new.engine = work[w].engine
      BY <2>5, <2>6, <2>9 DEF WorkState
    <3> QED  BY <1>1, <2>9, <3>2, <3>3
  <2> QED  BY <2>8, <2>9
<1> HIDE DEF new
<1>13. /\ work' \in [Worker -> WorkState(Len(engines'))] /\ work'[w] = new
       /\ \A v \in Worker \ {w} : work'[v] = work[v]
  BY <1>2, <1>11, <1>12, OneMoves DEF Moves
<1>14. /\ stored \in [Name -> Nat] /\ stored' \in [Name -> Nat]
       /\ \A n \in Name : stored'[n] = IF n = write.name THEN write.value ELSE stored[n]
  BY <1>1, <1>5, WritesTyped DEF WriteInv
<1>15. wrong' = {}
  <2>1. SUFFICES ASSUME write.name \in Cap \cup {"unit"}, stored[write.name] = Typed, ~Outdated(w)
                 PROVE  FALSE
    BY <1>1 DEF WriteInv
  <2>2. write.name \in SeededNames /\ write.name \notin {"token", "passkey"}
    BY <2>1, NameFacts DEF SeededNames
  <2>3. driver = "seeding"
    BY <1>3, <1>6, <1>7, <2>2
  <2>4. BuiltOnLatest(work[w].engine)
    <3>1. engines[work[w].engine].built <= choices /\ engines[work[w].engine].built \in Nat
          /\ choices \in Nat
      BY <1>3, WritesTyped DEF WriteInv, EnginesOk
    <3> QED  BY <2>1, <3>1 DEF Outdated, BuiltOnLatest
  <2>5. l[write.name] = Typed
    BY <1>3, <2>1, <2>2, <2>3, <2>4 DEF WriteInv, EnginesOk, l
  <2> QED  BY <1>8, <1>10, <2>2, <2>3, <2>5
<1>16. WriteBacksTypeOK'
  <2>1. /\ choices' \in Nat /\ lastToken' \in Nat /\ losses' \in Nat /\ newest' \in Nat
        /\ cachedEngine' \in 0 .. Len(engines')
    BY <1>4, <1>11, WritesTyped DEF WriteInv, Grown
  <2>2. behind' \subseteq {"overlapping", "superseded", "failed", "lost"}
    BY <1>1 DEF WriteInv, WriteBacksTypeOK
  <2>3. /\ driver' \in {"rotating", "seeding", "learning"} /\ account' \in [Cap -> {0, Found}]
        /\ present' \in BOOLEAN /\ evicting' \in BOOLEAN /\ edit' = NoEdit
    BY <1>1, <1>4 DEF WriteInv, WriteBacksTypeOK
  <2> QED  BY <1>11, <1>13, <1>14, <1>15, <2>1, <2>2, <2>3
           DEF WriteBacksTypeOK, Grown, WorkState, WriteState, EngineState
<1>17. WritesOk'
  <2>1. TodoOf(w)'
    <3>1. work[w].engine \in DOMAIN engines'
          /\ engines'[work[w].engine].limits = l
      BY <1>3, <1>11, WritesTyped DEF Grown, WriteInv, l
    <3>2. CASE rest = <<>>
      BY <1>12, <1>13, <3>2 DEF TodoOf
    <3>3. CASE rest # <<>>
      BY <1>4, <1>8, <1>9, <1>12, <1>13, <3>1, <3>3 DEF TodoOf
    <3> QED  BY <3>2, <3>3
  <2>2. \A v \in Worker \ {w} : TodoOf(v)'
    BY <1>4, <1>11, <1>13, TodoKept
  <2> QED  BY <2>1, <2>2 DEF WritesOk
<1>18. EditOk'
  BY <1>1, <1>4 DEF WriteInv, EditOk
<1>19. EnginesOk'
  <2>1. EnginesOk
    BY DEF WriteInv
  <2>2. \A n \in SeededNames : n \in Name /\ n \notin {"token", "passkey"} /\ "passkey" \in Name
    BY NameFacts
  <2>3. driver' # "seeding" => \A n \in SeededNames : stored'[n] = 0
    BY <1>3, <1>4, <1>6, <1>7, <1>14, <2>1, <2>2 DEF EnginesOk
  <2>4. \A e \in DOMAIN engines' : e \in DOMAIN engines /\ (BuiltOnLatest(e)' <=> BuiltOnLatest(e))
    <3>1. DOMAIN engines' = DOMAIN engines
      BY <1>1
    <3> QED  BY <1>4, <1>11, <3>1 DEF Grown, BuiltOnLatest
  <2>5. ASSUME NEW e \in DOMAIN engines', BuiltOnLatest(e)', driver' = "seeding", NEW n \in SeededNames,
               stored'[n] = Typed
        PROVE  engines'[e].limits[n] = Typed
    <3>1. stored[n] = Typed
      BY <1>4, <1>8, <1>10, <1>14, <2>2, <2>5
    <3> QED  BY <1>4, <1>11, <2>1, <2>4, <2>5, <3>1 DEF EnginesOk, Grown
  <2>6. driver' = "learning" => stored'["passkey"] # 0
    BY <1>4, <1>7, <1>10, <1>14, NameFacts
  <2>7. \A e \in DOMAIN engines' : engines'[e].built <= choices'
    BY <1>4, <1>11, <2>1, <2>4 DEF EnginesOk, Grown
  <2> QED  BY <2>3, <2>5, <2>6, <2>7 DEF EnginesOk
<1>20. \A v \in Worker \ {w} : work'[v].pc = "persist" =>
         work'[v] = work[v] /\ (Outdated(v)' <=> Outdated(v))
  BY <1>4, <1>11, <1>13, OutdatedKept
<1>21. RotatedOk'
  <2>1. SUFFICES ASSUME driver = "rotating", behind' = {} PROVE RotatedOk'
    BY <1>4 DEF RotatedOk
  <2>2. ~Outdated(w) /\ work'[w].pc = "idle" /\ "token" \in Name
    BY <1>1, <1>6, <1>12, <1>13, <2>1, NameFacts
  <2>3. write.value = newest
    BY <1>1, <2>1, <2>2 DEF WriteInv, RotatedOk, write, s
  <2>4. behind = {} \/ \A v \in Worker \ {w} : work[v].pc # "persist"
    BY <1>1, <2>1, <2>2, PendingFacts
  <2>5. stored'["token"] = newest'
    BY <1>4, <1>6, <1>14, <2>1, <2>2, <2>3
  <2>6. \A v \in Worker : work'[v].pc = "persist" /\ ~Outdated(v)' =>
          Head(work'[v].todo).value = newest'
    <3>1. SUFFICES ASSUME NEW v \in Worker \ {w}, work'[v].pc = "persist", ~Outdated(v)'
                   PROVE  Head(work'[v].todo).value = newest'
      BY <2>2
    <3> QED  BY <1>4, <1>20, <2>1, <2>4, <3>1 DEF WriteInv, RotatedOk
  <2> QED  BY <2>5, <2>6 DEF RotatedOk
<1>22. \A c \in Cap : Mark(c) \in Name /\ c \in Name /\ Mark(c) # c /\ Mark(c) \in Marks
         /\ Mark(c) \notin {"token", "passkey"} /\ c \in SeededNames
  BY NameFacts
<1>23. \A c \in Cap : stored[Mark(c)] = Found => stored'[Mark(c)] = Found
  BY <1>3, <1>6, <1>7, <1>8, <1>14, <1>22
<1>24. MarksOk'
  <2>1. SUFFICES ASSUME NEW v \in Worker, NEW c \in Cap, work'[v].pc = "persist",
                        Head(work'[v].todo).name = c, ~Outdated(v)'
                 PROVE  stored'[Mark(c)] = Found
    BY DEF MarksOk
  <2>2. CASE v = w
    <3>1. rest # <<>> /\ Head(rest).name = c
      BY <1>12, <1>13, <2>1, <2>2
    <3>2. write.name = Mark(c) /\ write.value = Found
      BY <1>8, <1>9, <3>1
    <3> QED  BY <1>14, <1>22, <3>2
  <2>3. CASE v # w
    <3>1. stored[Mark(c)] = Found
      BY <1>1, <1>20, <2>1, <2>3 DEF WriteInv, MarksOk
    <3> QED  BY <1>23, <3>1
  <2> QED  BY <2>2, <2>3
<1>25. SeedMarked'
  <2>1. SUFFICES ASSUME NEW c \in Cap, stored'[c] = Found, "superseded" \notin behind'
                 PROVE  stored'[Mark(c)] = Found
    BY DEF SeedMarked
  <2>2. ~Outdated(w)
    BY <1>1, <2>1
  <2>3. CASE write.name = c
    <3>1. stored[Mark(c)] = Found
      BY <1>1, <2>2, <2>3 DEF WriteInv, MarksOk, write, s
    <3> QED  BY <1>23, <3>1
  <2>4. CASE write.name # c
    <3>1. stored[c] = Found
      BY <1>14, <1>22, <2>1, <2>4
    <3>2. driver # "rotating"
      BY <1>10, <1>22, <3>1 DEF WriteInv, EnginesOk
    <3>3. write.name # "token"
      BY <1>3, <1>7, <1>8, <3>2, NameFacts
    <3>4. "superseded" \notin behind
      BY <1>1, <2>1, <2>2, <3>3
    <3> QED  BY <1>23, <3>1, <3>4 DEF WriteInv, SeedMarked
  <2> QED  BY <2>3, <2>4
<1> QED  BY <1>15, <1>16, <1>17, <1>18, <1>19, <1>21, <1>24, <1>25 DEF WriteInv

-----------------------------------------------------------------------------
(* The operator.  A transaction begins or ends without a write, an engine    *)
(* is evicted: of what the invariant is about, only the edit changes.        *)
LEMMA NoWriteStep ==
  ASSUME WriteInv,
         UNCHANGED <<driver, account, present, losses, choices, stored, engines, work, tokenVars,
                     wrong>>,
         cachedEngine' \in {0, cachedEngine}, evicting' \in BOOLEAN,
         edit' = NoEdit \/ (edit'.read \in [Name -> Nat] /\ DOMAIN edit'.patch \subseteq Name),
         edit' # NoEdit => present /\ ~evicting' /\ choices < MaxChoice /\ edit'.read = stored
                           /\ PatchesOk'
  PROVE  WriteInv'
<1>1. UNCHANGED <<lastToken, newest, behind>>
  BY DEF tokenVars
<1>2. WriteBacksTypeOK'
  <2>1. cachedEngine' \in 0 .. Len(engines')
    BY WritesTyped DEF WriteInv
  <2> QED  BY <1>1, <2>1 DEF WriteInv, WriteBacksTypeOK
<1>3. WritesOk'
  BY DEF WriteInv, WritesOk, TodoOf
<1>4. EditOk'
  BY DEF WriteInv, EditOk
<1>5. EnginesOk'
  BY DEF WriteInv, EnginesOk, BuiltOnLatest
<1>6. \A w \in Worker : Outdated(w)' <=> Outdated(w)
  BY DEF Outdated
<1>7. RotatedOk' /\ MarksOk'
  BY <1>1, <1>6 DEF WriteInv, RotatedOk, MarksOk
<1>8. wrong' = {} /\ SeedMarked'
  BY <1>1 DEF WriteInv, SeedMarked
<1> QED  BY <1>2, <1>3, <1>4, <1>5, <1>7, <1>8 DEF WriteInv

LEMMA UpdateBeginsStep ==
  ASSUME WriteInv, NEW patch \in UpdateParams, UpdateBegins(patch)
  PROVE  WriteInv'
<1>1. /\ present /\ edit = NoEdit /\ ~evicting /\ choices < MaxChoice
      /\ edit' = [read |-> stored, patch |-> patch]
      /\ UNCHANGED <<driver, account, present, losses, choices, evicting, stored, engines,
                     cachedEngine, work, tokenVars, wrong>>
  BY DEF UpdateBegins
<1>2. lastToken + 1 \in Nat /\ 0 \in Nat /\ stored \in [Name -> Nat] /\ evicting \in BOOLEAN
  BY WritesTyped DEF WriteInv, WriteBacksTypeOK
<1>3. edit'.read = stored /\ edit'.patch = patch
  BY <1>1
<1>4. \/ patch = Patched({}, 0)
      \/ driver = "rotating" /\ \E t \in Nat : patch = Patched({"token"}, t)
      \/ driver = "seeding" /\ \E n \in {"query", "unit"}, v \in {0, Typed} :
           patch = Patched({n}, v)
  BY <1>2 DEF UpdateParams
<1>5. PatchesOk'
  <2>1. driver' = driver
    BY <1>1
  <2> QED  BY <1>3, <1>4, <2>1 DEF PatchesOk
<1>6. DOMAIN patch \subseteq Name
  <2>1. \A names, v : DOMAIN Patched(names, v) = names
    BY DEF Patched
  <2> QED  BY <1>4, <2>1, NameFacts
<1> QED  BY <1>1, <1>2, <1>3, <1>5, <1>6, NoWriteStep

LEMMA RollBackStep ==
  ASSUME WriteInv, UpdateRollsBack
  PROVE  WriteInv'
<1>1. evicting \in BOOLEAN
  BY DEF WriteInv, WriteBacksTypeOK
<1> QED  BY <1>1, NoWriteStep DEF UpdateRollsBack

LEMMA EvictStep ==
  ASSUME WriteInv, EvictEngine
  PROVE  WriteInv'
<1>1. evicting /\ evicting' = FALSE /\ cachedEngine' = 0
      /\ UNCHANGED <<driver, account, present, losses, choices, edit, stored, engines, work,
                     tokenVars, wrong>>
  BY DEF EvictEngine
<1>2. edit = NoEdit
  BY <1>1 DEF WriteInv, EditOk
<1> QED  BY <1>1, <1>2, NoWriteStep

(* What the operator chooses puts every engine that was built behind.        *)
LEMMA AllBehind ==
  ASSUME WriteInv, UNCHANGED <<engines, work>>, choices' = choices + 1
  PROVE  /\ \A w \in Worker : work[w].pc # "idle" => Outdated(w)'
         /\ \A e \in DOMAIN engines : ~BuiltOnLatest(e)' /\ engines'[e].built <= choices'
<1>1. ASSUME NEW e \in DOMAIN engines PROVE engines[e].built < choices + 1
  BY WritesTyped DEF WriteInv, EnginesOk
<1>2. ASSUME NEW e \in DOMAIN engines PROVE ~BuiltOnLatest(e)' /\ engines'[e].built <= choices'
  <2>1. engines[e].built \in Nat /\ choices \in Nat
    BY WritesTyped DEF WriteInv
  <2> QED  BY <1>1, <2>1 DEF BuiltOnLatest
<1>3. ASSUME NEW w \in Worker, work[w].pc # "idle" PROVE Outdated(w)'
  <2>1. work[w].engine \in DOMAIN engines
    BY <1>3 DEF WriteInv, WritesOk, TodoOf
  <2> QED  BY <1>1, <2>1 DEF Outdated
<1> QED  BY <1>2, <1>3

(* The settings are others, by the choice of the operator.                  *)
LEMMA ChosenStep ==
  ASSUME WriteInv, UNCHANGED <<driver, account, losses, engines, cachedEngine, work, wrong>>,
         choices' = choices + 1, choices < MaxChoice, edit' = NoEdit, present',
         stored' \in [Name -> Nat], evicting' \in BOOLEAN,
         lastToken' \in Nat, newest' \in Nat,
         behind' = behind \/ behind' = {},
         driver # "seeding" => \A n \in SeededNames : stored'[n] = 0,
         driver = "rotating" => behind' = {} /\ stored'["token"] = newest',
         \A c \in Cap : stored'[c] = Found /\ "superseded" \notin behind'
           => stored'[Mark(c)] = Found
  PROVE  WriteInv'
<1>1. /\ \A w \in Worker : work[w].pc # "idle" => Outdated(w)'
      /\ \A e \in DOMAIN engines : ~BuiltOnLatest(e)' /\ engines'[e].built <= choices'
  BY AllBehind
<1>2. WriteBacksTypeOK'
  <2>1. choices' \in Nat /\ losses' \in Nat /\ present' \in BOOLEAN
    BY WritesTyped DEF WriteInv
  <2>2. behind' \subseteq {"overlapping", "superseded", "failed", "lost"}
    BY DEF WriteInv, WriteBacksTypeOK
  <2> QED  BY <2>1, <2>2 DEF WriteInv, WriteBacksTypeOK
<1>3. WritesOk'
  BY DEF WriteInv, WritesOk, TodoOf
<1>4. EditOk'
  <2>1. choices' <= MaxChoice
    BY WritesTyped, WriteBacksAssumption DEF WriteInv, WriteBacksAssumption
  <2> QED  BY <2>1 DEF EditOk
<1>5. EnginesOk'
  BY <1>1 DEF EnginesOk
<1>6. RotatedOk' /\ MarksOk'
  BY <1>1 DEF RotatedOk, MarksOk
<1>7. wrong' = {} /\ SeedMarked'
  BY DEF WriteInv, SeedMarked
<1> QED  BY <1>2, <1>3, <1>4, <1>5, <1>6, <1>7 DEF WriteInv

LEMMA UpdateCommitsStep ==
  ASSUME WriteInv, UpdateCommits
  PROVE  WriteInv'
<1> DEFINE merged == mergeSettings(edit.read, edit.patch)
<1>1. /\ edit # NoEdit /\ edit' = NoEdit /\ stored' = merged /\ evicting' = TRUE
      /\ choices' = IF DOMAIN edit.patch = {} THEN choices ELSE choices + 1
      /\ IF "token" \in DOMAIN edit.patch THEN Chosen(merged["token"]) ELSE UNCHANGED tokenVars
      /\ UNCHANGED <<driver, account, present, losses, engines, cachedEngine, work, wrong>>
  BY DEF UpdateCommits
<1>2. /\ present /\ choices < MaxChoice /\ edit.read = stored /\ PatchesOk
      /\ stored \in [Name -> Nat]
  BY <1>1, WritesTyped DEF WriteInv, EditOk
<1>3. /\ lastToken \in Nat /\ newest \in Nat
  BY WritesTyped DEF WriteInv
<1>4. \A names, v : /\ DOMAIN Patched(names, v) = names
                    /\ \A n \in names : Patched(names, v)[n] = v
  BY DEF Patched
<1>5. merged = [n \in Name |-> IF n \in DOMAIN edit.patch THEN edit.patch[n] ELSE stored[n]]
  BY <1>2 DEF mergeSettings
<1> HIDE DEF merged
<1>6. CASE edit.patch = Patched({}, 0)
  <2>1. DOMAIN edit.patch = {}
    BY <1>4, <1>6
  <2>2. merged = stored
    BY <1>2, <1>5, <2>1
  <2>3. UNCHANGED <<driver, account, present, losses, choices, stored, engines, work, tokenVars,
                    wrong>>
    BY <1>1, <2>1, <2>2
  <2> QED  BY <1>1, <2>3, NoWriteStep
<1>7. CASE driver = "rotating" /\ \E t \in Nat : edit.patch = Patched({"token"}, t)
  <2>1. PICK t \in Nat : edit.patch = Patched({"token"}, t)
    BY <1>7
  <2>2. DOMAIN edit.patch = {"token"} /\ edit.patch["token"] = t
    BY <1>4, <2>1
  <2>3. /\ merged \in [Name -> Nat] /\ merged["token"] = t
        /\ \A n \in Name \ {"token"} : merged[n] = stored[n]
    BY <1>2, <1>5, <2>2, NameFacts
  <2>4. choices' = choices + 1 /\ newest' = t /\ behind' = {} /\ lastToken' \in Nat
    BY <1>1, <1>3, <2>2, <2>3 DEF Chosen
  <2>5. \A n \in SeededNames : n \in Name \ {"token"}
    BY NameFacts
  <2>6. \A n \in SeededNames : stored'[n] = 0
    BY <1>1, <1>7, <2>3, <2>5 DEF WriteInv, EnginesOk
  <2>7. \A c \in Cap : stored'[c] # Found
    BY <2>6 DEF SeededNames, Found
  <2> QED  BY <1>1, <1>2, <1>7, <2>3, <2>4, <2>6, <2>7, ChosenStep
<1>8. CASE driver = "seeding" /\ \E n \in {"query", "unit"}, v \in {0, Typed} :
             edit.patch = Patched({n}, v)
  <2>1. PICK n \in {"query", "unit"}, v \in {0, Typed} : edit.patch = Patched({n}, v)
    BY <1>8
  <2>2. DOMAIN edit.patch = {n} /\ edit.patch[n] = v /\ n \in Name /\ n # "token"
    BY <1>4, <2>1, NameFacts
  <2>3. v \in Nat /\ v # Found
    BY DEF Typed, Found
  <2>4. /\ merged \in [Name -> Nat] /\ merged[n] = v
        /\ \A m \in Name \ {n} : merged[m] = stored[m]
    BY <1>2, <1>5, <2>2, <2>3
  <2>5. choices' = choices + 1 /\ newest' = newest /\ behind' = behind /\ lastToken' = lastToken
    <3>1. DOMAIN edit.patch # {} /\ "token" \notin DOMAIN edit.patch
      BY <2>2
    <3> QED  BY <1>1, <3>1 DEF tokenVars
  <2>6. \A c \in Cap : c \in Name /\ Mark(c) \in Name \ {n}
    BY NameFacts
  <2>7. ASSUME NEW c \in Cap, stored'[c] = Found, "superseded" \notin behind'
        PROVE  stored'[Mark(c)] = Found
    <3>1. stored[c] = Found
      BY <1>1, <2>3, <2>4, <2>6, <2>7
    <3> QED  BY <1>1, <2>4, <2>5, <2>6, <2>7, <3>1 DEF WriteInv, SeedMarked
  <2> QED  BY <1>1, <1>2, <1>3, <1>8, <2>4, <2>5, <2>7, ChosenStep
<1> QED  BY <1>2, <1>6, <1>7, <1>8 DEF PatchesOk

LEMMA RemoveStep ==
  ASSUME WriteInv, RemoveInstance
  PROVE  WriteInv'
<1>1. /\ present /\ edit = NoEdit /\ choices < MaxChoice
      /\ present' = FALSE /\ stored' = Unset /\ evicting' = TRUE
      /\ UNCHANGED <<driver, account, losses, choices, edit, engines, cachedEngine, work,
                     lastToken, newest, behind, wrong>>
  BY DEF RemoveInstance, DbFree, tokenVars
<1>2. Unset \in [Name -> Nat] /\ \A n \in Name : Unset[n] = 0
  BY DEF Unset
<1>3. WriteBacksTypeOK'
  BY <1>1, <1>2 DEF WriteInv, WriteBacksTypeOK
<1>4. WritesOk'
  BY <1>1 DEF WriteInv, WritesOk, TodoOf
<1>5. EditOk'
  BY <1>1 DEF WriteInv, EditOk
<1>6. SeededNames \subseteq Name /\ Cap \subseteq Name
  BY NameFacts
<1>7. EnginesOk'
  <2>1. \A n \in SeededNames : stored'[n] # Typed
    BY <1>1, <1>2, <1>6 DEF Typed
  <2> QED  BY <1>1, <1>2, <1>6, <2>1 DEF WriteInv, EnginesOk, BuiltOnLatest
<1>8. RotatedOk' /\ MarksOk'
  BY <1>1 DEF WriteInv, RotatedOk, MarksOk, Outdated
<1>9. wrong' = {} /\ SeedMarked'
  BY <1>1, <1>2, <1>6 DEF WriteInv, SeedMarked, Found
<1> QED  BY <1>3, <1>4, <1>5, <1>7, <1>8, <1>9 DEF WriteInv

LEMMA AddStep ==
  ASSUME WriteInv, AddInstance
  PROVE  WriteInv'
<1> DEFINE fresh == NewSettings(lastToken + 1)
<1>1. /\ ~present /\ present' = TRUE /\ choices' = choices + 1 /\ stored' = fresh
      /\ Chosen(stored'["token"])
      /\ UNCHANGED <<driver, account, losses, edit, evicting, engines, cachedEngine, work, wrong>>
  BY DEF AddInstance
<1>2. edit = NoEdit /\ choices < MaxChoice
  BY <1>1 DEF WriteInv, EditOk
<1>3. lastToken \in Nat /\ lastToken + 1 \in Nat /\ evicting \in BOOLEAN
  BY WritesTyped DEF WriteInv, WriteBacksTypeOK
<1>4. "token" \in Name /\ \A n \in SeededNames : n \in Name \ {"token"}
  BY NameFacts
<1>5. fresh \in [Name -> Nat] /\ \A n \in SeededNames : fresh[n] = 0
  <2>1. Unset \in [Name -> Nat] /\ \A n \in Name : Unset[n] = 0
    BY DEF Unset
  <2> QED  BY <1>3, <1>4, <2>1 DEF NewSettings
<1> HIDE DEF fresh
<1>6. newest' = stored'["token"] /\ newest' \in Nat /\ behind' = {} /\ lastToken' \in Nat
  BY <1>1, <1>3, <1>4, <1>5 DEF Chosen
<1>7. \A c \in Cap : stored'[c] # Found
  BY <1>1, <1>5 DEF SeededNames, Found
<1> QED  BY <1>1, <1>2, <1>3, <1>5, <1>6, <1>7, ChosenStep

LEMMA RestartStep ==
  ASSUME WriteInv, Restart
  PROVE  WriteInv'
<1>1. /\ losses' = losses + 1 /\ engines' = <<>> /\ cachedEngine' = 0 /\ evicting' = FALSE
      /\ edit' = NoEdit /\ work' = [w \in Worker |-> NoWork]
      /\ behind' = IF Quiet THEN behind ELSE behind \cup {"lost"}
      /\ UNCHANGED <<driver, account, present, choices, stored, lastToken, newest, wrong>>
  BY DEF Restart
<1>2. \A w \in Worker : work'[w].pc = "idle" /\ work'[w].todo = <<>>
  BY <1>1 DEF NoWork
<1>3. WriteBacksTypeOK'
  <2>1. losses' \in Nat
    BY <1>1, WritesTyped DEF WriteInv
  <2>2. behind' \subseteq {"overlapping", "superseded", "failed", "lost"}
    BY <1>1 DEF WriteInv, WriteBacksTypeOK
  <2>3. engines' \in Seq(EngineState) /\ Len(engines') = 0 /\ 0 \in 0 .. 0
    BY <1>1
  <2>4. work' \in [Worker -> WorkState(0)]
    <3>1. NoWork \in WorkState(0)
      <4>1. <<>> \in Seq(WriteState)
        OBVIOUS
      <4> QED  BY <2>3, <4>1 DEF NoWork, WorkState
    <3> QED  BY <1>1, <3>1
  <2> QED  BY <1>1, <2>1, <2>2, <2>3, <2>4
           DEF WriteInv, WriteBacksTypeOK, EngineState, WorkState, WriteState
<1>4. WritesOk'
  BY <1>2 DEF WritesOk, TodoOf
<1>5. EditOk'
  BY <1>1 DEF WriteInv, EditOk
<1>6. EnginesOk'
  <2>1. DOMAIN engines' = {}
    BY <1>1
  <2> QED  BY <1>1, <2>1 DEF WriteInv, EnginesOk
<1>7. RotatedOk'
  <2>1. ASSUME driver = "rotating", behind' = {}, present PROVE stored["token"] = newest
    <3>1. behind = {} /\ Quiet
      BY <1>1, <2>1
    <3> QED  BY <2>1, <3>1, PendingFacts DEF WriteInv, RotatedOk
  <2> QED  BY <1>1, <1>2, <2>1 DEF RotatedOk
<1>8. MarksOk'
  BY <1>2 DEF MarksOk
<1>9. wrong' = {} /\ SeedMarked'
  BY <1>1 DEF WriteInv, SeedMarked
<1> QED  BY <1>3, <1>4, <1>5, <1>6, <1>7, <1>8, <1>9 DEF WriteInv

-----------------------------------------------------------------------------
LEMMA WritesInitially ==
  ASSUME WriteBacksInit
  PROVE  WriteInv
<1> USE DEF WriteBacksInit
<1>1. \A w \in Worker : work[w].pc = "idle" /\ work[w].todo = <<>>
  BY DEF NoWork
<1>2. stored \in [Name -> Nat] /\ \A n \in SeededNames : stored[n] = 0
  <2>1. Unset \in [Name -> Nat] /\ \A n \in Name : Unset[n] = 0
    BY DEF Unset
  <2>2. "token" \in Name /\ \A n \in SeededNames : n \in Name \ {"token"}
    BY NameFacts
  <2> QED  BY <2>1, <2>2 DEF NewSettings
<1>3. stored["token"] \in Nat
  BY <1>2, NameFacts
<1>4. DOMAIN engines = {} /\ Len(engines) = 0
  OBVIOUS
<1>5. WriteBacksTypeOK
  <2>1. account \in [Cap -> {0, Found}]
    BY DEF Found
  <2>2. engines \in Seq(EngineState) /\ cachedEngine \in 0 .. Len(engines)
    BY <1>4
  <2>3. work \in [Worker -> WorkState(Len(engines))]
    <3>1. NoWork \in WorkState(0)
      <4>1. <<>> \in Seq(WriteState) /\ 0 \in 0 .. 0
        OBVIOUS
      <4> QED  BY <4>1 DEF NoWork, WorkState
    <3> QED  BY <1>4, <3>1
  <2>4. {lastToken, losses, choices, newest} \subseteq Nat
    BY <1>3
  <2> QED  BY <1>2, <2>1, <2>2, <2>3, <2>4
           DEF WriteBacksTypeOK, EngineState, WorkState, WriteState
<1>6. WritesOk
  BY <1>1 DEF WritesOk, TodoOf
<1>7. EditOk
  BY WriteBacksAssumption DEF EditOk, WriteBacksAssumption
<1>8. EnginesOk
  BY <1>2, <1>4 DEF EnginesOk
<1>9. RotatedOk /\ MarksOk
  BY <1>1 DEF RotatedOk, MarksOk
<1>10. wrong = {} /\ SeedMarked
  BY <1>2 DEF SeedMarked, SeededNames, Found
<1> QED  BY <1>5, <1>6, <1>7, <1>8, <1>9, <1>10 DEF WriteInv

LEMMA WriteStep ==
  ASSUME WriteInv, [WriteBacksNext]_writeBackVars
  PROVE  WriteInv'
<1>1. CASE \E w \in Worker : Search(w) \/ Test(w)
  BY <1>1, SearchStep
<1>2. CASE \E w \in Worker : captureRotatedMamID(w)
  BY <1>2, CaptureStep
<1>3. CASE \E w \in Worker : LearnPasskey(w) \/ SeedBudget(w) \/ NothingLearned(w)
  BY <1>3, LearnSteps
<1>4. CASE \E w \in Worker : PersistSetting(w)
  BY <1>4, PersistStep
<1>5. CASE \E w \in Worker : PersistFails(w)
  BY <1>5, PersistFailsStep
<1>6. CASE \E patch \in UpdateParams : UpdateBegins(patch)
  BY <1>6, UpdateBeginsStep
<1>7. CASE UpdateCommits
  BY <1>7, UpdateCommitsStep
<1>8. CASE UpdateRollsBack
  BY <1>8, RollBackStep
<1>9. CASE EvictEngine
  BY <1>9, EvictStep
<1>10. CASE RemoveInstance
  BY <1>10, RemoveStep
<1>11. CASE AddInstance
  BY <1>11, AddStep
<1>12. CASE Restart
  BY <1>12, RestartStep
<1>13. CASE UNCHANGED writeBackVars
  <2>1. UNCHANGED <<driver, account, present, losses, choices, stored, engines, work, tokenVars,
                    wrong, cachedEngine, evicting, edit>>
    BY <1>13 DEF writeBackVars, tokenVars
  <2>2. /\ evicting' \in BOOLEAN
        /\ edit' = NoEdit \/ (edit'.read \in [Name -> Nat] /\ DOMAIN edit'.patch \subseteq Name)
        /\ edit' # NoEdit => present /\ ~evicting' /\ choices < MaxChoice /\ edit'.read = stored
                             /\ PatchesOk'
    BY <2>1 DEF WriteInv, WriteBacksTypeOK, EditOk, PatchesOk
  <2> QED  BY <2>1, <2>2, NoWriteStep
<1> QED
  BY <1>1, <1>2, <1>3, <1>4, <1>5, <1>6, <1>7, <1>8, <1>9, <1>10, <1>11, <1>12, <1>13
  DEF WriteBacksNext

LEMMA WritesAlways == WriteBacksSpec => []WriteInv
<1>1. WriteBacksInit => WriteInv
  BY WritesInitially
<1>2. WriteInv /\ [WriteBacksNext]_writeBackVars => WriteInv'
  BY WriteStep
<1> QED  BY <1>1, <1>2, PTL DEF WriteBacksSpec

(* The settings, the engines and the writes have their types, for any        *)
(* number of searches, engines, choices and restarts.                       *)
THEOREM WriteBacksTypeCorrect == WriteBacksSpec => []WriteBacksTypeOK
<1>1. WriteInv => WriteBacksTypeOK
  BY DEF WriteInv
<1> QED  BY <1>1, WritesAlways, PTL

(* The operator's update (registry/manage.go Update) and the drivers' writes *)
(* (registry/registry.go persistSetting) do not undo each other: the token   *)
(* that came up last stays, save for the causes listed; no seed replaces     *)
(* what the operator chose; a found cap is marked; a learned passkey is      *)
(* stored.  For any number of searches, engines, choices and restarts.       *)
THEOREM WriteBacksAreKept == WriteBacksSpec => []WriteBacksKept
<1>1. ASSUME WriteInv PROVE WriteBacksKept
  <2>1. TokenKept
    BY <1>1, PendingFacts DEF TokenKept, WriteInv, RotatedOk
  <2>2. LearnedIsStored
    <3>1. cachedEngine # 0 => cachedEngine \in DOMAIN engines
      BY <1>1, WritesTyped DEF WriteInv
    <3> QED  BY <1>1, <3>1 DEF LearnedIsStored, WriteInv, EnginesOk, BuiltOnLatest
  <2> QED  BY <1>1, <2>1, <2>2 DEF WriteBacksKept, WriteInv
<1> QED  BY <1>1, WritesAlways, PTL

-----------------------------------------------------------------------------
(***************************************************************************)
(* HitWindow, for any ring and any hours that go by: a slot is read only for*)
(* the hour it was last counted in.                                        *)
(***************************************************************************)

LEMMA ModFacts ==
  ASSUME NEW a \in Nat, NEW b \in Nat \ {0}
  PROVE  /\ a % b \in 0 .. b - 1
         /\ a \div b \in Nat
         /\ a = b * (a \div b) + (a % b)
<1>1. a % b \in 0 .. b - 1
  OBVIOUS
<1>2. a \div b \in Nat
  OBVIOUS
<1>3. a = b * (a \div b) + (a % b)
  OBVIOUS
<1> QED BY <1>1, <1>2, <1>3

LEMMA Grows ==
  ASSUME NEW b \in Nat \ {0}, NEW q \in Int, NEW r \in Int, q < r
  PROVE  b * q + b <= b * r
<1>1. b * (q + 1) <= b * r
  OBVIOUS
<1>2. b * (q + 1) = b * q + b
  OBVIOUS
<1> QED BY <1>1, <1>2

LEMMA EarlierToo ==
  ASSUME NEW a \in Int, NEW b \in Int, NEW w \in Int, NEW g \in Int, a < b, g >= b - w
  PROVE  g >= a - w
<1> QED OBVIOUS

LEMMA SameSlot ==
  ASSUME NEW g \in Nat, NEW h \in Nat, NEW b \in Nat \ {0}, g % b = h % b, g < h + b, h < g + b
  PROVE  g = h
<1>1. /\ g \div b \in Nat /\ h \div b \in Nat
      /\ g = b * (g \div b) + (g % b) /\ h = b * (h \div b) + (h % b)
      /\ g % b \in Int
  <2>1. g \div b \in Nat /\ g = b * (g \div b) + (g % b) /\ g % b \in 0 .. b - 1
    BY ModFacts
  <2>2. h \div b \in Nat /\ h = b * (h \div b) + (h % b)
    BY ModFacts
  <2> QED BY <2>1, <2>2
<1>2. CASE g \div b < h \div b
  <2>1. b * (g \div b) + b <= b * (h \div b)
    BY <1>1, <1>2, Grows
  <2> QED BY <1>1, <2>1
<1>3. CASE h \div b < g \div b
  <2>1. b * (h \div b) + b <= b * (g \div b)
    BY <1>1, <1>3, Grows
  <2> QED BY <1>1, <2>1
<1>4. CASE g \div b = h \div b
  BY <1>1, <1>4
<1> QED BY <1>1, <1>2, <1>3, <1>4

-----------------------------------------------------------------------------
(* The slot of an hour that is not empty holds what was counted in it, and   *)
(* an hour of the widest view that was counted in has its slot.             *)
SlotOk(i) ==
  \/ stamps[i] = 0 /\ buckets[i] = 0
  \/ /\ stamps[i] > 0 /\ stamps[i] <= hour
     /\ stamps[i] % RingLength = i
     /\ buckets[i] = lookups[stamps[i]]

HourOk(h) == h >= hour - WindowHours /\ lookups[h] # 0 => stamps[h % RingLength] = h

WindowInv ==
  /\ WindowTypeOK
  /\ hour > WindowHours
  /\ \A i \in Slots : SlotOk(i)
  /\ \A h \in Hours : HourOk(h)

LEMMA WindowStart == WindowInit => WindowInv
<1> SUFFICES ASSUME WindowInit PROVE WindowInv
  OBVIOUS
<1>1. WindowTypeOK /\ hour > WindowHours
  BY WindowAssumption DEF WindowAssumption, WindowInit, WindowTypeOK, Hours, RingLength
<1>2. \A i \in Slots : SlotOk(i)
  BY DEF WindowInit, SlotOk
<1>3. \A h \in Hours : HourOk(h)
  BY DEF WindowInit, HourOk
<1> QED BY <1>1, <1>2, <1>3 DEF WindowInv

LEMMA RingFacts ==
  /\ RingLength \in Nat \ {0} /\ RingLength = WindowHours + 1 /\ RingLength > 1 /\ WindowHours \in Nat
  /\ Hours \subseteq Nat /\ Slots \subseteq Nat
  /\ \A h \in Hours : h % RingLength \in Slots
<1>1. RingLength \in Nat \ {0} /\ RingLength = WindowHours + 1 /\ RingLength > 1 /\ WindowHours \in Nat
      /\ LastHour \in Nat
  BY WindowAssumption DEF WindowAssumption, RingLength
<1>2. Hours \subseteq Nat /\ Slots \subseteq Nat
  BY <1>1 DEF Hours, Slots
<1>3. ASSUME NEW h \in Hours PROVE h % RingLength \in Slots
  BY <1>1, <1>2, ModFacts DEF Slots
<1> QED BY <1>1, <1>2, <1>3

LEMMA CountedStep ==
  ASSUME WindowInv, Counted
  PROVE  WindowInv'
<1>1. PICK h \in {hour - 1, hour} :
        /\ lookups[h] < MaxLookup /\ CountedInto(h)
        /\ lookups' = [lookups EXCEPT ![h] = @ + 1] /\ UNCHANGED hour
  BY DEF Counted
<1> DEFINE i == h % RingLength
           full == IF stamps[i] = h THEN buckets[i] ELSE 0
<1>2. /\ hour \in Hours /\ hour \in Nat /\ hour > WindowHours /\ h \in Hours /\ h \in Nat /\ h > 0
      /\ h <= hour /\ h >= hour - WindowHours /\ i \in Slots
  <2>1. hour \in Hours /\ hour > WindowHours /\ hour \in Nat
    BY RingFacts DEF WindowInv, WindowTypeOK
  <2>2. h \in Hours
    <3>1. hour \in 0 .. LastHour /\ LastHour \in Nat /\ WindowHours \in Nat
      BY <2>1, RingFacts, WindowAssumption DEF Hours, WindowAssumption
    <3> QED BY <1>1, <2>1, <3>1 DEF Hours
  <2> QED BY <2>1, <2>2, RingFacts
<1>3. /\ stamps' = [stamps EXCEPT ![i] = h] /\ buckets' = [buckets EXCEPT ![i] = full + 1]
  BY <1>1 DEF CountedInto
<1> HIDE DEF i, full
<1>4. full = lookups[h] /\ full \in Nat
  <2>1. SlotOk(i) /\ HourOk(h) /\ lookups[h] \in Nat /\ buckets[i] \in Nat
    BY <1>2, WindowAssumption DEF WindowInv, WindowTypeOK, WindowAssumption
  <2>2. CASE stamps[i] = h
    BY <1>2, <2>1, <2>2 DEF SlotOk, full
  <2>3. CASE stamps[i] # h
    BY <1>2, <2>1, <2>3 DEF HourOk, full, i
  <2> QED BY <2>2, <2>3
<1>5. WindowTypeOK'
  <2>1. lookups[h] + 1 \in 0 .. MaxLookup
    BY <1>1, <1>2, WindowAssumption DEF WindowInv, WindowTypeOK, WindowAssumption
  <2> QED BY <1>1, <1>2, <1>3, <1>4, <2>1 DEF WindowInv, WindowTypeOK
<1>6. /\ stamps'[i] = h /\ buckets'[i] = lookups'[h] /\ lookups'[h] = lookups[h] + 1
      /\ \A j \in Slots \ {i} : stamps'[j] = stamps[j] /\ buckets'[j] = buckets[j]
      /\ \A g \in Hours \ {h} : lookups'[g] = lookups[g]
  BY <1>1, <1>2, <1>3, <1>4 DEF WindowInv, WindowTypeOK
<1>7. ASSUME NEW j \in Slots PROVE SlotOk(j)'
  <2>1. CASE j = i
    BY <1>1, <1>2, <1>6, <2>1 DEF SlotOk, i, RingLength
  <2>2. CASE j # i
    <3>1. stamps[j] \in Hours /\ SlotOk(j)
      BY DEF WindowInv, WindowTypeOK
    <3>2. stamps[j] # h \/ stamps[j] = 0
      BY <2>2, <3>1 DEF SlotOk, i
    <3> QED BY <1>1, <1>2, <1>6, <2>2, <3>1, <3>2 DEF SlotOk, RingLength
  <2> QED BY <2>1, <2>2
<1>8. ASSUME NEW g \in Hours PROVE HourOk(g)'
  <2>1. CASE g = h
    BY <1>6, <2>1 DEF HourOk, i, RingLength
  <2>2. CASE g # h
    <3> SUFFICES ASSUME g >= hour - WindowHours, lookups[g] # 0
                 PROVE  stamps'[g % RingLength] = g
      BY <1>1, <1>6, <2>2 DEF HourOk, RingLength
    <3>1. stamps[g % RingLength] = g /\ g % RingLength \in Slots /\ g \in Nat
      BY RingFacts DEF WindowInv, HourOk
    <3>2. g # 0
      BY <1>2, RingFacts
    <3>3. SlotOk(g % RingLength)
      BY <3>1 DEF WindowInv
    <3>4. g <= hour
      BY <3>1, <3>2, <3>3 DEF SlotOk
    <3>5. g % RingLength # i
      <4>1. g < h + RingLength /\ h < g + RingLength
        BY <1>2, <3>1, <3>4, RingFacts
      <4> QED BY <1>2, <2>2, <3>1, <4>1, SameSlot, RingFacts DEF i
    <3> QED BY <1>6, <3>1, <3>5
  <2> QED BY <2>1, <2>2
<1> QED BY <1>1, <1>2, <1>5, <1>7, <1>8 DEF WindowInv

LEMMA WindowStep == WindowInv /\ [WindowNext]_windowVars => WindowInv'
<1> SUFFICES ASSUME WindowInv, [WindowNext]_windowVars PROVE WindowInv'
  OBVIOUS
<1>1. CASE Counted
  BY <1>1, CountedStep
<1>2. CASE HourPasses
  <2>1. /\ hour' \in Hours /\ hour' > hour /\ UNCHANGED <<stamps, buckets, lookups>>
        /\ hour \in Nat /\ hour' \in Nat
    BY <1>2, RingFacts DEF HourPasses, WindowInv, WindowTypeOK
  <2>2. WindowTypeOK' /\ hour' > WindowHours
    BY <2>1, RingFacts DEF WindowInv, WindowTypeOK
  <2>3. ASSUME NEW i \in Slots PROVE SlotOk(i)'
    <3>1. SlotOk(i) /\ stamps[i] \in Nat
      BY RingFacts DEF WindowInv, WindowTypeOK
    <3> QED BY <2>1, <3>1 DEF SlotOk, RingLength
  <2>4. ASSUME NEW h \in Hours PROVE HourOk(h)'
    <3>1. HourOk(h) /\ h \in Nat
      BY RingFacts DEF WindowInv
    <3>2. WindowHours \in Nat
      BY RingFacts
    <3>3. ASSUME h >= hour' - WindowHours PROVE h >= hour - WindowHours
      <4>1. hour \in Int /\ hour' \in Int /\ WindowHours \in Int /\ h \in Int /\ hour < hour'
        BY <2>1, <3>1, <3>2
      <4> QED BY <3>3, <4>1, EarlierToo
    <3> QED BY <2>1, <3>1, <3>3 DEF HourOk, RingLength
  <2> QED BY <2>2, <2>3, <2>4 DEF WindowInv
<1>3. CASE ResetWindow
  <2>1. WindowTypeOK' /\ hour' > WindowHours
    BY <1>3, WindowAssumption DEF ResetWindow, WindowInv, WindowTypeOK, WindowAssumption, Hours
  <2>2. \A i \in Slots : SlotOk(i)'
    BY <1>3 DEF ResetWindow, SlotOk
  <2>3. \A h \in Hours : HourOk(h)'
    BY <1>3 DEF ResetWindow, HourOk
  <2> QED BY <2>1, <2>2, <2>3 DEF WindowInv
<1>4. CASE UNCHANGED windowVars
  BY <1>4 DEF windowVars, WindowInv, WindowTypeOK, SlotOk, HourOk
<1> QED BY <1>1, <1>2, <1>3, <1>4 DEF WindowNext

LEMMA WindowInvariant == WindowSpec => []WindowInv
BY WindowStart, WindowStep, PTL DEF WindowSpec

(* Types: the clock, the ring and the lookups that were counted.            *)
THEOREM WindowTypeCorrect == WindowSpec => []WindowTypeOK
<1>1. WindowInv => WindowTypeOK
  BY DEF WindowInv
<1> QED BY <1>1, WindowInvariant, PTL

(* The slots of a view hold its hours, each once; the other hours of the     *)
(* view were not counted in.                                                *)
LEMMA ViewIsExact ==
  ASSUME WindowInv, NEW hours \in 1 .. WindowHours
  PROVE  SumOver(buckets, {i \in Slots : stamps[i] >= hour - hours})
           = SumOver(lookups, {h \in Hours : h >= hour - hours})
<1> DEFINE A == {i \in Slots : stamps[i] >= hour - hours}
           B == {h \in Hours : h >= hour - hours}
           Seen == {stamps[i] : i \in A}
<1>1. /\ hour \in Nat /\ hours \in Nat /\ hours <= WindowHours /\ hour - hours > 0
      /\ stamps \in [Slots -> Hours] /\ buckets \in [Slots -> Nat]
      /\ lookups \in [Hours -> 0 .. MaxLookup] /\ MaxLookup \in Nat
  BY RingFacts, WindowAssumption DEF WindowInv, WindowTypeOK, WindowAssumption
<1>2. IsFiniteSet(Slots) /\ IsFiniteSet(Hours)
  BY RingFacts, WindowAssumption, FS_Interval DEF Slots, Hours, WindowAssumption
<1>3. A \in SUBSET Slots /\ B \in SUBSET Hours
  OBVIOUS
<1>4. IsFiniteSet(A) /\ IsFiniteSet(B)
  <2> HIDE DEF A, B
  <2> QED BY <1>2, <1>3, FS_Subset
<1>5. ASSUME NEW i \in A
      PROVE  /\ stamps[i] \in B /\ lookups[stamps[i]] = buckets[i] /\ buckets[i] \in Int
             /\ stamps[i] % RingLength = i
  <2>1. SlotOk(i) /\ i \in Slots /\ stamps[i] \in Hours /\ stamps[i] \in Nat /\ stamps[i] >= hour - hours
    BY <1>1, RingFacts DEF WindowInv
  <2>2. stamps[i] # 0
    BY <1>1, <2>1
  <2> QED BY <1>1, <2>1, <2>2 DEF SlotOk
<1>6. Seen \in SUBSET B
  BY <1>5
<1>7. ASSUME NEW h \in B \ Seen PROVE lookups[h] = 0
  <2>1. HourOk(h) /\ h \in Nat /\ h \in Hours /\ h >= hour - hours /\ h % RingLength \in Slots
    BY RingFacts DEF WindowInv
  <2>2. lookups[h] # 0 => stamps[h % RingLength] = h
    BY <1>1, <2>1, RingFacts DEF HourOk
  <2> QED BY <2>1, <2>2
<1>8. \A h \in B : lookups[h] \in Int
  BY <1>1, <1>3
<1>9. SumOver(lookups, Seen) = SumOver(buckets, A)
  <2>1. /\ \A a \in A : buckets[a] \in Int /\ stamps[a] \in B /\ lookups[stamps[a]] = buckets[a]
        /\ \A a, b \in A : stamps[a] = stamps[b] => a = b
    BY <1>5
  <2> HIDE DEF A, B
  <2> QED BY <1>4, <2>1, SumRenamed
<1>10. SumOver(lookups, B) = SumOver(lookups, Seen)
  <2> HIDE DEF A, B, Seen
  <2> QED BY <1>4, <1>6, <1>7, <1>8, SumPadded
<1> QED BY <1>9, <1>10

(* For any ring and any hours that go by: a view counts the lookups of its   *)
(* hours since the last reset (searchcache_window.go: totals, slot).        *)
THEOREM EveryViewIsExact == WindowSpec => []ViewsAreExact
<1>1. WindowInv => ViewsAreExact
  <2> SUFFICES ASSUME WindowInv, NEW hours \in 1 .. WindowHours
               PROVE  Totals(hours) = FoldFunctionOnSet(LAMBDA c, n : c + n, 0, lookups,
                                                        {h \in Hours : h >= hour - hours})
    BY DEF ViewsAreExact
  <2>1. Totals(hours) = SumOver(buckets, {i \in Slots : stamps[i] >= hour - hours})
    BY FoldIsSum DEF Totals
  <2>2. FoldFunctionOnSet(LAMBDA c, n : c + n, 0, lookups, {h \in Hours : h >= hour - hours})
          = SumOver(lookups, {h \in Hours : h >= hour - hours})
    BY FoldIsSum
  <2> QED BY <2>1, <2>2, ViewIsExact
<1> QED BY <1>1, WindowInvariant, PTL

---------------------------------------------------------------------------
(***************************************************************************)
(* The components together: a behaviour in which one of them moves and the  *)
(* others rest is a behaviour of each, so what is proved of each carries    *)
(* over.                                                                    *)
(***************************************************************************)

LEMMA ServicesAreComponents ==
  ServicesSpec =>
    /\ Spec /\ PollsSpec /\ SessionsSpec /\ KeysSpec /\ WindowSpec /\ WarmerSpec
    /\ LoginsSpec /\ PacingSpec /\ FeedsSpec /\ ScrapeSpec /\ DownloadsSpec /\ WriteBacksSpec
<1>1. ServicesInit =>
        /\ Init /\ PollsInit /\ SessionsInit /\ KeysInit /\ WindowInit /\ WarmerInit
        /\ LoginsInit /\ PacingInit /\ FeedsInit /\ ScrapeInit /\ DownloadsInit
        /\ WriteBacksInit
  BY DEF ServicesInit
<1>2. [ServicesNext]_servicesVars =>
        /\ [Next]_resolverVars /\ [PollsNext]_pollsVars /\ [SessionsNext]_sessionVars
        /\ [KeysNext]_keysVars /\ [WindowNext]_windowVars /\ [WarmerNext]_warmerVars
        /\ [LoginsNext]_loginVars /\ [PacingNext]_pacingVars /\ [FeedsNext]_feedsVars
        /\ [ScrapeNext]_scrapeVars /\ [DownloadsNext]_downloadsVars
        /\ [WriteBacksNext]_writeBackVars
  BY DEF ServicesNext, servicesVars
<1>3. ServicesSpec => Spec /\ PollsSpec /\ SessionsSpec /\ KeysSpec
  BY <1>1, <1>2, PTL DEF ServicesSpec, Spec, PollsSpec, SessionsSpec, KeysSpec
<1>4. ServicesSpec => WindowSpec /\ WarmerSpec /\ LoginsSpec /\ PacingSpec
  BY <1>1, <1>2, PTL DEF ServicesSpec, WindowSpec, WarmerSpec, LoginsSpec, PacingSpec
<1>5. ServicesSpec => FeedsSpec /\ ScrapeSpec /\ DownloadsSpec /\ WriteBacksSpec
  BY <1>1, <1>2, PTL DEF ServicesSpec, FeedsSpec, ScrapeSpec, DownloadsSpec, WriteBacksSpec
<1> QED BY <1>3, <1>4, <1>5

ServicesTyped ==
  /\ TypeOK /\ PollsTypeOK /\ SessionsTypeOK /\ KeysTypeOK /\ WindowTypeOK /\ WarmerTypeOK
  /\ LoginsTypeOK /\ PacingTypeOK /\ FeedsTypeOK /\ ScrapeTypeOK /\ DownloadsTypeOK
  /\ WriteBacksTypeOK

(* Whichever of them moves, the state of each keeps its type.               *)
THEOREM ServicesTypesCorrect == ServicesSpec => []ServicesTypeOK
<1>1. ServicesSpec => []ServicesTyped
  BY ServicesAreComponents, TypeCorrect, PollsTypeCorrect, SessionTypeCorrect, KeysTypeCorrect,
     WindowTypeCorrect, WarmerTypeCorrect, LoginsTypeCorrect, PacingTypeCorrect,
     FeedsTypeCorrect, ScrapeTypeCorrect, DownloadsTypeCorrect, WriteBacksTypeCorrect, PTL
     DEF ServicesTyped
<1>2. ServicesTyped => ServicesTypeOK
  BY DEF ServicesTyped, ServicesTypeOK
<1> QED BY <1>1, <1>2, PTL

(* Whichever of them moves, every safety property of each holds, and the     *)
(* engine cache keeps its promise (AdapterCache).                           *)
THEOREM ServicesAreSafe ==
  ServicesSpec =>
    /\ []( /\ PollsAreTrue /\ LoginsAreSpared /\ StoreOpens /\ ViewsAreExact
           /\ WarmedPerBoundary /\ LoginsSuffice /\ HostIsSpared /\ FeedsWhole
           /\ ScrapeWhole /\ GrabIsFaithful /\ WriteBacksKept )
    /\ ImplementsAdapterCache
BY ServicesAreComponents, AnswersAreTrue, LoginsSpared, SecretsOpen, EveryViewIsExact,
   EachBoundaryWarmed, OneLoginSuffices, TrackersAreSpared, FeedsAreWhole, SearchesAreWhole,
   GrabsAreFaithful, WriteBacksAreKept, Refinement, PTL
===========================================================================
