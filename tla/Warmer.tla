------------------------------- MODULE Warmer -------------------------------
(***************************************************************************)
(* The RSS warmer (registry/warmer.go): every minute it reads which        *)
(* indexers have opted in, and drives a search under cache bypass for each *)
(* one that is due.  First due times are spread over the interval, and     *)
(* every later one is counted from the one before it, past now, so that a  *)
(* process that was suspended warms once and keeps its phase.              *)
(*                                                                         *)
(* Times are minutes.  What a warm does is the Bypass of SearchCache.      *)
(***************************************************************************)
EXTENDS Integers, FiniteSets

CONSTANTS
  Feed,       \* row ids of indexers
  Interval,   \* warm intervals, after the clamp
  LastTick,   \* bound of a run
  MaxChange,  \* bound: settings edited, reads that fail
  Unseeded    \* no due time

ASSUME WarmerAssumption ==
  /\ Feed \subseteq Nat /\ IsFiniteSet(Feed) /\ Interval \subseteq Nat \ {0}
  /\ Unseeded \notin Nat /\ LastTick \in Nat /\ MaxChange \in Nat

VARIABLES
  clock,      \* the time of the last tick
  optIn,      \* the interval each indexer is set to, 0 for none
  nextDue,    \* when each target is due
  queue,      \* targets of this tick that are still to be warmed
  changes,
  grid,       \* history: first due time and step of each target's boundaries
  met,        \* history: boundaries that were behind it at the last tick
  extra       \* history: targets warmed for no boundary, or left out at one

warmerVars == <<clock, optIn, nextDue, queue, changes, grid, met, extra>>

NoGrid == [base |-> 0, step |-> 1]

WarmerInit ==
  /\ clock = 0
  /\ optIn \in [Feed -> {0} \cup Interval]
  /\ nextDue = [i \in Feed |-> Unseeded]
  /\ queue = {} /\ changes = 0
  /\ grid = [i \in Feed |-> NoGrid]
  /\ met = [i \in Feed |-> 0]
  /\ extra = {}

warmPhase(i, interval) == i % interval

(* The first boundary after now, by whole intervals.                        *)
AdvancedOnce(next, interval, now) == IF next > now THEN now ELSE next + interval  \* mutant
Advanced(next, interval, now) == next + interval * ((now - next) \div interval + 1)

Seeded(i) == nextDue[i] # Unseeded
Due(targets, now) == {i \in targets : Seeded(i) /\ nextDue[i] <= now}

(* A target seen for the first time gets its phase and is not due; one that *)
(* is no longer a target loses its due time.                                *)
Scheduled(targets, now) ==
  [i \in Feed |->
     IF i \notin targets THEN Unseeded
     ELSE IF ~Seeded(i) THEN now + warmPhase(i, optIn[i])
     ELSE IF i \in Due(targets, now) THEN Advanced(nextDue[i], optIn[i], now)
     ELSE nextDue[i]]

(* The boundaries of a target that are behind it.                           *)
Passed(i, now) ==
  IF now < grid[i].base THEN 0 ELSE (now - grid[i].base) \div grid[i].step + 1

(* The history keeps its own account: it restarts where a target is seen    *)
(* first, and continues from the boundary just met under the interval that  *)
(* is set by then.                                                          *)
Account(targets, now) ==
  LET owed == {i \in targets : Seeded(i) /\ Passed(i, now) > met[i]}
      from(i) == grid[i].base + grid[i].step * met[i]
      rebased(i) == i \in owed /\ grid[i].step # optIn[i]
  IN /\ extra' = extra \cup {i \in Feed : (i \in owed) # (i \in Due(targets, now))}
     /\ grid' = [i \in Feed |->
          IF i \notin targets THEN NoGrid
          ELSE IF ~Seeded(i) THEN [base |-> now + warmPhase(i, optIn[i]), step |-> optIn[i]]
          ELSE IF rebased(i) THEN [base |-> from(i), step |-> optIn[i]]
          ELSE grid[i]]
     /\ met' = [i \in Feed |->
          IF i \notin targets \/ ~Seeded(i) THEN 0
          ELSE IF rebased(i) THEN (now - from(i)) \div optIn[i] + 1
          ELSE Passed(i, now)]

(* One tick: a minute after the last one, or long after it when the process *)
(* was suspended or the last warms took their time.  Targets whose settings *)
(* cannot be read are left out, all of them if the list cannot be read or   *)
(* the cache is off.                                                        *)
Tick ==
  /\ queue = {}
  /\ \E now \in clock + 1 .. LastTick, unread \in SUBSET {i \in Feed : optIn[i] # 0} :
       LET targets == {i \in Feed : optIn[i] # 0} \ unread
       IN /\ changes + Cardinality(unread) <= MaxChange
          /\ changes' = changes + Cardinality(unread)
          /\ clock' = now
          /\ queue' = Due(targets, now)
          /\ nextDue' = Scheduled(targets, now)
          /\ Account(targets, now)
  /\ UNCHANGED optIn

(* A warm is one search; its failure is a skip until the next boundary.     *)
WarmOne ==
  /\ \E i \in queue : queue' = queue \ {i}
  /\ UNCHANGED <<clock, optIn, nextDue, changes, grid, met, extra>>

(* An operator sets, changes or clears the interval, or disables or deletes *)
(* the indexer.                                                             *)
EditWarmInterval ==
  /\ changes < MaxChange /\ changes' = changes + 1
  /\ \E i \in Feed, interval \in {0} \cup Interval :
       interval # optIn[i] /\ optIn' = [optIn EXCEPT ![i] = interval]
  /\ UNCHANGED <<clock, nextDue, queue, grid, met, extra>>

(* A restart forgets every due time.                                        *)
WarmerRestart ==
  /\ changes < MaxChange /\ changes' = changes + 1
  /\ nextDue' = [i \in Feed |-> Unseeded]
  /\ queue' = {}
  /\ grid' = [i \in Feed |-> NoGrid]
  /\ met' = [i \in Feed |-> 0]
  /\ UNCHANGED <<clock, optIn, extra>>

WarmerNext == Tick \/ WarmOne \/ EditWarmInterval \/ WarmerRestart

WarmerSpec == WarmerInit /\ [][WarmerNext]_warmerVars

-----------------------------------------------------------------------------
WarmerTypeOK ==
  /\ clock \in 0 .. LastTick
  /\ optIn \in [Feed -> {0} \cup Interval]
  /\ nextDue \in [Feed -> Nat \cup {Unseeded}]
  /\ queue \subseteq Feed /\ extra \subseteq Feed
  /\ changes \in 0 .. MaxChange
  /\ met \in [Feed -> Nat]

(* A target is warmed at a tick exactly when one of its boundaries has come *)
(* since the tick before, however many came at once: no backlog is replayed *)
(* after a suspension, no boundary is left out, and the phase never drifts, *)
(* whatever intervals are set and reads fail on the way.                    *)
WarmedPerBoundary ==
  /\ extra = {}
  /\ \A i \in Feed : Seeded(i) => nextDue[i] = grid[i].base + grid[i].step * met[i]
=============================================================================
