----------------------------- MODULE HitWindow ------------------------------
(***************************************************************************)
(* The rolling hit ratio of the search-result cache                        *)
(* (registry/searchcache_window.go): one ring of hourly buckets serves     *)
(* every view, from the last day to the last month.  A bucket is reused    *)
(* for a later hour and emptied when that hour is first counted in.        *)
(*                                                                         *)
(* A lookup reads the clock before it takes the mutex, so it may count     *)
(* into the hour before.  Hits and misses go alike: one of them is kept.   *)
(***************************************************************************)
EXTENDS Integers, Functions

CONSTANTS
  WindowHours,  \* the widest view (maxWindowHours, 30 days)
  LastHour,     \* bound of a run
  MaxLookup     \* bound: lookups per hour

ASSUME WindowAssumption ==
  /\ WindowHours \in Nat \ {0}
  /\ LastHour \in Nat /\ LastHour > WindowHours
  /\ MaxLookup \in Nat

VARIABLES
  hour,     \* the clock, in hours
  stamps,   \* the hour each slot of the ring holds
  buckets,  \* and what was counted in it
  lookups   \* history: lookups of each hour since the last reset

windowVars == <<hour, stamps, buckets, lookups>>

(* One slot more than the widest view has hours: the hour under way is only *)
(* partly over, and so is the oldest.                                       *)
RingLengthNoSpare == WindowHours      \* mutant
RingLength == WindowHours + 1
Slots == 0 .. RingLength - 1

Hours == 0 .. LastHour

(* An empty ring is stamped with hour 0, an hour long gone by the clock.    *)
WindowInit ==
  /\ hour = WindowHours + 1
  /\ stamps = [i \in Slots |-> 0]
  /\ buckets = [i \in Slots |-> 0]
  /\ lookups = [h \in Hours |-> 0]

(* The slot of the hour, emptied first if it holds another one.             *)
CountedInto(h) ==
  LET i == h % RingLength
  IN /\ stamps' = [stamps EXCEPT ![i] = h]
     /\ buckets' = [buckets EXCEPT ![i] = (IF stamps[i] = h THEN @ ELSE 0) + 1]

Counted ==
  \E h \in {hour - 1, hour} :
    /\ lookups[h] < MaxLookup
    /\ CountedInto(h)
    /\ lookups' = [lookups EXCEPT ![h] = @ + 1]
    /\ UNCHANGED hour

(* The clock moves on, over a night or over months.                         *)
HourPasses ==
  /\ \E h \in Hours : h > hour /\ hour' = h
  /\ UNCHANGED <<stamps, buckets, lookups>>

ResetWindow ==
  /\ stamps' = [i \in Slots |-> 0] /\ buckets' = [i \in Slots |-> 0]
  /\ lookups' = [h \in Hours |-> 0]
  /\ UNCHANGED hour

WindowNext == Counted \/ HourPasses \/ ResetWindow

WindowSpec == WindowInit /\ [][WindowNext]_windowVars

-----------------------------------------------------------------------------
(* The view over the last hours sums the buckets stamped since then.        *)
Totals(hours) ==
  FoldFunctionOnSet(LAMBDA c, n : c + n, 0, buckets,
                    {i \in Slots : stamps[i] >= hour - hours})

WindowTypeOK ==
  /\ hour \in Hours
  /\ stamps \in [Slots -> Hours] /\ buckets \in [Slots -> Nat]
  /\ lookups \in [Hours -> 0 .. MaxLookup]

(* Every view, up to the widest, counts exactly the lookups of its hours    *)
(* since the last reset: none of an hour whose slot was reused, none twice, *)
(* and none missing at the boundary, whatever hours went by in between.     *)
ViewsAreExact ==
  \A hours \in 1 .. WindowHours :
    Totals(hours) = FoldFunctionOnSet(LAMBDA c, n : c + n, 0, lookups,
                                      {h \in Hours : h >= hour - hours})
=============================================================================
