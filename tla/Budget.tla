------------------------------- MODULE Budget -------------------------------
(***************************************************************************)
(* The request budget of one indexer (registry/budget.go: RequestBudget),   *)
(* for one of its two kinds: queries and grabs are counted by the same code *)
(* in separate fields of one row.  A live search or a grab reads the clock, *)
(* reserves a unit under the instance's mutex, and gives it back when it    *)
(* never reached the tracker; a quota error of the tracker's own latches    *)
(* the period.  Counters are written through to the database, best effort.  *)
(*                                                                          *)
(* The clock counts hours.  A call is counted under the period its own      *)
(* timestamp fell in, which may be over by the time it takes the mutex.     *)
(***************************************************************************)
EXTENDS Naturals, FiniteSets

CONSTANTS
  Call,         \* requests of this kind against the indexer
  Plan,         \* the settings its engines may be built with: [unit, limit]
  HoursPerDay,  \* 24
  MaxClock,     \* bound on the clock
  MaxCharge,    \* bound on the units charged in one period
  MaxRestart,   \* bound on restarts of the process
  NoLimit,      \* a nil limit
  NoPeriod,     \* the empty period key
  NotLoaded,    \* no state in RequestBudget.states, or one not loaded yet
  NoRow         \* no row in indexer_budget_counters

Unit == {"day", "hour"}
Limit == (Nat \ {0}) \cup {NoLimit}
Key == [unit : Unit, n : Nat]

(* budgetKindState *)
Counter == [period : Key \cup {NoPeriod}, count : Nat, exhausted : BOOLEAN]

ASSUME CallAssumption == IsFiniteSet(Call)
ASSUME PlanAssumption == Plan \subseteq [unit : Unit, limit : Limit]
ASSUME HoursAssumption == HoursPerDay \in Nat \ {0}
ASSUME BudgetBounds == {MaxClock, MaxCharge, MaxRestart} \subseteq Nat
ASSUME AbsentAssumption == /\ NoLimit \notin Nat
                           /\ NoPeriod \notin Key
                           /\ NotLoaded \notin Counter
                           /\ NoRow \notin Counter

VARIABLES
  clock,     \* hours since the start
  mem,       \* budgetState: NotLoaded, or the counter held in memory
  disk,      \* NoRow, or the persisted counter
  exists,    \* whether the indexer exists; its row goes with it
  call,      \* call[c]: the progress of request c
  restarts,  \* number of restarts
  ledger,    \* history: units spent for good, per period ever opened
  spent,     \* history: the periods the tracker declared spent
  excused    \* history: what the code does not guard against, see Roll

vars == <<clock, mem, disk, exists, call, restarts, ledger, spent, excused>>

CallState == [stage : {"idle", "stamped", "granted", "refused"},
              key : Key \cup {NoPeriod}, limit : Limit]
IdleCall == [stage |-> "idle", key |-> NoPeriod, limit |-> NoLimit]

TypeOK == /\ clock \in Nat
          /\ mem \in Counter \cup {NotLoaded}
          /\ disk \in Counter \cup {NoRow}
          /\ exists \in BOOLEAN
          /\ call \in [Call -> CallState]
          /\ restarts \in Nat
          /\ DOMAIN ledger \subseteq Key /\ ledger \in [DOMAIN ledger -> Nat]
          /\ spent \subseteq Key
          /\ excused \subseteq {"reopened", "lost", "recycled"}

(* A period is a UTC day or a UTC hour. *)
periodKey(t, unit) ==
  [unit |-> unit, n |-> IF unit = "hour" THEN t ELSE t \div HoursPerDay]

Fresh(key) == [period |-> key, count |-> 0, exhausted |-> FALSE]
NoLedger == [k \in {} |-> 0]

Init == /\ clock = 0
        /\ mem = NotLoaded
        /\ disk = NoRow
        /\ exists = TRUE
        /\ call = [c \in Call |-> IdleCall]
        /\ restarts = 0
        /\ ledger = NoLedger
        /\ spent = {}
        /\ excused = {}

-----------------------------------------------------------------------------
(* What every operation does under the mutex.                               *)

Durable == IF disk = NoRow THEN Fresh(NoPeriod) ELSE disk

(* ensureLoaded: the first touch reads the row; a failed read starts over.   *)
Loaded == IF mem # NotLoaded THEN {mem} ELSE {Durable, Fresh(NoPeriod)}

(* A rollover drops the old period, and with it the count and the latch. *)
Rolled(k, key) == IF k.period = key THEN k ELSE Fresh(key)

(* persist: the write may fail, and does without the indexer. *)
Persist(k) == disk' \in (IF exists THEN {disk, k} ELSE {disk})

Lost(k) == IF mem = NotLoaded /\ k # Durable THEN {"lost"} ELSE {}

(* Counting under key starts from k.  A period that was closed before and is *)
(* opened again, by a timestamp of an earlier period or a change of unit,    *)
(* starts from zero: that is reopened.                                      *)
Roll(k, key) ==
  /\ ledger' = [x \in DOMAIN ledger \cup {key} |-> IF x \in DOMAIN ledger THEN ledger[x] ELSE 0]
  /\ excused' = excused \cup Lost(k)
                  \cup (IF k.period # key /\ key \in DOMAIN ledger THEN {"reopened"} ELSE {})

AllowedOneMore(k, limit) == ~k.exhausted /\ (limit = NoLimit \/ k.count <= limit)  \* bug for the mutants
AllowedUnlatched(k, limit) == limit = NoLimit \/ k.count < limit                   \* bug for the mutants
Allowed(k, limit) == ~k.exhausted /\ (limit = NoLimit \/ k.count < limit)

-----------------------------------------------------------------------------
(* budgetedLiveSearch, Grab: reservedAt is read before the mutex is taken.  *)
Stamp(c) ==
  /\ exists
  /\ call[c].stage = "idle"
  /\ \A x \in DOMAIN ledger : ledger[x] < MaxCharge
  /\ \E plan \in Plan :
       call' = [call EXCEPT ![c] = [stage |-> "stamped", key |-> periodKey(clock, plan.unit),
                                    limit |-> plan.limit]]
  /\ UNCHANGED <<clock, mem, disk, exists, restarts, ledger, spent, excused>>

reserve(c) ==
  /\ call[c].stage = "stamped"
  /\ \E k \in Loaded :
       LET now == Rolled(k, call[c].key)
           allow == Allowed(now, call[c].limit)
           next == IF allow THEN [now EXCEPT !.count = @ + 1] ELSE now
       IN  /\ mem' = next
           /\ Persist(next)
           /\ Roll(k, call[c].key)
           /\ call' = [call EXCEPT ![c] = IF allow THEN [@ EXCEPT !.stage = "granted"] ELSE IdleCall]
  /\ UNCHANGED <<clock, exists, restarts, spent>>

(* The unit goes back only while its own period is still the stored one. *)
RefundsAlways(k, key) == TRUE            \* bug for the mutants
RefundsAnyPeriod(k, key) == k.count > 0  \* bug for the mutants
Refunds(k, key) == k.period = key /\ k.count > 0

(* The request never reached the tracker. *)
release(c) ==
  /\ call[c].stage = "granted"
  /\ \E k \in Loaded :
       LET next == IF Refunds(k, call[c].key) THEN [k EXCEPT !.count = @ - 1] ELSE k
       IN  /\ mem' = next
           /\ IF Refunds(k, call[c].key) THEN Persist(next) ELSE UNCHANGED disk
           /\ excused' = excused \cup Lost(k)
  /\ call' = [call EXCEPT ![c] = IdleCall]
  /\ UNCHANGED <<clock, exists, restarts, ledger, spent>>

Spend(key) == [x \in DOMAIN ledger |-> IF x = key THEN ledger[x] + 1 ELSE ledger[x]]

(* The tracker answered, or failed in a way it saw. *)
Answered(c) ==
  /\ call[c].stage = "granted"
  /\ ledger' = Spend(call[c].key)
  /\ call' = [call EXCEPT ![c] = IdleCall]
  /\ UNCHANGED <<clock, mem, disk, exists, restarts, spent, excused>>

(* learnQuotaSpent reads the clock again, before MarkQuotaSpent locks. *)
QuotaExceeded(c) ==
  /\ call[c].stage = "granted"
  /\ ledger' = Spend(call[c].key)
  /\ call' = [call EXCEPT ![c].stage = "refused", ![c].key = periodKey(clock, call[c].key.unit)]
  /\ UNCHANGED <<clock, mem, disk, exists, restarts, spent, excused>>

MarkQuotaSpent(c) ==
  /\ call[c].stage = "refused"
  /\ \E k \in Loaded :
       LET next == [Rolled(k, call[c].key) EXCEPT !.exhausted = TRUE]
       IN  mem' = next /\ Persist(next) /\ Roll(k, call[c].key)
  /\ spent' = spent \cup {call[c].key}
  /\ call' = [call EXCEPT ![c] = IdleCall]
  /\ UNCHANGED <<clock, exists, restarts>>

(* The usage meter reads through, and counts nothing. *)
Status ==
  /\ \E k \in Loaded : mem' = k /\ excused' = excused \cup Lost(k)
  /\ UNCHANGED <<clock, disk, exists, call, restarts, ledger, spent>>

(* Whatever the other kind does under the mutex writes this kind's fields with *)
(* the row.                                                                 *)
OtherKind ==
  /\ \E k \in Loaded : mem' = k /\ Persist(k) /\ excused' = excused \cup Lost(k)
  /\ UNCHANGED <<clock, exists, call, restarts, ledger, spent>>

-----------------------------------------------------------------------------
Tick == /\ clock < MaxClock
        /\ clock' = clock + 1
        /\ UNCHANGED <<mem, disk, exists, call, restarts, ledger, spent, excused>>

(* Manager.Delete commits; the row cascades. *)
Delete == /\ exists
          /\ exists' = FALSE
          /\ disk' = NoRow
          /\ UNCHANGED <<clock, mem, call, restarts, ledger, spent, excused>>

(* What memory held and the database never got is lost with it. *)
DropMemory == /\ mem' = NotLoaded
              /\ excused' = excused \cup (IF mem \in {NotLoaded, Durable} THEN {} ELSE {"lost"})

(* forgetInstance, after a delete or an import; it may come late. *)
ForgetInstance == /\ DropMemory
                  /\ UNCHANGED <<clock, disk, exists, call, restarts, ledger, spent>>

(* Manager.Add reuses the row id of the last indexer deleted: what a request *)
(* of that one still does is charged to the new one.                        *)
Add == /\ ~exists
       /\ exists' = TRUE
       /\ ledger' = NoLedger /\ spent' = {}
       /\ excused' = IF mem # NotLoaded \/ \E c \in Call : call[c].stage # "idle"
                     THEN {"recycled"} ELSE {}
       /\ UNCHANGED <<clock, mem, disk, call, restarts>>

InFlight(key) == { c \in Call : call[c].stage = "granted" /\ call[c].key = key }

(* Units spent for good, and those of the calls under way. *)
Charged(key) == ledger[key] + Cardinality(InFlight(key))

(* A unit whose call dies with the process is not handed back. *)
Restart == /\ restarts < MaxRestart
           /\ restarts' = restarts + 1
           /\ DropMemory
           /\ ledger' = [x \in DOMAIN ledger |-> Charged(x)]
           /\ call' = [c \in Call |-> IdleCall]
           /\ UNCHANGED <<clock, disk, exists, spent>>

-----------------------------------------------------------------------------
Serve(c) == \/ Stamp(c) \/ reserve(c) \/ release(c) \/ Answered(c)
            \/ QuotaExceeded(c) \/ MarkQuotaSpent(c)

Next == \/ \E c \in Call : Serve(c)
        \/ Status \/ OtherKind \/ Tick \/ Delete \/ ForgetInstance \/ Add \/ Restart

Spec == Init /\ [][Next]_vars

-----------------------------------------------------------------------------
(* The counter in force: the one in memory, or the one to be read. *)
Effective == IF mem = NotLoaded THEN Durable ELSE mem

(* Unless a period was reopened, a write was lost or a row id recycled, the  *)
(* counter is exact: it is the units spent in its period plus the calls      *)
(* under way, a refund never takes a unit of another period, and the latch   *)
(* is what the tracker said of this period (reserve, release).              *)
CounterIsExact ==
  (exists /\ excused = {} /\ Effective.period # NoPeriod) =>
    /\ Effective.period \in DOMAIN ledger
    /\ Effective.count = Charged(Effective.period)
    /\ Effective.exhausted <=> Effective.period \in spent

Limited(unit) == \A plan \in Plan : plan.unit = unit => plan.limit # NoLimit

(* No period is ever charged beyond the largest limit an engine was built    *)
(* with, however the calls interleave with rollovers and restarts.           *)
WithinLimit ==
  (exists /\ excused = {}) => \A key \in DOMAIN ledger :
    (Limited(key.unit) /\ Charged(key) > 0) =>
      \E plan \in Plan : plan.unit = key.unit /\ Charged(key) <= plan.limit

(* Once the tracker has declared a period spent, no unit of it is granted    *)
(* (MarkQuotaSpent, the exhausted latch).                                   *)
SpentIsFinal ==
  [][\A c \in Call :
       (call[c].stage = "stamped" /\ call'[c].stage = "granted" /\ exists /\ excused' = {})
         => call[c].key \notin spent]_vars
=============================================================================
