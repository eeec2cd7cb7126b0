--------------------------- MODULE CacheCounters ---------------------------
(***************************************************************************)
(* The cache's hit-ratio counters (registry/searchcache_counters.go and     *)
(* SearchCache.serveMiss): misses, the one counter that is taken back.  A    *)
(* miss is counted before its live call, in the global total and in its      *)
(* instance's, and rolled back when the call fails; a reset in between,      *)
(* which the rollback recognises by resetEpoch, has already swept it away.   *)
(* The flush writes absolute values, so it must not run before the stored    *)
(* totals were added at boot (or by its own retry).                          *)
(*                                                                          *)
(* An absent entry of instCounters and an absent row both count zero.        *)
(***************************************************************************)
EXTENDS Integers, FiniteSets, Functions

CONSTANTS
  Lookup,     \* requests that miss the cache
  Inst,       \* row ids of indexers
  MaxMiss,    \* bound on the misses of an instance that ended well
  MaxReset,   \* bound on resets
  MaxBoot,    \* bound on restarts
  MaxAdd,     \* bound on indexers added under a reused id
  Nobody      \* no holder of counterPersistMu, no value loaded

ASSUME CounterSets == IsFiniteSet(Lookup) /\ IsFiniteSet(Inst)
ASSUME CounterNobody == Nobody \notin Inst \cup {"rehydrate", "flush", "reset"}
ASSUME CounterBounds == {MaxMiss, MaxReset, MaxBoot, MaxAdd} \subseteq Nat

VARIABLES
  alive,       \* alive[i]: the indexer exists
  dying,       \* deleted, and not yet forgotten by the cache
  countRows,        \* cache_counters, the misses of each instance
  misses,      \* the global total
  instMisses,  \* the total of each instance
  resetEpoch,
  countersRehydrated,
  persist,     \* counterPersistMu: who holds it, and how far it is
  lookup,      \* lookup[t]: the progress of request t
  boots, adds, \* number of restarts, and of indexers added
  done,        \* history: misses of each instance that ended well and still count
  raced      \* history: a race the code does not guard against, see below

counterVars == <<alive, dying, countRows, misses, instMisses, resetEpoch, countersRehydrated,
                 persist, lookup, boots, adds, done, raced>>
rowVars == <<alive, dying, boots, adds>>

LookupState == [pc : {"idle", "start", "global", "live", "failed", "undo"},
                inst : Inst \cup {Nobody}, seen : Nat]
IdleLookup == [pc |-> "idle", inst |-> Nobody, seen |-> 0]
Unlocked == [by |-> Nobody, todo |-> {}, rows |-> [i \in Inst |-> 0], inst |-> Nobody]

CountersTypeOK ==
  /\ alive \in [Inst -> BOOLEAN]
  /\ dying \subseteq Inst
  /\ countRows \in [Inst -> Int]
  /\ misses \in Int
  /\ instMisses \in [Inst -> Int]
  /\ resetEpoch \in Nat
  /\ countersRehydrated \in BOOLEAN
  /\ persist \in [by : {Nobody, "rehydrate", "flush", "reset"}, todo : SUBSET Inst,
                  rows : [Inst -> Int], inst : Inst \cup {Nobody}]
  /\ lookup \in [Lookup -> LookupState]
  /\ {boots, adds} \subseteq Nat
  /\ done \in [Inst -> Int]
  /\ raced \in BOOLEAN

-----------------------------------------------------------------------------
(* RehydrateCounters at boot runs before the first request; it may fail.    *)
Total(f) == FoldFunction(+, 0, f)

BootCounters ==
  \/ /\ instMisses' = countRows' /\ misses' = Total(countRows') /\ countersRehydrated' = TRUE
  \/ /\ instMisses' = [i \in Inst |-> 0] /\ misses' = 0 /\ countersRehydrated' = FALSE

CountersInit ==
  /\ alive = [i \in Inst |-> TRUE] /\ dying = {} /\ boots = 0 /\ adds = 0
  /\ countRows \in [Inst -> 0..1]
  /\ \/ instMisses = countRows /\ misses = Total(countRows) /\ countersRehydrated = TRUE
     \/ instMisses = [i \in Inst |-> 0] /\ misses = 0 /\ countersRehydrated = FALSE
  /\ resetEpoch = 0
  /\ persist = Unlocked
  /\ lookup = [t \in Lookup |-> IdleLookup]
  /\ done = countRows
  /\ raced = FALSE

(* A crash loses the memory; what the rows hold is what still counts. *)
CountersRestart ==
  /\ boots < MaxBoot /\ boots' = boots + 1
  /\ UNCHANGED <<alive, countRows, adds>>
  /\ dying' = {}
  /\ BootCounters
  /\ resetEpoch' = 0
  /\ persist' = Unlocked
  /\ lookup' = [t \in Lookup |-> IdleLookup]
  /\ done' = countRows
  /\ UNCHANGED raced

-----------------------------------------------------------------------------
(* serveMiss.                                                               *)
Under(i) == {t \in Lookup : lookup[t].inst = i}
Swept(i) == persist.by = "reset" /\ i \notin persist.todo
Step(t, pc) == lookup' = [lookup EXCEPT ![t].pc = pc]

LoadEpoch(t, i) ==
  /\ lookup[t].pc = "idle" /\ alive[i]
  /\ done[i] < MaxMiss
  /\ lookup' = [lookup EXCEPT ![t] = [pc |-> "start", inst |-> i, seen |-> resetEpoch]]
  /\ UNCHANGED <<rowVars, countRows, misses, instMisses, resetEpoch, countersRehydrated, persist, done,
                 raced>>

CountGlobal(t) ==
  /\ lookup[t].pc = "start"
  /\ Step(t, "global")
  /\ misses' = misses + 1
  /\ UNCHANGED <<rowVars, countRows, instMisses, resetEpoch, countersRehydrated, persist, done, raced>>

(* A miss that loaded the epoch before a reset and is counted after its sweep *)
(* stays counted, whatever becomes of it.                                   *)
CountInst(t) ==
  LET i == lookup[t].inst IN
  /\ lookup[t].pc = "global"
  /\ Step(t, "live")
  /\ instMisses' = [instMisses EXCEPT ![i] = @ + 1]
  /\ raced' = (raced \/ (lookup[t].seen # resetEpoch /\ ~(persist.by = "reset" /\ i \in persist.todo)))
  /\ UNCHANGED <<rowVars, countRows, misses, resetEpoch, countersRehydrated, persist, done>>

ResetSinceIgnored(t) == FALSE                         \* bug for the mutants
ResetSince(t) == lookup[t].seen # resetEpoch

(* runMiss returns, and the epoch is compared. *)
LookupEnds(t) ==
  LET i == lookup[t].inst IN
  /\ lookup[t].pc = "live"
  /\ \/ /\ ResetSince(t)
        /\ lookup' = [lookup EXCEPT ![t] = IdleLookup]
        /\ UNCHANGED done
     \/ /\ ~ResetSince(t)
        /\ lookup' = [lookup EXCEPT ![t] = IdleLookup]
        /\ done' = [done EXCEPT ![i] = @ + 1]
     \/ /\ ~ResetSince(t)
        /\ Step(t, "failed")
        /\ UNCHANGED done
  /\ UNCHANGED <<rowVars, countRows, misses, instMisses, resetEpoch, countersRehydrated, persist, raced>>

UndoGlobal(t) ==
  /\ lookup[t].pc = "failed"
  /\ Step(t, "undo")
  /\ misses' = misses - 1
  /\ UNCHANGED <<rowVars, countRows, instMisses, resetEpoch, countersRehydrated, persist, done, raced>>

UndoInst(t) ==
  /\ lookup[t].pc = "undo"
  /\ lookup' = [lookup EXCEPT ![t] = IdleLookup]
  /\ instMisses' = [instMisses EXCEPT ![lookup[t].inst] = @ - 1]
  /\ UNCHANGED <<rowVars, countRows, misses, resetEpoch, countersRehydrated, persist, done, raced>>

-----------------------------------------------------------------------------
(* ResetCounters, under counterPersistMu: epoch, sweep, DeleteAll.  A lookup  *)
(* past its comparison still takes its miss back.                           *)
Forgotten(i) == instMisses' = [instMisses EXCEPT ![i] = 0]
SweepStore(i) == Forgotten(i) /\ misses' = Total(instMisses')    \* bug for the mutants
Sweep(i) == Forgotten(i) /\ misses' = misses - instMisses[i]

ResetBegin ==
  /\ persist.by = Nobody
  /\ resetEpoch < MaxReset
  /\ resetEpoch' = resetEpoch + 1
  /\ persist' = [Unlocked EXCEPT !.by = "reset", !.todo = Inst]
  /\ raced' = (raced \/ \E t \in Lookup : lookup[t].pc \in {"failed", "undo"})
  /\ UNCHANGED <<rowVars, countRows, misses, instMisses, countersRehydrated, lookup, done>>

(* A lookup that began after the epoch moved is swept nevertheless.         *)
ResetSweep(i) ==
  /\ persist.by = "reset" /\ i \in persist.todo
  /\ persist' = [persist EXCEPT !.todo = @ \ {i}]
  /\ Sweep(i)
  /\ done' = [done EXCEPT ![i] = 0]
  /\ raced' = (raced \/ \E t \in Under(i) : /\ lookup[t].seen = resetEpoch
                                                /\ lookup[t].pc \in {"live", "failed", "undo"})
  /\ UNCHANGED <<rowVars, countRows, resetEpoch, countersRehydrated, lookup>>

(* DeleteAll may fail; before a rehydration that brings the totals back.    *)
ResetEnd ==
  /\ persist.by = "reset" /\ persist.todo = {}
  /\ persist' = Unlocked
  /\ \/ countRows' = [i \in Inst |-> 0] /\ UNCHANGED raced
     \/ UNCHANGED countRows /\ raced' = (raced \/ ~countersRehydrated)
  /\ UNCHANGED <<rowVars, misses, instMisses, resetEpoch, countersRehydrated, lookup, done>>

-----------------------------------------------------------------------------
(* FlushCounters, under counterPersistMu.                                   *)
FlushOrRetry ==
  /\ persist.by = Nobody
  /\ \/ /\ countersRehydrated
        /\ persist' = [Unlocked EXCEPT !.by = "flush", !.todo = Inst]
     \/ /\ ~countersRehydrated      \* the retry reads the rows; when that fails, no flush
        /\ persist' = [Unlocked EXCEPT !.by = "rehydrate", !.todo = Inst, !.rows = countRows]

FlushBegin ==
  /\ FlushOrRetry
  /\ UNCHANGED <<rowVars, countRows, misses, instMisses, resetEpoch, countersRehydrated, lookup, done,
                 raced>>

RetryAdd(i) ==
  /\ persist.by = "rehydrate" /\ i \in persist.todo
  /\ persist' = [persist EXCEPT !.todo = @ \ {i}]
  /\ instMisses' = [instMisses EXCEPT ![i] = @ + persist.rows[i]]
  /\ UNCHANGED <<rowVars, countRows, misses, resetEpoch, countersRehydrated, lookup, done, raced>>

RetryEnd ==
  /\ persist.by = "rehydrate" /\ persist.todo = {}
  /\ misses' = misses + Total(persist.rows)
  /\ countersRehydrated' = TRUE
  /\ persist' = [Unlocked EXCEPT !.by = "flush", !.todo = Inst]
  /\ UNCHANGED <<rowVars, countRows, instMisses, resetEpoch, lookup, done, raced>>

FlushLoad(i) ==
  /\ persist.by = "flush" /\ persist.inst = Nobody /\ i \in persist.todo
  /\ persist' = [persist EXCEPT !.todo = @ \ {i}, !.inst = i, !.rows[i] = instMisses[i]]
  /\ UNCHANGED <<rowVars, countRows, misses, instMisses, resetEpoch, countersRehydrated, lookup, done,
                 raced>>

(* The upsert of a deleted indexer violates its foreign key; any may fail.  *)
FlushUpsert ==
  LET i == persist.inst IN
  /\ persist.by = "flush" /\ i # Nobody
  /\ persist' = [persist EXCEPT !.inst = Nobody, !.rows[i] = 0]
  /\ \/ UNCHANGED countRows
     \/ alive[i] /\ countRows' = [countRows EXCEPT ![i] = persist.rows[i]]
  /\ UNCHANGED <<rowVars, misses, instMisses, resetEpoch, countersRehydrated, lookup, done, raced>>

FlushEnd ==
  /\ persist.by = "flush" /\ persist.inst = Nobody /\ persist.todo = {}
  /\ persist' = Unlocked
  /\ UNCHANGED <<rowVars, countRows, misses, instMisses, resetEpoch, countersRehydrated, lookup, done,
                 raced>>

-----------------------------------------------------------------------------
(* Manager.Delete commits, the row cascades; forgetInstance follows.        *)
DeleteCommit(i) ==
  /\ alive[i]
  /\ alive' = [alive EXCEPT ![i] = FALSE]
  /\ dying' = dying \cup {i}
  /\ countRows' = [countRows EXCEPT ![i] = 0]
  /\ UNCHANGED <<misses, instMisses, resetEpoch, countersRehydrated, persist, lookup, boots, adds,
                 done, raced>>

ForgetCounters(i) ==
  /\ i \in dying
  /\ dying' = dying \ {i}
  /\ Sweep(i)
  /\ UNCHANGED <<alive, countRows, resetEpoch, countersRehydrated, persist, lookup, boots, adds, done,
                 raced>>

(* Manager.Add gets the id again.  What is left of the deleted indexer, a     *)
(* lookup of it, or a row of it read by the retry or the flush, meets the new *)
(* one.                                                                      *)
AddAgain(i) ==
  /\ ~alive[i]
  /\ adds < MaxAdd /\ adds' = adds + 1
  /\ alive' = [alive EXCEPT ![i] = TRUE]
  /\ done' = [done EXCEPT ![i] = 0]
  /\ raced' = \/ raced \/ i \in dying \/ instMisses[i] # 0 \/ Under(i) # {}
                \/ persist.by \in {"rehydrate", "flush"}
  /\ UNCHANGED <<dying, countRows, misses, instMisses, resetEpoch, countersRehydrated, persist, lookup,
                 boots>>

CountersNext ==
  \/ \E t \in Lookup : \/ \E i \in Inst : LoadEpoch(t, i)
                       \/ CountGlobal(t) \/ CountInst(t) \/ LookupEnds(t)
                       \/ UndoGlobal(t) \/ UndoInst(t)
  \/ ResetBegin \/ ResetEnd \/ FlushBegin \/ RetryEnd \/ FlushUpsert \/ FlushEnd
  \/ \E i \in Inst : \/ ResetSweep(i) \/ RetryAdd(i) \/ FlushLoad(i)
                     \/ DeleteCommit(i) \/ ForgetCounters(i) \/ AddAgain(i)
  \/ CountersRestart

CountersSpec == CountersInit /\ [][CountersNext]_counterVars

-----------------------------------------------------------------------------
At(pcs) == Cardinality({t \in Lookup : lookup[t].pc \in pcs})

(* The global total is the sum of the instances' at all times: the steps that *)
(* have changed one and not yet the other account for the whole difference,   *)
(* through resets, deletes, retries and rollbacks that overlap                *)
(* (searchcache_counters.go: "keeping the global = sum-of-rows invariant").   *)
GlobalIsSum ==
  misses = Total(instMisses) + At({"global"}) - At({"undo"})
           - (IF persist.by = "rehydrate"
              THEN Total([i \in Inst |-> IF i \in persist.todo THEN 0 ELSE persist.rows[i]]) ELSE 0)

(* The stored misses that have not been added to the instance's total yet. *)
Owed(i) == IF countersRehydrated \/ (persist.by = "rehydrate" /\ i \notin persist.todo)
           THEN 0 ELSE countRows[i]

Underway(i) == Cardinality({t \in Under(i) : /\ lookup[t].pc \in {"live", "failed", "undo"}
                                             /\ lookup[t].seen = resetEpoch})

(* An instance's misses are those that ended well since the last reset, in    *)
(* this session and before it, and those under way: a failed boot load, a     *)
(* flush, a reset during live calls and a restart neither lose one, nor count *)
(* one twice, nor bring one back (serveMiss, RehydrateCounters, FlushCounters,*)
(* ResetCounters).                                                           *)
MissesExact ==
  ~raced /\ persist.by # "reset"
    => \A i \in Inst : alive[i] => instMisses[i] + Owed(i) = done[i] + Underway(i)

(* The counters agree with each other and with what happened: see the two   *)
(* parts (searchcache_counters.go).                                          *)
CountersAgree == GlobalIsSum /\ MissesExact
=============================================================================
