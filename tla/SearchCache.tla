----------------------------- MODULE SearchCache -----------------------------
(***************************************************************************)
(* The cache-aside search path (searchcache.go, searchcache_breaker.go) on  *)
(* top of the Resolver: lookups, miss flights, detached refreshes, the      *)
(* negative breaker, and the write-back with its two epoch checks, next to  *)
(* the configuration mutations that purge the cache.  One cache key.        *)
(*                                                                          *)
(* A result is identified by the versions its engine was built from.  Time  *)
(* is left out: an unexpired row may be hit and may be missed (an expired,  *)
(* clamped, corrupt or unreadable row all end in missPath), and an open     *)
(* breaker may lapse whenever it is consulted next.                         *)
(***************************************************************************)
EXTENDS Resolver

CONSTANTS
  Swr,          \* detached refresh goroutines that can run at once
  Fickle,       \* requests whose client may go away
  NegativeTTL,  \* whether the negative breaker is armed
  Slow,         \* whether the HTTP client may time out on its own
  DbFails       \* whether a purge or a compensating delete may fail

ASSUME FickleAssumption == Fickle \subseteq Req
ASSUME SwitchAssumption == {NegativeTTL, Slow, DbFails} \subseteq BOOLEAN
ASSUME ProcAssumption == Req \cap Swr = {}

VARIABLES
  row,       \* the search_cache row: None, or the versions behind its results
  brk,       \* the breaker entry: None, or the failure it replays
  task,      \* task[p]: the search of a request, or a refresh
  refresh,   \* refresh[s]: the engine a refresh goroutine carries
  gone,      \* requests whose own context is done
  orphaned   \* history: a purge or a compensation was owed and never ran

cacheVars == <<row, brk, task, refresh, gone, orphaned>>
vars == <<resolverVars, cacheVars>>

Proc == Req \cup Swr

(* What a flight, a lookup or a live search comes back with.  An error that *)
(* isContextError recognises is "canceled" (the caller's context) or        *)
(* "timeout" (the HTTP client's own deadline); "exhausted" is a refusal by  *)
(* the request budget.                                                      *)
Failure == [kind : {"error", "timeout"}, ver : Version]
Result == [kind : {"live", "stored", "error", "timeout", "exhausted", "canceled"}, ver : Version]

Stage == {"idle", "join", "wait", "dcheck", "gate", "live", "check", "store",
          "recheck", "undo", "answered"}

Task == [stage : Stage, role : {"none", "leader", "solo", "refresh"},
         tries : 0 .. 2, got : Result \cup {None}]
IdleTask == [stage |-> "idle", role |-> "none", tries |-> 0, got |-> None]

CacheTypeOK == /\ TypeOK
               /\ row \in Version \cup {None}
               /\ brk \in Failure \cup {None}
               /\ task \in [Proc -> Task]
               /\ refresh \in [Swr -> Adapter]
               /\ gone \subseteq Req
               /\ orphaned \in BOOLEAN

CacheInit == /\ Init
             /\ row = None
             /\ brk = None
             /\ task = [p \in Proc |-> IdleTask]
             /\ refresh = [s \in Swr |-> Blank]
             /\ gone = {}
             /\ orphaned = FALSE

Engine(p) == IF p \in Req THEN req[p].adapter ELSE refresh[p]

(* Handlers that committed and whose purge has not run. *)
Purging == { m \in Mut : mut[m] \notin {"idle", "added", "resource"} }

-----------------------------------------------------------------------------
(* The end of a live attempt, a flight or a lookup.                         *)

Answer(t, res) == [t EXCEPT !.stage = "answered", !.role = "none", !.got = res]

(* missFlightOnce: a context error while the caller's own context is live   *)
(* is taken for a dead leader's.  First one more flight, then an            *)
(* un-coalesced search.                                                     *)
NoRetry(r, res) == Answer(task[r], res)  \* bug for the mutants: a follower dies with its leader
AfterFlight(r, res) ==
  IF res.kind \in {"canceled", "timeout"} /\ r \notin gone
  THEN IF task[r].tries = 0
       THEN [task[r] EXCEPT !.stage = "join", !.role = "none", !.tries = 1]
       ELSE [task[r] EXCEPT !.stage = "gate", !.role = "solo", !.tries = 2]
  ELSE Answer(task[r], res)

(* Singleflight keys: cache key at builtEpoch. *)
OneFlight(p) == 0                        \* bug for the mutants: the epoch is left out
cacheFlightKey(p) == Engine(p).epoch
Coalesced(p, q) == p = q \/ (task[q].stage = "wait" /\ cacheFlightKey(q) = cacheFlightKey(p))

(* Bug for the mutants: a flight that ends without telling its followers. *)
LeaderOnly(p, res) == [task EXCEPT ![p] = IF task[p].role = "refresh" THEN IdleTask
                                          ELSE Answer(@, res)]

Completed(p, res) ==
  CASE task[p].role = "leader" ->
         [q \in Proc |-> IF Coalesced(p, q) THEN AfterFlight(q, res) ELSE task[q]]
    [] task[p].role = "solo" -> [task EXCEPT ![p] = Answer(@, res)]
    [] OTHER -> [task EXCEPT ![p] = IdleTask]

Complete(p, res) ==
  /\ task' = Completed(p, res)
  /\ refresh' = [s \in Swr |-> IF s = p THEN Blank ELSE refresh[s]]

Goto(p, stage) == task' = [task EXCEPT ![p].stage = stage] /\ UNCHANGED refresh

LiveResult(p) == [kind |-> "live", ver |-> Engine(p).ver]
At(p, stage) == task[p].stage = stage

-----------------------------------------------------------------------------
(* Lookup.                                                                  *)

Begin(r) ==
  /\ ResolveHit(r) \/ ResolveMiss(r)
  /\ UNCHANGED cacheVars

Building(r) ==
  /\ ReadRow(r) \/ SnapshotEpoch(r) \/ ReadSettings(r) \/ ReadRefs(r)
       \/ BuildFails(r) \/ Install(r)
  /\ task' = IF req'[r].pc = "idle" THEN [task EXCEPT ![r] = IdleTask] ELSE task
  /\ gone' = IF req'[r].pc = "idle" THEN gone \ {r} ELSE gone
  /\ UNCHANGED <<row, brk, refresh, orphaned>>

Searching(r) == req[r].pc = "ready" /\ At(r, "idle")

(* core.CacheBypass: a live search with a write-back, outside any flight. *)
Bypass(r) ==
  /\ Searching(r)
  /\ task' = [task EXCEPT ![r].stage = "gate", ![r].role = "solo"]
  /\ UNCHANGED <<resolverVars, row, brk, refresh, gone, orphaned>>

StoredResult == [kind |-> "stored", ver |-> row]

(* serveHit *)
Hit(r) ==
  /\ Searching(r)
  /\ row # None
  /\ task' = [task EXCEPT ![r] = Answer(@, StoredResult)]
  /\ UNCHANGED <<resolverVars, row, brk, refresh, gone, orphaned>>

(* serveHit past the refresh threshold: triggerSWR copies the op.  A refresh *)
(* whose flight is already running at this epoch adds nothing.               *)
HitAndRefresh(r) ==
  /\ Searching(r)
  /\ row # None
  /\ \A s \in Swr : task[s].stage # "idle" => cacheFlightKey(s) # cacheFlightKey(r)
  /\ \E s \in Swr :
       /\ At(s, "idle")
       /\ refresh' = [refresh EXCEPT ![s] = Engine(r)]
       /\ task' = [task EXCEPT ![r] = Answer(@, StoredResult),
                               ![s] = [IdleTask EXCEPT !.stage = "gate", !.role = "refresh"]]
  /\ UNCHANGED <<resolverVars, row, brk, gone, orphaned>>

BreakerOpen == NegativeTTL /\ brk # None

(* missPath: the breaker's fast path, else the miss flight. *)
Miss(r) ==
  /\ Searching(r)
  /\ task' = [task EXCEPT ![r] = IF BreakerOpen THEN Answer(@, brk)
                                 ELSE [@ EXCEPT !.stage = "join"]]
  /\ UNCHANGED <<resolverVars, row, brk, refresh, gone, orphaned>>

-----------------------------------------------------------------------------
(* The miss flight.                                                         *)

Leading(key) == { p \in Req : task[p].role = "leader" /\ cacheFlightKey(p) = key }

Join(r) ==
  /\ At(r, "join")
  /\ task' = IF Leading(cacheFlightKey(r)) = {}
             THEN [task EXCEPT ![r].stage = "dcheck", ![r].role = "leader"]
             ELSE [task EXCEPT ![r].stage = "wait"]
  /\ UNCHANGED <<resolverVars, row, brk, refresh, gone, orphaned>>

(* Bug for the mutants: the double-check answers from whatever it read. *)
DoubleCheckAny(r) ==
  /\ At(r, "dcheck")
  /\ Complete(r, StoredResult)
  /\ UNCHANGED <<resolverVars, row, brk, gone, orphaned>>

(* missFlight's double-check: a row stored meanwhile ends the flight. *)
DoubleCheckHit(r) ==
  /\ At(r, "dcheck")
  /\ row # None
  /\ Complete(r, StoredResult)
  /\ UNCHANGED <<resolverVars, row, brk, gone, orphaned>>

DoubleCheckMiss(r) ==
  /\ At(r, "dcheck")
  /\ Goto(r, "gate")
  /\ UNCHANGED <<resolverVars, row, brk, gone, orphaned>>

-----------------------------------------------------------------------------
(* fetchLive, the single outbound funnel.                                   *)

Replay(p) ==
  /\ At(p, "gate")
  /\ BreakerOpen
  /\ Complete(p, brk)
  /\ UNCHANGED <<resolverVars, row, brk, gone, orphaned>>

GoLive(p) ==
  /\ At(p, "gate")
  /\ ~BreakerOpen
  /\ Goto(p, "live")
  /\ UNCHANGED <<resolverVars, row, brk, gone, orphaned>>

LiveOk(p) ==
  /\ At(p, "live")
  /\ Goto(p, "check")
  /\ UNCHANGED <<resolverVars, row, brk, gone, orphaned>>

(* tripBreaker: only a caller whose own context is live may trip. *)
TripBreaker(p, err) == brk' = IF NegativeTTL /\ p \notin gone THEN err ELSE brk

LiveFails(p) ==
  /\ At(p, "live")
  /\ \E kind \in {"error"} \cup (IF Slow THEN {"timeout"} ELSE {}) :
       LET err == [kind |-> kind, ver |-> Engine(p).ver]
       IN  TripBreaker(p, err) /\ Complete(p, err)
  /\ UNCHANGED <<resolverVars, row, gone, orphaned>>

Bypassing(p) == task[p].role = "solo" /\ task[p].tries = 0

(* The request budget or the circuit refuses the call, or a refresh runs    *)
(* into its own deadline: an error that never trips.  A bypass is told of an *)
(* exhausted budget like of any other error.                                *)
LiveRefused(p) ==
  /\ At(p, "live")
  /\ \E kind \in {"error"} \cup (IF Bypassing(p) THEN {} ELSE {"exhausted"}) :
       Complete(p, [kind |-> kind, ver |-> Engine(p).ver])
  /\ UNCHANGED <<resolverVars, row, brk, gone, orphaned>>

LiveCanceled(r) ==
  /\ At(r, "live")
  /\ r \in gone
  /\ Complete(r, [kind |-> "canceled", ver |-> Engine(r).ver])
  /\ UNCHANGED <<resolverVars, row, brk, gone, orphaned>>

-----------------------------------------------------------------------------
(* storeBestEffort: gate, store, re-check, compensate.                      *)

CurrentEpoch(p) == Engine(p).epoch = instEpoch

CheckEpoch(p) ==
  /\ At(p, "check")
  /\ IF CurrentEpoch(p) THEN Goto(p, "store") ELSE Complete(p, LiveResult(p))
  /\ UNCHANGED <<resolverVars, row, brk, gone, orphaned>>

(* The row references the instance: without it the insert fails. *)
Store(p) ==
  /\ At(p, "store")
  /\ db.exists
  /\ row' = Engine(p).ver
  /\ Goto(p, "recheck")
  /\ UNCHANGED <<resolverVars, brk, gone, orphaned>>

StoreFails(p) ==
  /\ At(p, "store")
  /\ Complete(p, LiveResult(p))
  /\ UNCHANGED <<resolverVars, row, brk, gone, orphaned>>

(* Bug for the mutants: a store is never looked at again. *)
NoRecheck(p) ==
  /\ At(p, "recheck")
  /\ Complete(p, LiveResult(p))
  /\ UNCHANGED <<resolverVars, row, brk, gone, orphaned>>

RecheckEpoch(p) ==
  /\ At(p, "recheck")
  /\ IF CurrentEpoch(p) THEN Complete(p, LiveResult(p)) ELSE Goto(p, "undo")
  /\ UNCHANGED <<resolverVars, row, brk, gone, orphaned>>

CompensateStaleStore(p) ==
  /\ At(p, "undo")
  /\ \/ row' = None /\ UNCHANGED orphaned
     \/ DbFails /\ orphaned' = TRUE /\ UNCHANGED row
  /\ Complete(p, LiveResult(p))
  /\ UNCHANGED <<resolverVars, brk, gone>>

-----------------------------------------------------------------------------
(* indexerAdapter.Search: with the budget exhausted, whatever was last       *)
(* cached is preferred to the refusal, if it can be read.                   *)
ServeStale(r) ==
  /\ At(r, "answered")
  /\ task[r].got.kind = "exhausted"
  /\ row # None
  /\ task' = [task EXCEPT ![r] = Answer(@, StoredResult)]
  /\ UNCHANGED <<resolverVars, row, brk, refresh, gone, orphaned>>

(* The caller is answered; its client may have left before.                 *)
Leave(r) ==
  /\ At(r, "answered")
  /\ Finish(r)
  /\ task' = [task EXCEPT ![r] = IdleTask]
  /\ gone' = gone \ {r}
  /\ UNCHANGED <<row, brk, refresh, orphaned>>

ClientGone(r) ==
  /\ r \in Fickle
  /\ req[r].pc # "idle"
  /\ gone' = gone \cup {r}
  /\ UNCHANGED <<resolverVars, row, brk, task, refresh, orphaned>>

(* replay drops an entry whose window is over. *)
BreakerLapses ==
  /\ brk # None
  /\ brk' = None
  /\ UNCHANGED <<resolverVars, row, task, refresh, gone, orphaned>>

(* Flush, or the cleanup tick reaping the expired row. *)
Reap ==
  /\ row # None
  /\ row' = None
  /\ UNCHANGED <<resolverVars, brk, task, refresh, gone, orphaned>>

-----------------------------------------------------------------------------
(* Mutations, with what they do to the rows and the breaker.                *)

(* Rows go with their instance (ON DELETE CASCADE). *)
CommitAndCascade(m) ==
  /\ Commit(m)
  /\ row' = IF ~db'.exists \/ mut'[m] = "restored" THEN None ELSE row
  /\ UNCHANGED <<brk, task, refresh, gone, orphaned>>

EvictEngine(m) ==
  /\ Invalidate(m) \/ InvalidateAll(m) \/ BumpEpoch(m)
  /\ UNCHANGED cacheVars

DropBreaker(m) ==
  /\ ForgetBreaker(m)
  /\ brk' = None
  /\ UNCHANGED <<row, task, refresh, gone, orphaned>>

PurgeRows(m) ==
  /\ Purge(m)
  /\ \/ row' = None /\ UNCHANGED orphaned
     \/ DbFails /\ orphaned' = TRUE /\ UNCHANGED row
  /\ UNCHANGED <<brk, task, refresh, gone>>

Stored(p) == task[p].stage \in {"recheck", "undo"}

Restart ==
  /\ Crash
  /\ brk' = None
  /\ task' = [p \in Proc |-> IdleTask]
  /\ refresh' = [s \in Swr |-> Blank]
  /\ gone' = {}
  /\ orphaned' = (orphaned \/ Purging # {} \/ \E p \in Proc : Stored(p))
  /\ UNCHANGED row

-----------------------------------------------------------------------------
Lookup(r) == Begin(r) \/ Building(r) \/ Bypass(r) \/ Hit(r) \/ HitAndRefresh(r) \/ Miss(r)

Flight(r) == Join(r) \/ DoubleCheckHit(r) \/ DoubleCheckMiss(r)

Fetch(p) == \/ Replay(p) \/ GoLive(p) \/ LiveOk(p) \/ LiveFails(p) \/ LiveRefused(p)
            \/ LiveCanceled(p)

WriteBack(p) == \/ CheckEpoch(p) \/ Store(p) \/ StoreFails(p) \/ RecheckEpoch(p)
                \/ CompensateStaleStore(p)

Mutation(m) == CommitAndCascade(m) \/ EvictEngine(m) \/ DropBreaker(m) \/ PurgeRows(m)

CacheNext == \/ \E r \in Req : Lookup(r) \/ Flight(r) \/ ServeStale(r) \/ Leave(r) \/ ClientGone(r)
             \/ \E p \in Proc : Fetch(p) \/ WriteBack(p)
             \/ \E m \in Mut : Mutation(m)
             \/ BreakerLapses \/ Reap \/ Restart

CacheSpec == CacheInit /\ [][CacheNext]_vars

(* Every goroutine that can run does: the scheduler is fair to each, and a  *)
(* live call always returns, within the HTTP client's timeout.  Clients,    *)
(* handlers, the clock and restarts are left to the environment.            *)
FairSpec ==
  /\ CacheSpec
  /\ \A r \in Req : WF_vars(Building(r)) /\ WF_vars(Bypass(r) \/ Hit(r) \/ Miss(r))
                    /\ WF_vars(Flight(r)) /\ WF_vars(Leave(r))
  /\ \A p \in Proc : WF_vars(Fetch(p)) /\ WF_vars(WriteBack(p))
-----------------------------------------------------------------------------
(* Engines that have read their settings, wherever they are held. *)
EnginesInUse ==
  { req[r].adapter : r \in { q \in Req : req[q].pc \in {"ref", "install", "ready"} } }
    \cup { refresh[s] : s \in { q \in Swr : task[q].stage # "idle" } }
    \cup ({installed} \ {None})

(* Writers that will find their epoch superseded and delete the key. *)
Undoing == { p \in Proc : Stored(p) /\ ~CurrentEpoch(p) }

(* The epoch can never look newer than the settings behind it: with no purge *)
(* owed, every engine whose snapshot is the current epoch has read the       *)
(* settings in force (buildAdapterAt, snapshot before Settings).             *)
BuiltEpochEntitles ==
  Purging = {} => \A a \in EnginesInUse :
                     a.epoch = instEpoch => a.ver["set"] = db.ver["set"]

(* No row fetched under superseded settings survives: once no purge is owed  *)
(* and no late writer is about to compensate, the cached row comes from the  *)
(* settings in force.  The exceptions are the ones the code logs and         *)
(* swallows, and a restart in between (storeBestEffort, compensateStaleStore, *)
(* InvalidateByInstance).                                                    *)
SettingsCoherent ==
  (Purging = {} /\ Undoing = {} /\ ~orphaned /\ row # None) => row["set"] = db.ver["set"]

(* A request at the current epoch is never answered by a live search under   *)
(* superseded settings, its own or that of the flight it joined: flights are *)
(* scoped to the epoch (cacheFlightKey).                                     *)
FlightIsFresh ==
  Purging = {} => \A r \in Req :
    (At(r, "answered") /\ CurrentEpoch(r) /\ task[r].got.kind = "live")
      => task[r].got.ver["set"] = db.ver["set"]

(* A request whose own client is still there is never failed by the          *)
(* cancellation of another one's (runMiss, missFlightOnce).                  *)
HealthyNotCanceled ==
  \A r \in Req : (At(r, "answered") /\ r \notin gone) => task[r].got.kind # "canceled"

(* Every request that begins is answered, whoever leads its flight and       *)
(* however often leaders die.                                                *)
EveryRequestAnswered == \A r \in Req : (req[r].pc # "idle") ~> (req[r].pc = "idle")

(* What the comments say and the code does not do; see the findings.         *)

(* The same as SettingsCoherent for the instance row, whose base URL decides *)
(* which host the results come from.                                         *)
RowCoherent ==
  (Purging = {} /\ Undoing = {} /\ ~orphaned /\ row # None) => row["row"] = db.ver["row"]

(* With no purge owed, an installed engine can write its results back.       *)
InstalledCanStore == (Purging = {} /\ installed # None) => installed.epoch = instEpoch

(* With no purge owed, an open breaker replays an error of the settings in   *)
(* force.                                                                    *)
BreakerCoherent == (Purging = {} /\ brk # None) => brk.ver["set"] = db.ver["set"]
=============================================================================
