------------------------------- MODULE Health -------------------------------
(***************************************************************************)
(* The health status of one indexer (registry/manage.go: deriveStatus) and   *)
(* the four records it is derived from, each written by its own path at its  *)
(* own moment: failure events and the watermark of the last passing test in  *)
(* the database, and the instants of the last query and the last success in  *)
(* memory (registry/indexerstats.go), which are flushed now and then.        *)
(*                                                                          *)
(* The clock counts seconds, the granularity of every instant compared here; *)
(* 0 is the zero time.  The circuit breaker is module Circuit's: this is the *)
(* status while it is closed.                                                *)
(***************************************************************************)
EXTENDS Naturals, FiniteSets

CONSTANTS
  Attempt,     \* searches, grabs, explicit tests and promotions in progress
  Retention,   \* seconds a health event is kept: 90 days
  MaxNow,      \* bound on the clock
  MaxEvent,    \* bound on the ids of events
  MaxAttempt,  \* bound on attempts
  MaxRelaunch   \* bound on relaunches

ASSUME AttemptAssumption == IsFiniteSet(Attempt)
ASSUME HealthBounds == {Retention, MaxNow, MaxEvent, MaxAttempt, MaxRelaunch} \subseteq Nat

VARIABLES
  now,
  events,       \* indexer_health_events: [id, at]
  recovery,     \* indexer_health_recovery: [through, at]
  stat,         \* instanceStat: lastQueryUnix, lastSuccessUnix
  saved,        \* their flushed values
  rehydrated,
  attempt,      \* attempt[a]: its progress
  attempts,     \* number of attempts made
  relaunches,
  okAt,         \* history: the latest instant a success was recorded under
  failAt,       \* history: the latest instant a failure was recorded under
  masked        \* history: a record of a failure was lost or overwritten

healthVars == <<now, events, recovery, stat, saved, rehydrated, attempt, attempts, relaunches, okAt, failAt,
                masked>>

Instants == [query : Nat, success : Nat]
AttemptKind == {"search", "grab", "test", "promotion"}
AttemptState == [kind : AttemptKind, at : Nat, ok : BOOLEAN, classified : BOOLEAN,
                 pc : {"idle", "query", "event", "watermark", "success"}]
IdleAttempt == [kind |-> "search", at |-> 0, ok |-> FALSE, classified |-> FALSE, pc |-> "idle"]

HealthTypeOK ==
  /\ now \in Nat \ {0}
  /\ events \subseteq [id : Nat \ {0}, at : Nat \ {0}]
  /\ recovery \in [through : Nat, at : Nat]
  /\ {stat, saved} \subseteq Instants
  /\ rehydrated \in BOOLEAN
  /\ attempt \in [Attempt -> AttemptState]
  /\ {attempts, relaunches, okAt, failAt} \subseteq Nat
  /\ masked \in BOOLEAN

HealthInit ==
  /\ now = 1
  /\ events = {}
  /\ recovery = [through |-> 0, at |-> 0]
  /\ stat = [query |-> 0, success |-> 0] /\ saved = stat
  /\ rehydrated = TRUE
  /\ attempt = [a \in Attempt |-> IdleAttempt]
  /\ attempts = 0 /\ relaunches = 0 /\ okAt = 0 /\ failAt = 0
  /\ masked = FALSE

-----------------------------------------------------------------------------
(* deriveStatus and its clauses.                                            *)
Later(m, n) == IF m < n THEN n ELSE m

(* Health.Recent: ORDER BY occurred_at DESC, id DESC. *)
Newest == CHOOSE e \in events : \A x \in events : x.at < e.at \/ (x.at = e.at /\ x.id <= e.id)

failureAfterRecoveryById(e) == recovery.at = 0 \/ e.id > recovery.through   \* bug for the mutants
failureAfterRecovery(e) ==
  recovery.at = 0 \/ e.id > recovery.through \/ e.at > recovery.at

successAt == Later(stat.success, recovery.at)
failingNow == events # {} /\ failureAfterRecovery(Newest) /\ successAt <= Newest.at
queriedSince == stat.query > successAt

deriveStatus == IF failingNow \/ queriedSince THEN "failing"
                ELSE IF successAt # 0 THEN "healthy" ELSE "unknown"

-----------------------------------------------------------------------------
(* What an attempt that reached the tracker leaves behind, from the moment it *)
(* is answered.  Every instant is read from the clock one step before it is  *)
(* stored.                                                                   *)
Busy(a, pc) == attempt[a].pc = pc
Become(a, pc) ==
  attempt' = [attempt EXCEPT ![a] =
                [IdleAttempt EXCEPT !.pc = pc, !.at = now,
                                    !.kind = IF pc = "watermark" THEN attempt[a].kind ELSE @]]
Rest(a) == attempt' = [attempt EXCEPT ![a] = IdleAttempt]

(* liveSearch, Grab, Test: what is recorded next.  An unclassified failure   *)
(* of a grab or a test leaves no record; a promotion is always one event.    *)
After(kind, ok, classified) ==
  CASE kind = "promotion" -> "event"
    [] kind # "promotion" /\ ok -> IF kind = "test" THEN "watermark" ELSE "success"
    [] kind # "promotion" /\ ~ok -> IF classified THEN "event" ELSE "idle"

Returns(a, kind, ok, classified) ==
  LET next == IF kind = "search" THEN "query" ELSE After(kind, ok, classified) IN
  /\ Busy(a, "idle") /\ next # "idle"
  /\ attempts < MaxAttempt /\ attempts' = attempts + 1
  /\ attempt' = [attempt EXCEPT ![a] =
                   [kind |-> kind, at |-> now, pc |-> next,
                    ok |-> kind = "search" /\ ok, classified |-> kind = "search" /\ classified]]
  /\ UNCHANGED <<now, events, recovery, stat, saved, rehydrated, relaunches, okAt, failAt, masked>>

(* RecordQuery is a plain store: it may take the instant back.              *)
RecordQuery(a) ==
  LET at == attempt[a].at
      next == After("search", attempt[a].ok, attempt[a].classified) IN
  /\ Busy(a, "query")
  /\ stat' = [stat EXCEPT !.query = at]
  /\ IF next = "idle" THEN Rest(a) ELSE Become(a, next)
  /\ failAt' = IF attempt[a].ok THEN failAt ELSE Later(failAt, at)
  /\ masked' = (masked \/ at < stat.query)
  /\ UNCHANGED <<now, events, recovery, saved, rehydrated, attempts, relaunches, okAt>>

(* Health.Record; best effort.  A promotion is an event and no failure.      *)
TopId == IF events = {} THEN 0 ELSE CHOOSE i \in {e.id : e \in events} : \A e \in events : e.id <= i
RecordEvent(a) ==
  LET at == attempt[a].at IN
  /\ Busy(a, "event")
  /\ TopId < MaxEvent
  /\ \/ /\ events' = events \cup {[id |-> TopId + 1, at |-> at]}
        /\ failAt' = IF attempt[a].kind = "promotion" THEN failAt ELSE Later(failAt, at)
     \/ UNCHANGED <<events, failAt>>
  /\ IF attempt[a].kind = "promotion" THEN Become(a, "watermark") ELSE Rest(a)
  /\ UNCHANGED <<now, recovery, stat, saved, rehydrated, attempts, relaunches, okAt, masked>>

(* Health.RecordRecovery: covers every event in the table, and may take the   *)
(* watermark's instant back.  When it fails, a test returns with its error; a *)
(* promotion goes on, and its event is left to stand for a failure.          *)
RecordRecovery(a) ==
  /\ Busy(a, "watermark")
  /\ \/ /\ recovery' = [through |-> TopId, at |-> attempt[a].at]
        /\ okAt' = Later(okAt, attempt[a].at)
        /\ Become(a, "success")
        /\ masked' = (masked \/ attempt[a].at < recovery.at)
     \/ /\ UNCHANGED <<recovery, okAt>>
        /\ IF attempt[a].kind = "test" THEN Rest(a) ELSE Become(a, "success")
        /\ masked' = (masked \/ attempt[a].kind = "promotion")
  /\ UNCHANGED <<now, events, stat, saved, rehydrated, attempts, relaunches, failAt>>

storeNow(old, at) == at                               \* bug for the mutants
storeIfGreater(old, at) == Later(old, at)

RecordSuccess(a) ==
  /\ Busy(a, "success")
  /\ stat' = [stat EXCEPT !.success = storeIfGreater(@, attempt[a].at)]
  /\ okAt' = Later(okAt, attempt[a].at)
  /\ Rest(a)
  /\ UNCHANGED <<now, events, recovery, saved, rehydrated, attempts, relaunches, failAt, masked>>

-----------------------------------------------------------------------------
(* Background.                                                              *)
HealthTick ==
  /\ now < MaxNow /\ now' = now + 1
  /\ UNCHANGED <<events, recovery, stat, saved, rehydrated, attempt, attempts, relaunches, okAt, failAt, masked>>

(* IndexerStats.FlushCounters, with its retry of the rehydration.            *)
Folded == [query |-> Later(stat.query, saved.query), success |-> Later(stat.success, saved.success)]
FlushInstants ==
  /\ stat' = IF rehydrated THEN stat ELSE Folded
  /\ rehydrated' = TRUE
  /\ saved' = stat'
  /\ UNCHANGED <<now, events, recovery, attempt, attempts, relaunches, okAt, failAt, masked>>

(* Health.DeleteBefore.  A failure of a grab or a test has no other record.  *)
PurgeEvents ==
  LET old == {e \in events : e.at + Retention < now} IN
  /\ old # {}
  /\ events' = events \ old
  /\ masked' = (masked \/ (stat.query < failAt /\ \A e \in events \ old : e.at < failAt))
  /\ UNCHANGED <<now, recovery, stat, saved, rehydrated, attempt, attempts, relaunches, okAt, failAt>>

(* A restart loses what was not flushed; RehydrateCounters may fail at first. *)
NewestAt == IF events = {} THEN 0 ELSE Newest.at
HealthRestart ==
  /\ relaunches < MaxRelaunch /\ relaunches' = relaunches + 1
  /\ \/ stat' = saved /\ rehydrated' = TRUE
     \/ stat' = [query |-> 0, success |-> 0] /\ rehydrated' = FALSE
  /\ attempt' = [a \in Attempt |-> IdleAttempt]
  /\ okAt' = Later(saved.success, recovery.at)
  /\ failAt' = Later(saved.query, NewestAt)
  /\ UNCHANGED <<now, events, recovery, saved, attempts, masked>>

HealthNext ==
  \/ \E a \in Attempt : \/ \E kind \in AttemptKind, ok, classified \in BOOLEAN :
                             Returns(a, kind, ok, classified)
                        \/ RecordQuery(a) \/ RecordEvent(a)
                        \/ RecordRecovery(a) \/ RecordSuccess(a)
  \/ HealthTick \/ FlushInstants \/ PurgeEvents \/ HealthRestart

HealthSpec == HealthInit /\ [][HealthNext]_healthVars

-----------------------------------------------------------------------------
Settled == rehydrated /\ ~masked /\ \A a \in Attempt : Busy(a, "idle")

(* A failure stands until something succeeds: once every attempt has recorded *)
(* what it learned, an indexer whose newest failure is of a later second than *)
(* any success reads failing, through retention, reused event ids, overlapping*)
(* attempts and relaunches (manage.go: deriveStatus, failureAfterRecovery).     *)
FailureStands == Settled /\ failAt > okAt => deriveStatus = "failing"

(* And the next success clears it on its own, in whatever order the records   *)
(* of overlapping attempts arrive (manage.go: queriedSince; indexerstats.go:  *)
(* RecordSuccess, storeIfGreater).                                           *)
SuccessClears == Settled /\ okAt > failAt => deriveStatus = "healthy"

(* The status follows the last thing that happened: see the two parts       *)
(* (manage.go: deriveStatus).                                                *)
StatusFollows == FailureStands /\ SuccessClears
=============================================================================
