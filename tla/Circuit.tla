------------------------------- MODULE Circuit -------------------------------
(***************************************************************************)
(* The circuit breaker of one indexer and the base-URL failover it drives   *)
(* (registry/circuitbreaker.go, adapter.go, failover.go).  The breaker is a *)
(* row of the database; every move on its ladder is a read and a write      *)
(* under one mutex, and whether a call may be dispatched is read without    *)
(* it.  A transport failure that has been repeating walks the definition's  *)
(* other hosts and may promote one, which counts as a success.              *)
(*                                                                          *)
(* Times are in an abstract unit and 0 is the zero time; only the order of  *)
(* the durations matters, so they are constants.                            *)
(***************************************************************************)
EXTENDS Naturals, Integers, Sequences

CONSTANTS
  Call,            \* searches and grabs of the indexer
  Kind,            \* the failures its tracker may produce
  circuitPeriods,  \* the ladder: the disable window of each level
  RetryAfter,      \* what a rate-limited answer may ask for; 0 is nothing
  startupGrace, startupGraceCap,
  failoverAfter, failoverRetry, failoverProbeTimeout,
  DbFails,         \* whether a statement may fail
  MaxClock,        \* bound on the clock
  MaxRestart,      \* bound on restarts of the process
  NoCall           \* the mutex is free

maxCircuitLevel == 9
Level == 0 .. maxCircuitLevel

(* A gateway outage is a transport failure that climbs like the others. *)
AllKinds == {"auth", "rate", "antibot", "parse", "transport", "gateway"}

ASSUME KindAssumption == Kind \subseteq AllKinds
ASSUME PeriodAssumption == /\ circuitPeriods \in [Level -> Nat]
                           /\ \A l \in Level \ {0} : circuitPeriods[l] > 0
ASSUME DurationAssumption ==
  /\ RetryAfter \subseteq Nat
  /\ {startupGrace, startupGraceCap, failoverAfter, failoverRetry, failoverProbeTimeout} \subseteq Nat
  /\ failoverProbeTimeout < failoverRetry
ASSUME CircuitBounds == DbFails \in BOOLEAN /\ {MaxClock, MaxRestart} \subseteq Nat
ASSUME NoCallAssumption == NoCall \notin Call

VARIABLES
  clock,     \* the time, from 1
  startedAt, \* when the process started
  exists,    \* whether the indexer exists; its rows go with it
  circuit,   \* the indexer_circuit_state row; no row is Closed
  recent,    \* the two newest health events, newest first
  circuitMu, \* who holds the mutex
  call,      \* call[c]: the progress of call c
  gate,      \* failoverGate.last; 0 for none
  restarts,  \* number of restarts
  untold,    \* history: outages begun minus recovery messages sent
  lost,      \* history: messages a restart cut off between the write and the sink
  recycled,  \* history: the row id was reused under calls of its last owner
  broken     \* history: a success moved the ladder within the current streak

vars == <<clock, startedAt, exists, circuit, recent, circuitMu, call, gate, restarts,
          untold, lost, recycled, broken>>

(* database.CircuitState *)
State == [level : Level, first : Nat, till : Nat]
Closed == [level |-> 0, first |-> 0, till |-> 0]

EventKind == {"auth", "rate", "antibot", "parse", "transport", "promoted"}
Event == [kind : EventKind, at : Nat]

Stage == {"idle", "live", "failed", "losing", "escalating", "qualify", "admit", "probing",
          "promoted", "won", "recovering", "telling"}
CallState == [stage : Stage, kind : AllKinds, at : Nat, seen : State]
IdleCall == [stage |-> "idle", kind |-> "parse", at |-> 0, seen |-> Closed]

TypeOK == /\ clock \in Nat \ {0}
          /\ startedAt \in Nat
          /\ exists \in BOOLEAN
          /\ circuit \in State
          /\ recent \in Seq(Event) /\ Len(recent) <= 2
          /\ circuitMu \in Call \cup {NoCall}
          /\ call \in [Call -> CallState]
          /\ gate \in Nat
          /\ restarts \in Nat
          /\ untold \in Int /\ lost \in Nat
          /\ recycled \in BOOLEAN
          /\ broken \in BOOLEAN

Init == /\ clock = 1 /\ startedAt = 1
        /\ exists = TRUE
        /\ circuit = Closed
        /\ recent = <<>>
        /\ circuitMu = NoCall
        /\ call = [c \in Call |-> IdleCall]
        /\ gate = 0
        /\ restarts = 0
        /\ untold = 0 /\ lost = 0 /\ recycled = FALSE /\ broken = FALSE

-----------------------------------------------------------------------------
(* The ladder.                                                              *)

Larger(a, b) == IF a < b THEN b ELSE a
Smaller(a, b) == IF a < b THEN a ELSE b

IsDisabled(s) == s.till > clock

escalationPolicyFor(kind) ==
  CASE kind = "transport" -> [floor |-> 1, step |-> 0]
    [] kind = "auth"      -> [floor |-> 5, step |-> 2]
    [] kind = "rate"      -> [floor |-> 2, step |-> 1]
    [] kind = "antibot"   -> [floor |-> 3, step |-> 1]
    [] OTHER              -> [floor |-> 0, step |-> 1]

(* The grace after a start caps the ladder's window, not a Retry-After. *)
escalate(cur, kind, retryAfter) ==
  LET p == escalationPolicyFor(kind)
      level == Smaller(Larger(cur.level + p.step, p.floor), maxCircuitLevel)
      window == IF clock - startedAt < startupGrace
                THEN Smaller(circuitPeriods[level], startupGraceCap)
                ELSE circuitPeriods[level]
  IN  [level |-> level,
       first |-> IF cur.first = 0 THEN clock ELSE cur.first,
       till  |-> clock + Larger(window, retryAfter)]

recoverCircuit(cur) ==
  LET level == IF cur.level > 0 THEN cur.level - 1 ELSE 0
  IN  [level |-> level, first |-> IF level = 0 THEN 0 ELSE cur.first, till |-> 0]

(* An Upsert: it may fail, and does without the indexer. *)
Outcomes(next) == IF ~exists THEN {circuit} ELSE IF DbFails THEN {circuit, next} ELSE {next}

Goto(c, stage) == call' = [call EXCEPT ![c] = [@ EXCEPT !.stage = stage]]
Done(c) == call' = [call EXCEPT ![c] = IdleCall]

-----------------------------------------------------------------------------
(* budgetedLiveSearch and Grab: checkCircuit, then the call itself.          *)

(* An unreadable row dispatches. *)
Dispatch(c) ==
  /\ exists
  /\ call[c].stage = "idle"
  /\ ~IsDisabled(circuit) \/ DbFails
  /\ Goto(c, "live")
  /\ UNCHANGED <<clock, startedAt, exists, circuit, recent, circuitMu, gate, restarts,
                 untold, lost, recycled, broken>>

Succeed(c) ==
  /\ call[c].stage = "live"
  /\ Goto(c, "won")
  /\ UNCHANGED <<clock, startedAt, exists, circuit, recent, circuitMu, gate, restarts,
                 untold, lost, recycled, broken>>

(* It never reached the tracker, or failed in a way nothing classifies. *)
Unrecorded(c) ==
  /\ call[c].stage = "live"
  /\ Done(c)
  /\ UNCHANGED <<clock, startedAt, exists, circuit, recent, circuitMu, gate, restarts,
                 untold, lost, recycled, broken>>

(* recordHealth stamps the event, then writes it. *)
Fail(c) ==
  /\ call[c].stage = "live"
  /\ \E kind \in Kind :
       call' = [call EXCEPT ![c] = [@ EXCEPT !.stage = "failed", !.kind = kind, !.at = clock]]
  /\ UNCHANGED <<clock, startedAt, exists, circuit, recent, circuitMu, gate, restarts,
                 untold, lost, recycled, broken>>

(* Events sort by their time, then by their row id: the new row is the last. *)
EveryEvent(ev) == <<ev>> \o recent  \* bug for the mutants: no LIMIT and no ORDER BY
Newest(ev) ==
  IF recent = <<>> THEN <<ev>>
  ELSE IF recent[1].at <= ev.at THEN <<ev, recent[1]>>
  ELSE IF Len(recent) = 2 /\ recent[2].at > ev.at THEN recent
  ELSE <<recent[1], ev>>

Record(ev) == recent' \in (IF exists THEN {Newest(ev)} ELSE {}) \cup
                          (IF DbFails \/ ~exists THEN {recent} ELSE {})

RecordHealth(c) ==
  /\ call[c].stage = "failed"
  /\ Record([kind |-> IF call[c].kind = "gateway" THEN "transport" ELSE call[c].kind,
             at |-> call[c].at])
  /\ call' = [call EXCEPT ![c] = [@ EXCEPT !.stage = "losing", !.at = 0]]
  /\ UNCHANGED <<clock, startedAt, exists, circuit, circuitMu, gate, restarts,
                 untold, lost, recycled, broken>>

-----------------------------------------------------------------------------
(* recordCircuitSuccess and escalateCircuit, under circuitMu.                *)

(* A success at the baseline writes nothing. *)
AtBaseline(c) == call[c].stage = "won" /\ circuit.level = 0 /\ circuit.till = 0

(* Bug for the mutants: the mutex is not waited for. *)
GetUnlocked(c) ==
  /\ call[c].stage \in {"won", "losing"}
  /\ ~AtBaseline(c)
  /\ circuitMu' = c
  /\ call' = [call EXCEPT ![c] = [@ EXCEPT !.seen = circuit,
                !.stage = IF call[c].stage = "won" THEN "recovering" ELSE "escalating"]]
  /\ UNCHANGED <<clock, startedAt, exists, circuit, recent, gate, restarts,
                 untold, lost, recycled, broken>>

LockAndGet(c) ==
  /\ call[c].stage \in {"won", "losing"}
  /\ circuitMu = NoCall
  /\ ~AtBaseline(c)
  /\ circuitMu' = c
  /\ call' = [call EXCEPT ![c] = [@ EXCEPT !.seen = circuit,
                !.stage = IF call[c].stage = "won" THEN "recovering" ELSE "escalating"]]
  /\ UNCHANGED <<clock, startedAt, exists, circuit, recent, gate, restarts,
                 untold, lost, recycled, broken>>

(* The baseline, or a failed read: the zero state never fails over. *)
NoMove(c) ==
  /\ call[c].stage \in {"won", "losing"}
  /\ circuitMu = NoCall
  /\ AtBaseline(c) \/ DbFails
  /\ Done(c)
  /\ UNCHANGED <<clock, startedAt, exists, circuit, recent, circuitMu, gate, restarts,
                 untold, lost, recycled, broken>>

(* Bug for the mutants: the mutex is still held when the failover starts. *)
EscalateHolding(c) ==
  /\ call[c].stage = "escalating"
  /\ LET next == escalate(call[c].seen, call[c].kind, 0)
     IN  /\ circuit' \in Outcomes(next)
         /\ call' = [call EXCEPT ![c] =
              IF call[c].kind \in {"transport", "gateway"}
              THEN [IdleCall EXCEPT !.stage = "qualify", !.seen = next] ELSE IdleCall]
  /\ untold' = IF circuit.till = 0 /\ circuit'.till # 0 THEN untold + 1 ELSE untold
  /\ circuitMu' = IF call[c].kind \in {"transport", "gateway"} THEN c ELSE NoCall
  /\ UNCHANGED <<clock, startedAt, exists, recent, gate, restarts, lost, recycled, broken>>

(* What escalateCircuit hands on is what it meant to write. *)
Escalate(c) ==
  /\ call[c].stage = "escalating"
  /\ \E after \in IF call[c].kind = "rate" THEN RetryAfter ELSE {0} :
       LET next == escalate(call[c].seen, call[c].kind, after)
       IN  /\ circuit' \in Outcomes(next)
           /\ call' = [call EXCEPT ![c] =
                IF call[c].kind \in {"transport", "gateway"}
                THEN [IdleCall EXCEPT !.stage = "qualify", !.seen = next] ELSE IdleCall]
  /\ untold' = IF circuit.till = 0 /\ circuit'.till # 0 THEN untold + 1 ELSE untold
  /\ broken' = (broken /\ circuit.first # 0)
  /\ circuitMu' = NoCall
  /\ UNCHANGED <<clock, startedAt, exists, recent, gate, restarts, lost, recycled>>

(* Bug for the mutants: every descent is announced. *)
RecoverLoudly(c) ==
  /\ call[c].stage = "recovering"
  /\ exists
  /\ circuit' = recoverCircuit(call[c].seen)
  /\ broken' = (circuit'.level # 0)
  /\ Goto(c, "telling")
  /\ UNCHANGED <<clock, startedAt, exists, recent, circuitMu, gate, restarts, untold, lost, recycled>>

(* Only a write that cleared a window has something to tell. *)
Recover(c) ==
  /\ call[c].stage = "recovering"
  /\ \/ /\ exists
        /\ circuit' = recoverCircuit(call[c].seen)
        /\ broken' = (circuit'.level # 0)
        /\ IF call[c].seen.till # 0
           THEN Goto(c, "telling") /\ UNCHANGED circuitMu
           ELSE Done(c) /\ circuitMu' = NoCall
     \/ /\ DbFails \/ ~exists
        /\ Done(c) /\ circuitMu' = NoCall
        /\ UNCHANGED <<circuit, broken>>
  /\ UNCHANGED <<clock, startedAt, exists, recent, gate, restarts, untold, lost, recycled>>

(* notifyRecovery: after the write, before the mutex is given back.  The message *)
(* is handed to the sink in memory, so that a restart in between loses it.   *)
NotifyRecovery(c) ==
  /\ call[c].stage = "telling"
  /\ untold' = IF exists THEN untold - 1 ELSE untold
  /\ circuitMu' = NoCall
  /\ Done(c)
  /\ UNCHANGED <<clock, startedAt, exists, circuit, recent, gate, restarts, lost, recycled, broken>>

-----------------------------------------------------------------------------
(* maybeFailover, without the mutex.                                        *)

transportOnlyStreak == Len(recent) = 2 /\ \A i \in 1 .. 2 : recent[i].kind = "transport"

Qualify(c) ==
  /\ call[c].stage = "qualify"
  /\ clock - call[c].seen.first >= failoverAfter
  /\ transportOnlyStreak
  /\ call' = [call EXCEPT ![c] = [IdleCall EXCEPT !.stage = "admit"]]
  /\ UNCHANGED <<clock, startedAt, exists, circuit, recent, circuitMu, gate, restarts,
                 untold, lost, recycled, broken>>

(* Bug for the mutants: a cycle is admitted and the gate not stamped. *)
AdmitUnstamped(c) ==
  /\ call[c].stage = "admit"
  /\ gate = 0 \/ clock - gate >= failoverRetry
  /\ call' = [call EXCEPT ![c] = [@ EXCEPT !.stage = "probing", !.at = clock]]
  /\ UNCHANGED <<clock, startedAt, exists, circuit, recent, circuitMu, gate, restarts,
                 untold, lost, recycled, broken>>

(* failoverGate.allow stamps on admission. *)
Admit(c) ==
  /\ call[c].stage = "admit"
  /\ gate = 0 \/ clock - gate >= failoverRetry
  /\ gate' = clock
  /\ call' = [call EXCEPT ![c] = [@ EXCEPT !.stage = "probing", !.at = clock]]
  /\ UNCHANGED <<clock, startedAt, exists, circuit, recent, circuitMu, restarts,
                 untold, lost, recycled, broken>>

(* The trigger or the gate says no, the engine was built pinned, there is no  *)
(* other link; or no candidate answers in time, or the promotion fails.      *)
Decline(c) ==
  /\ call[c].stage \in {"qualify", "admit", "probing"}
  /\ Done(c)
  /\ UNCHANGED <<clock, startedAt, exists, circuit, recent, circuitMu, gate, restarts,
                 untold, lost, recycled, broken>>

(* promote: what it does to the engine cache is Resolver's Promote. *)
Promote(c) ==
  /\ call[c].stage = "probing"
  /\ exists
  /\ call' = [call EXCEPT ![c] = [IdleCall EXCEPT !.stage = "promoted"]]
  /\ UNCHANGED <<clock, startedAt, exists, circuit, recent, circuitMu, gate, restarts,
                 untold, lost, recycled, broken>>

(* recordPromotion, up to its recordCircuitSuccess. *)
RecordPromotion(c) ==
  /\ call[c].stage = "promoted"
  /\ Record([kind |-> "promoted", at |-> clock])
  /\ Goto(c, "won")
  /\ UNCHANGED <<clock, startedAt, exists, circuit, circuitMu, gate, restarts,
                 untold, lost, recycled, broken>>

-----------------------------------------------------------------------------
(* The probes share one deadline. *)
Tick ==
  /\ clock < MaxClock
  /\ \A c \in Call : call[c].stage = "probing" => clock < call[c].at + failoverProbeTimeout
  /\ clock' = clock + 1
  /\ UNCHANGED <<startedAt, exists, circuit, recent, circuitMu, call, gate, restarts,
                 untold, lost, recycled, broken>>

Delete ==
  /\ exists
  /\ exists' = FALSE
  /\ circuit' = Closed /\ recent' = <<>> /\ untold' = 0 /\ lost' = 0
  /\ UNCHANGED <<clock, startedAt, circuitMu, call, gate, restarts, recycled, broken>>

(* The gate is not told; calls of the last owner go on under the same id. *)
Add ==
  /\ ~exists
  /\ exists' = TRUE
  /\ recycled' = \E c \in Call : call[c].stage # "idle"
  /\ broken' = FALSE
  /\ UNCHANGED <<clock, startedAt, circuit, recent, circuitMu, call, gate, restarts, untold, lost>>

One(condition) == IF condition THEN 1 ELSE 0
Telling == \E c \in Call : call[c].stage = "telling"

Restart ==
  /\ restarts < MaxRestart
  /\ restarts' = restarts + 1
  /\ startedAt' = clock
  /\ circuitMu' = NoCall
  /\ call' = [c \in Call |-> IdleCall]
  /\ gate' = 0
  /\ lost' = lost + One(exists /\ Telling)
  /\ UNCHANGED <<clock, exists, circuit, recent, untold, recycled, broken>>

-----------------------------------------------------------------------------
Finish(c) == \/ Succeed(c) \/ Unrecorded(c) \/ Fail(c) \/ RecordHealth(c)
             \/ Escalate(c) \/ Recover(c) \/ NotifyRecovery(c) \/ Qualify(c) \/ Admit(c)
             \/ Decline(c) \/ Promote(c) \/ RecordPromotion(c)

Take(c) == LockAndGet(c) \/ NoMove(c)

Next == \/ \E c \in Call : Dispatch(c) \/ Finish(c) \/ Take(c)
        \/ Tick \/ Delete \/ Add \/ Restart

Spec == Init /\ [][Next]_vars

(* A goroutine that can run does, a call returns within its timeouts, and a  *)
(* sync.Mutex serves a waiter in the end however many others keep coming.    *)
Fairness == \A c \in Call : WF_vars(Finish(c)) /\ SF_vars(Take(c))
FairSpec == Spec /\ Fairness

-----------------------------------------------------------------------------
Good == exists /\ ~recycled

(* No move on the ladder is lost or made from a stale rung: whatever calls   *)
(* finish at once, a write is one move from the row as it stands, by the     *)
(* call that holds the mutex (recordCircuitSuccess, escalateCircuit).        *)
EveryWriteIsAMove ==
  [][(Good /\ exists' /\ circuit' # circuit) => \E c \in Call :
       /\ circuitMu = c
       /\ \/ call[c].stage = "recovering" /\ circuit' = recoverCircuit(circuit)
          \/ /\ call[c].stage = "escalating"
             /\ \E after \in RetryAfter \cup {0} : circuit' = escalate(circuit, call[c].kind, after)]_vars

(* One recovery message per outage, and none for a further descent: every     *)
(* outage begun has had its message, or is still open, or is being told by     *)
(* the call that holds the mutex, or its message was lost to a restart between *)
(* the write that closed it and the sink (recordCircuitSuccess,               *)
(* notifyRecovery).                                                         *)
OneMessagePerOutage == Good => untold = One(circuit.till # 0) + One(Telling) + lost

(* The failure streak is recorded exactly while the ladder is climbed, and   *)
(* only a climbed ladder has a window: a closed circuit never carries an old *)
(* InitialFailure into the failover trigger (escalate, recoverCircuit).      *)
StreakMatchesLadder ==
  Good =>
    /\ circuit.first # 0 <=> circuit.level # 0
    /\ circuit.till # 0 => circuit.level # 0

(* Two failing calls never walk the mirrors at the same time, although the   *)
(* gate is stamped once and never released (failoverGate).                   *)
OneCycleAtATime ==
  \A c, d \in Call : (call[c].stage = "probing" /\ call[d].stage = "probing") => c = d

(* Every call returns: a promotion inside a failure takes the mutex again,   *)
(* after the escalation gave it back.                                       *)
EveryCallReturns == \A c \in Call : (call[c].stage # "idle") ~> (call[c].stage = "idle")

(* What failover.go says of its trigger and the code does not do; see the    *)
(* findings: no mirror is tried when a call succeeded within the streak.     *)
StreakIsUnbroken ==
  [][\A c \in Call : (call[c].stage = "admit" /\ call'[c].stage = "probing") => ~broken]_vars
=============================================================================
