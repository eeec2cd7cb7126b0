--------------------------- MODULE DaemonProofs ---------------------------
(***************************************************************************)
(* Proofs about the circuit breaker, the shutdown and the expiry warnings,  *)
(* each for any values of its constants.                                    *)
(***************************************************************************)
EXTENDS MCDaemon, TLAPS, NaturalsInduction, WellFoundedInduction

---------------------------------------------------------------------------
(***************************************************************************)
(* Circuit, for any number of calls, any ladder and any durations: moves on *)
(* the ladder are serial, an outage is announced once, the streak is        *)
(* recorded with the ladder, and one cycle probes at a time.                *)
(***************************************************************************)

Reading(c) == call[c].stage \in {"escalating", "recovering"}
Locked(c) == Reading(c) \/ call[c].stage = "telling"

(* A probing call is the one that stamped the gate, and its time is short. *)
ProbeOk(c) ==
  call[c].stage = "probing" =>
    /\ call[c].at = gate /\ gate # 0
    /\ gate <= clock /\ clock <= gate + failoverProbeTimeout

(* What was read under the mutex is still the row when it is written. *)
ReadOk(c) == /\ Locked(c) <=> circuitMu = c
             /\ (Good /\ Reading(c)) => call[c].seen = circuit

CInv == /\ TypeOK
        /\ \A c \in Call : ReadOk(c) /\ ProbeOk(c)
        /\ ~exists => circuit = Closed /\ untold = 0 /\ lost = 0
        /\ OneMessagePerOutage
        /\ StreakMatchesLadder
        /\ OneCycleAtATime

-----------------------------------------------------------------------------
(* The ladder stays on its rungs, and a failure always leaves rung 0. *)
LEMMA IdleCallType == IdleCall \in CallState /\ IdleCall.stage = "idle" /\ IdleCall.seen = Closed
  BY DEF IdleCall, CallState, Stage, AllKinds, State, Level, maxCircuitLevel, Closed

LEMMA PolicyFacts ==
  ASSUME NEW kind
  PROVE  /\ escalationPolicyFor(kind).floor \in 0 .. 5 /\ escalationPolicyFor(kind).step \in 0 .. 2
         /\ escalationPolicyFor(kind).floor + escalationPolicyFor(kind).step > 0
  BY DEF escalationPolicyFor

LEMMA EscalateFacts ==
  ASSUME TypeOK, NEW s \in State, NEW kind, NEW after \in Nat
  PROVE  /\ escalate(s, kind, after) \in State
         /\ escalate(s, kind, after).level # 0
         /\ escalate(s, kind, after).first # 0
         /\ escalate(s, kind, after).till # 0
<1> DEFINE p == escalationPolicyFor(kind)
           level == Smaller(Larger(s.level + p.step, p.floor), maxCircuitLevel)
           window == IF clock - startedAt < startupGrace
                     THEN Smaller(circuitPeriods[level], startupGraceCap)
                     ELSE circuitPeriods[level]
<1>1. p.floor \in 0 .. 5 /\ p.step \in 0 .. 2 /\ p.floor + p.step > 0
  BY PolicyFacts
<1>2. s.level \in 0 .. 9 /\ s.first \in Nat
  BY DEF State, Level, maxCircuitLevel
<1> HIDE DEF p
<1>3. level \in 1 .. 9
  BY <1>1, <1>2 DEF Smaller, Larger, maxCircuitLevel
<1>4. circuitPeriods[level] \in Nat
  BY <1>3, PeriodAssumption DEF Level, maxCircuitLevel
<1> HIDE DEF level
<1>5. window \in Nat
  BY <1>4, DurationAssumption DEF Smaller
<1> HIDE DEF window
<1>6. clock + Larger(window, after) \in Nat \ {0}
  BY <1>5 DEF Larger, TypeOK
<1>7. escalate(s, kind, after) = [level |-> level, first |-> IF s.first = 0 THEN clock ELSE s.first,
                                  till |-> clock + Larger(window, after)]
  BY DEF escalate, level, window, p
<1> QED BY <1>2, <1>3, <1>6, <1>7 DEF State, Level, maxCircuitLevel, TypeOK

LEMMA RecoverFacts ==
  ASSUME NEW s \in State
  PROVE  /\ recoverCircuit(s) \in State /\ recoverCircuit(s).till = 0
         /\ (s.first # 0 <=> s.level # 0)
              => (recoverCircuit(s).first # 0 <=> recoverCircuit(s).level # 0)
<1>1. s.level \in 0 .. 9 /\ s.first \in Nat
  BY DEF State, Level, maxCircuitLevel
<1> QED BY <1>1 DEF recoverCircuit, State, Level, maxCircuitLevel

LEMMA NewestFacts ==
  ASSUME TypeOK, NEW ev \in Event
  PROVE  Newest(ev) \in Seq(Event) /\ Len(Newest(ev)) <= 2
  BY DEF TypeOK, Newest

LEMMA RecordFacts ==
  ASSUME TypeOK, NEW ev \in Event, Record(ev)
  PROVE  recent' \in Seq(Event) /\ Len(recent') <= 2
  BY NewestFacts DEF TypeOK, Record

(* A move of one call to another stage. *)
LEMMA GotoFacts ==
  ASSUME TypeOK, NEW c \in Call, NEW stage \in Stage, Goto(c, stage)
  PROVE  /\ call' \in [Call -> CallState]
         /\ call'[c].stage = stage /\ call'[c].at = call[c].at /\ call'[c].seen = call[c].seen
         /\ \A d \in Call \ {c} : call'[d] = call[d]
<1>1. call[c] \in CallState
  BY DEF TypeOK
<1>2. [call[c] EXCEPT !.stage = stage] \in CallState
      /\ [call[c] EXCEPT !.stage = stage].stage = stage
      /\ [call[c] EXCEPT !.stage = stage].at = call[c].at
      /\ [call[c] EXCEPT !.stage = stage].seen = call[c].seen
  BY <1>1 DEF CallState
<1> QED BY <1>2 DEF Goto, TypeOK

LEMMA DoneFacts ==
  ASSUME TypeOK, NEW c \in Call, Done(c)
  PROVE  /\ call' \in [Call -> CallState] /\ call'[c].stage = "idle"
         /\ \A d \in Call \ {c} : call'[d] = call[d]
  BY IdleCallType DEF Done, TypeOK

-----------------------------------------------------------------------------
LEMMA NothingFacts == Closed \in State /\ <<>> \in Seq(Event) /\ Len(<<>>) <= 2
<1>1. Closed \in State
  BY DEF State, Closed, Level, maxCircuitLevel
<1> QED BY <1>1

LEMMA CircuitTypeInit == Init => TypeOK
<1> SUFFICES ASSUME Init PROVE TypeOK
  OBVIOUS
<1>1. recent \in Seq(Event) /\ Len(recent) <= 2
  BY NothingFacts, Zenon DEF Init
<1>2. call \in [Call -> CallState]
  BY IdleCallType DEF Init
<1>3. circuit \in State
  BY NothingFacts, Zenon DEF Init
<1>4. /\ clock = 1 /\ startedAt = 1 /\ exists = TRUE /\ circuitMu = NoCall /\ gate = 0
      /\ restarts = 0 /\ untold = 0 /\ lost = 0 /\ recycled = FALSE /\ broken = FALSE
  BY Zenon DEF Init
<1>5. clock \in Nat \ {0} /\ startedAt \in Nat /\ exists \in BOOLEAN
  BY <1>4
<1>6. circuitMu \in Call \cup {NoCall} /\ gate \in Nat
  BY <1>4
<1>7. restarts \in Nat /\ untold \in Int /\ lost \in Nat
  BY <1>4
<1>8. recycled \in BOOLEAN /\ broken \in BOOLEAN
  BY <1>4
<1> QED BY <1>1, <1>2, <1>3, <1>5, <1>6, <1>7, <1>8 DEF TypeOK

LEMMA CircuitTypeServe ==
  ASSUME TypeOK, NEW c \in Call, Dispatch(c) \/ Finish(c) \/ Take(c) PROVE TypeOK'
<1> USE DEF TypeOK
<1>0. call[c] \in CallState /\ call[c].kind \in AllKinds /\ call[c].seen \in State
  BY DEF CallState
<1>1. CASE Dispatch(c)
  BY <1>1, GotoFacts DEF Dispatch, Stage
<1>2. CASE Succeed(c)
  BY <1>2, GotoFacts DEF Succeed, Stage
<1>3. CASE Unrecorded(c)
  BY <1>3, DoneFacts DEF Unrecorded
<1>4. CASE Fail(c)
  <2>1. PICK kind \in Kind :
          call' = [call EXCEPT ![c] = [@ EXCEPT !.stage = "failed", !.kind = kind, !.at = clock]]
    BY <1>4 DEF Fail
  <2>2. [call[c] EXCEPT !.stage = "failed", !.kind = kind, !.at = clock] \in CallState
    BY <1>0, KindAssumption DEF CallState, Stage
  <2> QED BY <1>4, <2>1, <2>2 DEF Fail
<1>5. CASE RecordHealth(c)
  <2> DEFINE ev == [kind |-> IF call[c].kind = "gateway" THEN "transport" ELSE call[c].kind,
                    at |-> call[c].at]
  <2>1. ev \in Event
    BY <1>0 DEF CallState, Event, EventKind, AllKinds
  <2>2. recent' \in Seq(Event) /\ Len(recent') <= 2
    BY <1>5, <2>1, RecordFacts DEF RecordHealth
  <2>3. [call[c] EXCEPT !.stage = "losing", !.at = 0] \in CallState
    BY <1>0 DEF CallState, Stage
  <2> QED BY <1>5, <2>2, <2>3 DEF RecordHealth
<1>6. CASE Escalate(c)
  <2>1. PICK after \in IF call[c].kind = "rate" THEN RetryAfter ELSE {0} :
          LET next == escalate(call[c].seen, call[c].kind, after)
          IN  /\ circuit' \in Outcomes(next)
              /\ call' = [call EXCEPT ![c] =
                   IF call[c].kind \in {"transport", "gateway"}
                   THEN [IdleCall EXCEPT !.stage = "qualify", !.seen = next] ELSE IdleCall]
    BY <1>6 DEF Escalate
  <2>2. escalate(call[c].seen, call[c].kind, after) \in State
    BY <1>0, EscalateFacts, DurationAssumption
  <2>3. circuit' \in State
    BY <2>1, <2>2 DEF Outcomes
  <2>4. [IdleCall EXCEPT !.stage = "qualify", !.seen = escalate(call[c].seen, call[c].kind, after)]
          \in CallState
    BY <2>2, IdleCallType DEF CallState, Stage
  <2>5. call' \in [Call -> CallState]
    BY <2>1, <2>4, IdleCallType
  <2>6. untold' \in Int /\ broken' \in BOOLEAN
    BY <1>6 DEF Escalate
  <2> QED BY <1>6, <2>3, <2>5, <2>6 DEF Escalate
<1>7. CASE Recover(c)
  <2>1. circuit' \in State
    BY <1>0, <1>7, RecoverFacts DEF Recover
  <2>2. broken' \in BOOLEAN
    BY <1>7 DEF Recover
  <2>3. call' \in [Call -> CallState] /\ circuitMu' \in Call \cup {NoCall}
    BY <1>7, DoneFacts, GotoFacts DEF Recover, Stage
  <2> QED BY <1>7, <2>1, <2>2, <2>3 DEF Recover
<1>15. CASE NotifyRecovery(c)
  <2>1. untold' \in Int
    BY <1>15 DEF NotifyRecovery
  <2> QED BY <1>15, <2>1, DoneFacts DEF NotifyRecovery
<1>8. CASE Qualify(c)
  <2>1. [IdleCall EXCEPT !.stage = "admit"] \in CallState
    BY IdleCallType DEF CallState, Stage
  <2> QED BY <1>8, <2>1 DEF Qualify
<1>9. CASE Admit(c)
  <2>1. [call[c] EXCEPT !.stage = "probing", !.at = clock] \in CallState
    BY <1>0 DEF CallState, Stage
  <2> QED BY <1>9, <2>1 DEF Admit
<1>10. CASE Decline(c)
  BY <1>10, DoneFacts DEF Decline
<1>11. CASE Promote(c)
  <2>1. [IdleCall EXCEPT !.stage = "promoted"] \in CallState
    BY IdleCallType DEF CallState, Stage
  <2> QED BY <1>11, <2>1 DEF Promote
<1>12. CASE RecordPromotion(c)
  <2>1. [kind |-> "promoted", at |-> clock] \in Event
    BY DEF Event, EventKind
  <2>2. recent' \in Seq(Event) /\ Len(recent') <= 2
    BY <1>12, <2>1, RecordFacts DEF RecordPromotion
  <2> QED BY <1>12, <2>2, GotoFacts DEF RecordPromotion, Stage
<1>13. CASE LockAndGet(c)
  <2> DEFINE stage == IF call[c].stage = "won" THEN "recovering" ELSE "escalating"
  <2>1. [call[c] EXCEPT !.seen = circuit, !.stage = stage] \in CallState
    BY <1>0 DEF CallState, Stage
  <2> QED BY <1>13, <2>1 DEF LockAndGet
<1>14. CASE NoMove(c)
  BY <1>14, DoneFacts DEF NoMove
<1> QED BY <1>1, <1>2, <1>3, <1>4, <1>5, <1>6, <1>7, <1>8, <1>9, <1>10, <1>11, <1>12, <1>13, <1>14,
          <1>15 DEF Finish, Take

LEMMA CircuitTypeStep == TypeOK /\ [Next]_vars => TypeOK'
<1> SUFFICES ASSUME TypeOK, [Next]_vars PROVE TypeOK'
  OBVIOUS
<1> USE DEF TypeOK
<1>1. ASSUME NEW c \in Call, Dispatch(c) \/ Finish(c) \/ Take(c) PROVE TypeOK'
  BY <1>1, CircuitTypeServe
<1>2. CASE Tick
  BY <1>2 DEF Tick
<1>3. CASE Delete
  <2>1. recent' \in Seq(Event) /\ Len(recent') <= 2
    BY <1>3, NothingFacts, Zenon DEF Delete
  <2>2. circuit' \in State
    BY <1>3, NothingFacts, Zenon DEF Delete
  <2>3. exists' \in BOOLEAN
    BY <1>3, Zenon DEF Delete
  <2>4. UNCHANGED <<clock, startedAt, circuitMu, call, gate, restarts, recycled, broken>>
    BY <1>3, Zenon DEF Delete
  <2>5. untold' = 0 /\ lost' = 0
    BY <1>3, Zenon DEF Delete
  <2>6. untold' \in Int /\ lost' \in Nat
    BY <2>5
  <2> QED BY <2>1, <2>2, <2>3, <2>4, <2>6
<1>4. CASE Add
  BY <1>4 DEF Add
<1>5. CASE Restart
  <2>1. lost' \in Nat
    BY <1>5 DEF Restart, One
  <2> QED BY <1>5, <2>1, IdleCallType DEF Restart
<1>6. CASE UNCHANGED vars
  BY <1>6 DEF vars
<1> QED BY <1>1, <1>2, <1>3, <1>4, <1>5, <1>6 DEF Next

-----------------------------------------------------------------------------
(* The mutex is held by at most one call, so that at most one is telling. *)
LEMMA OneHolder ==
  ASSUME CInv, NEW c \in Call, Locked(c)
  PROVE  \A d \in Call \ {c} : ~Locked(d)
  BY DEF CInv, ReadOk

(* A step of one call that leaves the row, the mutex and the gate alone. *)
LEMMA QuietCall ==
  ASSUME CInv, TypeOK', NEW c \in Call, ~Locked(c),
         UNCHANGED <<clock, exists, circuit, circuitMu, gate, untold, lost, recycled>>,
         \A d \in Call \ {c} : call'[d] = call[d],
         call'[c].stage \notin {"escalating", "recovering", "telling", "probing"}
  PROVE  CInv'
<1> USE DEF CInv
<1>1. Good' = Good
  BY DEF Good
<1>2. \A d \in Call : ReadOk(d)' /\ ProbeOk(d)'
  BY <1>1 DEF ReadOk, ProbeOk, Locked, Reading
<1>3. Telling' <=> Telling
  BY DEF Telling, Locked
<1>4. OneMessagePerOutage' /\ StreakMatchesLadder'
  BY <1>1, <1>3 DEF OneMessagePerOutage, StreakMatchesLadder, One
<1>5. OneCycleAtATime'
  BY DEF OneCycleAtATime
<1> QED BY <1>2, <1>4, <1>5

(* A step of the call that holds the mutex: it writes and lets go. *)
LEMMA WriteStep ==
  ASSUME CInv, TypeOK', NEW c \in Call, circuitMu = c, circuitMu' = NoCall,
         UNCHANGED <<clock, exists, gate, lost, recycled>>,
         \A d \in Call \ {c} : call'[d] = call[d],
         call'[c].stage \notin {"escalating", "recovering", "telling", "probing"},
         ~exists => UNCHANGED <<circuit, untold>>,
         OneMessagePerOutage', StreakMatchesLadder'
  PROVE  CInv'
<1> USE DEF CInv
<1>1. Good' = Good
  BY DEF Good
<1>2. \A d \in Call : ReadOk(d)' /\ ProbeOk(d)'
  BY <1>1, NoCallAssumption DEF ReadOk, ProbeOk, Locked, Reading
<1>3. OneCycleAtATime'
  BY DEF OneCycleAtATime
<1> QED BY <1>2, <1>3

(* Whoever lets go of the mutex leaves nobody telling. *)
LEMMA NobodyTells ==
  ASSUME CInv, NEW c \in Call, Locked(c),
         \A d \in Call \ {c} : call'[d] = call[d], call'[c].stage # "telling"
  PROVE  ~Telling'
  BY OneHolder DEF Telling, Locked

LEMMA CInvServe ==
  ASSUME CInv, NEW c \in Call, Dispatch(c) \/ Finish(c) \/ Take(c) PROVE CInv'
<1> USE DEF CInv
<1>0. TypeOK' /\ call[c] \in CallState /\ call[c].seen \in State
  BY CircuitTypeServe DEF TypeOK, CallState
<1>1. CASE Dispatch(c)
  BY <1>0, <1>1, GotoFacts, QuietCall DEF Dispatch, Stage, Locked, Reading
<1>2. CASE Succeed(c)
  BY <1>0, <1>2, GotoFacts, QuietCall DEF Succeed, Stage, Locked, Reading
<1>3. CASE Unrecorded(c)
  BY <1>0, <1>3, DoneFacts, QuietCall DEF Unrecorded, Locked, Reading
<1>4. CASE Fail(c)
  <2>1. call'[c].stage = "failed" /\ \A d \in Call \ {c} : call'[d] = call[d]
    BY <1>0, <1>4 DEF Fail, TypeOK, CallState
  <2> QED BY <1>0, <1>4, <2>1, QuietCall DEF Fail, Locked, Reading
<1>5. CASE RecordHealth(c)
  <2>1. call'[c].stage = "losing" /\ \A d \in Call \ {c} : call'[d] = call[d]
    BY <1>0, <1>5 DEF RecordHealth, TypeOK, CallState
  <2> QED BY <1>0, <1>5, <2>1, QuietCall DEF RecordHealth, Locked, Reading
<1>6. CASE Escalate(c)
  <2>1. PICK after \in IF call[c].kind = "rate" THEN RetryAfter ELSE {0} :
          LET next == escalate(call[c].seen, call[c].kind, after)
          IN  /\ circuit' \in Outcomes(next)
              /\ call' = [call EXCEPT ![c] =
                   IF call[c].kind \in {"transport", "gateway"}
                   THEN [IdleCall EXCEPT !.stage = "qualify", !.seen = next] ELSE IdleCall]
    BY <1>6 DEF Escalate
  <2>2. PICK next \in State : /\ next.level # 0 /\ next.first # 0 /\ next.till # 0
                              /\ circuit' \in Outcomes(next)
    BY <1>0, <2>1, EscalateFacts, DurationAssumption
  <2>3. call'[c].stage \in {"idle", "qualify"} /\ \A d \in Call \ {c} : call'[d] = call[d]
    BY <1>0, <2>1, IdleCallType DEF TypeOK, CallState
  <2>4. circuitMu = c
    BY <1>6 DEF Escalate, ReadOk, Locked, Reading
  <2>5. circuit' = circuit \/ (exists /\ circuit' = next)
    BY <2>2 DEF Outcomes
  <2>6. untold' = IF circuit.till = 0 /\ circuit'.till # 0 THEN untold + 1 ELSE untold
    BY <1>6 DEF Escalate
  <2>7. ~Telling /\ ~Telling'
    BY <1>6, <2>3, OneHolder, NobodyTells DEF Escalate, Telling, Locked, Reading
  <2>8. circuit.till \in Nat /\ circuit'.till \in Nat /\ untold \in Int /\ lost \in Nat
    BY <1>0 DEF TypeOK, State
  <2>9. OneMessagePerOutage'
    BY <1>6, <2>2, <2>5, <2>6, <2>7, <2>8 DEF Escalate, OneMessagePerOutage, One, Good
  <2>10. StreakMatchesLadder'
    BY <1>6, <2>2, <2>5 DEF Escalate, StreakMatchesLadder, Good
  <2> QED BY <1>0, <1>6, <2>3, <2>4, <2>5, <2>6, <2>9, <2>10, WriteStep DEF Escalate
<1>7. CASE Recover(c)
  <2>1. circuitMu = c /\ (Good => call[c].seen = circuit) /\ Locked(c)
    BY <1>7 DEF Recover, ReadOk, Locked, Reading
  <2>2. UNCHANGED <<clock, exists, gate, untold, lost, recycled>>
    BY <1>7 DEF Recover
  <2>3. ~Telling
    BY <1>7, <2>1, OneHolder DEF Recover, Telling, Locked
  <2>4. recoverCircuit(circuit).till = 0 /\ circuit.till \in Nat /\ untold \in Int /\ lost \in Nat
        /\ ((circuit.first # 0 <=> circuit.level # 0)
              => (recoverCircuit(circuit).first # 0 <=> recoverCircuit(circuit).level # 0))
    BY RecoverFacts DEF TypeOK, State
  <2>5. Good' = Good
    BY <2>2 DEF Good
  <2>6. StreakMatchesLadder'
    BY <1>7, <2>1, <2>4, <2>5 DEF Recover, StreakMatchesLadder, Good
  <2>7. CASE exists /\ circuit' = recoverCircuit(call[c].seen) /\ call[c].seen.till # 0
             /\ Goto(c, "telling") /\ UNCHANGED circuitMu
    <3>1. call'[c].stage = "telling" /\ \A d \in Call \ {c} : call'[d] = call[d]
      BY <2>7, GotoFacts DEF Stage
    <3>2. Telling'
      BY <3>1 DEF Telling
    <3>3. OneMessagePerOutage'
      BY <2>1, <2>2, <2>3, <2>4, <2>5, <2>7, <3>2 DEF OneMessagePerOutage, One
    <3>4. \A d \in Call \ {c} : ~Locked(d)
      BY <2>1, OneHolder
    <3>5. \A d \in Call : ReadOk(d)' /\ ProbeOk(d)'
      BY <2>1, <2>2, <2>5, <2>7, <3>1, <3>4 DEF ReadOk, ProbeOk, Locked, Reading
    <3>6. OneCycleAtATime'
      BY <3>1 DEF OneCycleAtATime
    <3> QED BY <1>0, <2>2, <2>6, <2>7, <3>3, <3>5, <3>6
  <2>8. ASSUME Done(c), circuitMu' = NoCall,
               UNCHANGED circuit \/ (exists /\ circuit' = recoverCircuit(call[c].seen)
                                     /\ call[c].seen.till = 0)
        PROVE  CInv'
    <3>1. call'[c].stage = "idle" /\ \A d \in Call \ {c} : call'[d] = call[d]
      BY <2>8, DoneFacts
    <3>2. ~Telling'
      BY <2>1, <3>1, NobodyTells
    <3>3. OneMessagePerOutage'
      BY <2>1, <2>2, <2>3, <2>4, <2>5, <2>8, <3>2 DEF OneMessagePerOutage, One
    <3> QED BY <1>0, <2>1, <2>2, <2>6, <2>8, <3>1, <3>3, WriteStep
  <2> QED BY <1>7, <2>7, <2>8 DEF Recover
<1>15. CASE NotifyRecovery(c)
  <2>1. circuitMu = c /\ Locked(c) /\ Telling
    BY <1>15 DEF NotifyRecovery, ReadOk, Locked, Telling
  <2>2. call'[c].stage = "idle" /\ \A d \in Call \ {c} : call'[d] = call[d]
    BY <1>15, DoneFacts DEF NotifyRecovery
  <2>3. ~Telling'
    BY <2>1, <2>2, NobodyTells
  <2>4. UNCHANGED <<clock, exists, circuit, gate, lost, recycled>> /\ circuitMu' = NoCall
        /\ untold' = IF exists THEN untold - 1 ELSE untold
    BY <1>15 DEF NotifyRecovery
  <2>5. circuit.till \in Nat /\ untold \in Int /\ lost \in Nat
    BY DEF TypeOK, State
  <2>6. OneMessagePerOutage' /\ StreakMatchesLadder'
    BY <2>1, <2>3, <2>4, <2>5 DEF OneMessagePerOutage, StreakMatchesLadder, Good, One
  <2> QED BY <1>0, <2>1, <2>2, <2>4, <2>6, WriteStep
<1>8. CASE Qualify(c)
  <2>1. call'[c].stage = "admit" /\ \A d \in Call \ {c} : call'[d] = call[d]
    BY <1>0, <1>8, IdleCallType DEF Qualify, TypeOK, CallState
  <2> QED BY <1>0, <1>8, <2>1, QuietCall DEF Qualify, Locked, Reading
<1>9. CASE Admit(c)
  <2>1. /\ call'[c].stage = "probing" /\ call'[c].at = clock
        /\ \A d \in Call \ {c} : call'[d] = call[d]
    BY <1>0, <1>9 DEF Admit, TypeOK, CallState
  <2>2. /\ call[c].stage = "admit" /\ gate' = clock
        /\ gate = 0 \/ clock - gate >= failoverRetry
        /\ UNCHANGED <<clock, exists, circuit, circuitMu, untold, lost, recycled>>
    BY <1>9 DEF Admit
  <2>3. \A d \in Call : call[d].stage # "probing"
    BY <2>2, DurationAssumption DEF ProbeOk, TypeOK
  <2>4. \A d \in Call : ProbeOk(d)'
    BY <2>1, <2>2, <2>3, DurationAssumption DEF ProbeOk, TypeOK
  <2>5. OneCycleAtATime'
    BY <2>1, <2>3 DEF OneCycleAtATime
  <2>6. Good' = Good
    BY <2>2 DEF Good
  <2>7. \A d \in Call : ReadOk(d)'
    BY <2>1, <2>2, <2>6 DEF ReadOk, Locked, Reading
  <2>9. Telling' <=> Telling
    BY <2>1, <2>2 DEF Telling
  <2>8. OneMessagePerOutage' /\ StreakMatchesLadder'
    BY <2>2, <2>6, <2>9 DEF OneMessagePerOutage, StreakMatchesLadder, One
  <2> QED BY <1>0, <2>2, <2>4, <2>5, <2>7, <2>8
<1>10. CASE Decline(c)
  BY <1>0, <1>10, DoneFacts, QuietCall DEF Decline, Locked, Reading
<1>11. CASE Promote(c)
  <2>1. call'[c].stage = "promoted" /\ \A d \in Call \ {c} : call'[d] = call[d]
    BY <1>0, <1>11, IdleCallType DEF Promote, TypeOK, CallState
  <2> QED BY <1>0, <1>11, <2>1, QuietCall DEF Promote, Locked, Reading
<1>12. CASE RecordPromotion(c)
  BY <1>0, <1>12, GotoFacts, QuietCall DEF RecordPromotion, Stage, Locked, Reading
<1>13. CASE LockAndGet(c)
  <2>1. /\ call'[c].stage \in {"escalating", "recovering"} /\ call'[c].seen = circuit
        /\ \A d \in Call \ {c} : call'[d] = call[d]
    BY <1>0, <1>13 DEF LockAndGet, TypeOK, CallState
  <2>2. /\ circuitMu = NoCall /\ circuitMu' = c
        /\ UNCHANGED <<clock, exists, circuit, gate, untold, lost, recycled>>
    BY <1>13 DEF LockAndGet
  <2>3. Good' = Good
    BY <2>2 DEF Good
  <2>4. \A d \in Call : ~Locked(d)
    BY <2>2, NoCallAssumption DEF ReadOk
  <2>5. \A d \in Call : ReadOk(d)' /\ ProbeOk(d)'
    BY <2>1, <2>2, <2>3, <2>4 DEF ReadOk, ProbeOk, Locked, Reading
  <2>8. ~Telling /\ ~Telling'
    BY <2>1, <2>4 DEF Telling, Locked
  <2>6. OneMessagePerOutage' /\ StreakMatchesLadder'
    BY <2>2, <2>3, <2>8 DEF OneMessagePerOutage, StreakMatchesLadder, One
  <2>7. OneCycleAtATime'
    BY <2>1 DEF OneCycleAtATime
  <2> QED BY <1>0, <2>2, <2>5, <2>6, <2>7
<1>14. CASE NoMove(c)
  BY <1>0, <1>14, DoneFacts, QuietCall DEF NoMove, Locked, Reading
<1> QED BY <1>1, <1>2, <1>3, <1>4, <1>5, <1>6, <1>7, <1>8, <1>9, <1>10, <1>11, <1>12, <1>13, <1>14,
          <1>15 DEF Finish, Take

LEMMA CInvInit == Init => CInv
<1> SUFFICES ASSUME Init PROVE CInv
  OBVIOUS
<1>1. \A c \in Call : call[c].stage = "idle" /\ circuitMu # c
  BY IdleCallType, NoCallAssumption DEF Init
<1>2. \A c \in Call : ReadOk(c) /\ ProbeOk(c)
  BY <1>1 DEF ReadOk, ProbeOk, Locked, Reading
<1>3. OneMessagePerOutage /\ StreakMatchesLadder
  BY <1>1 DEF Init, Closed, OneMessagePerOutage, StreakMatchesLadder, Telling, One
<1>4. OneCycleAtATime
  BY <1>1 DEF OneCycleAtATime
<1> QED BY <1>2, <1>3, <1>4, CircuitTypeInit DEF CInv, Init

LEMMA CInvStep == CInv /\ [Next]_vars => CInv'
<1> SUFFICES ASSUME CInv, [Next]_vars PROVE CInv'
  OBVIOUS
<1> USE DEF CInv
<1>0. TypeOK'
  BY CircuitTypeStep
<1>1. ASSUME NEW c \in Call, Dispatch(c) \/ Finish(c) \/ Take(c) PROVE CInv'
  BY <1>1, CInvServe
<1>2. CASE Tick
  <2>1. clock' = clock + 1 /\ UNCHANGED <<exists, circuit, circuitMu, call, gate, untold, lost, recycled>>
    BY <1>2 DEF Tick
  <2>2. Good' = Good
    BY <2>1 DEF Good
  <2>3. ASSUME NEW c \in Call PROVE ProbeOk(c)'
    <3>1. SUFFICES ASSUME call[c].stage = "probing"
                   PROVE  gate <= clock' /\ clock' <= gate + failoverProbeTimeout
      BY <2>1 DEF ProbeOk
    <3>2. clock < gate + failoverProbeTimeout /\ gate <= clock
      BY <1>2, <3>1 DEF Tick, ProbeOk
    <3> QED BY <2>1, <3>2, DurationAssumption DEF TypeOK
  <2>4. \A c \in Call : ReadOk(c)'
    BY <2>1, <2>2 DEF ReadOk, Locked, Reading
  <2>5. OneMessagePerOutage' /\ StreakMatchesLadder' /\ OneCycleAtATime'
    BY <2>1, <2>2 DEF OneMessagePerOutage, StreakMatchesLadder, OneCycleAtATime, Telling
  <2> QED BY <1>0, <2>1, <2>3, <2>4, <2>5
<1>3. CASE Delete
  <2>1. /\ exists' = FALSE /\ circuit' = Closed /\ untold' = 0 /\ lost' = 0
        /\ UNCHANGED <<clock, circuitMu, call, gate, recycled>>
    BY <1>3 DEF Delete
  <2>2. \A c \in Call : ReadOk(c)' /\ ProbeOk(c)'
    BY <2>1 DEF ReadOk, ProbeOk, Locked, Reading, Good
  <2>3. OneMessagePerOutage' /\ StreakMatchesLadder' /\ OneCycleAtATime'
    BY <2>1 DEF OneMessagePerOutage, StreakMatchesLadder, OneCycleAtATime, Good, Closed
  <2> QED BY <1>0, <2>1, <2>2, <2>3
<1>4. CASE Add
  <2>1. /\ exists' = TRUE /\ UNCHANGED <<clock, circuit, circuitMu, call, gate, untold, lost>>
        /\ circuit = Closed /\ untold = 0 /\ lost = 0
        /\ recycled' = \E c \in Call : call[c].stage # "idle"
    BY <1>4 DEF Add
  <2>2. \A c \in Call : ReadOk(c)' /\ ProbeOk(c)'
    BY <2>1 DEF ReadOk, ProbeOk, Locked, Reading, Good
  <2>3. OneMessagePerOutage' /\ StreakMatchesLadder' /\ OneCycleAtATime'
    BY <2>1 DEF OneMessagePerOutage, StreakMatchesLadder, OneCycleAtATime, Closed, Good, Telling,
                One
  <2> QED BY <1>0, <2>1, <2>2, <2>3
<1>5. CASE Restart
  <2>1. /\ circuitMu' = NoCall /\ UNCHANGED <<exists, circuit, untold, recycled>>
        /\ lost' = lost + One(exists /\ Telling)
        /\ \A c \in Call : call'[c].stage = "idle"
    BY <1>5, IdleCallType DEF Restart
  <2>2. \A c \in Call : ReadOk(c)' /\ ProbeOk(c)'
    BY <2>1, NoCallAssumption DEF ReadOk, ProbeOk, Locked, Reading
  <2>3. ~Telling'
    BY <2>1 DEF Telling
  <2>4. untold \in Int /\ lost \in Nat /\ (~exists => lost' = lost)
    BY <2>1 DEF TypeOK, One
  <2>5. OneMessagePerOutage' /\ StreakMatchesLadder' /\ OneCycleAtATime'
    BY <2>1, <2>3, <2>4 DEF OneMessagePerOutage, StreakMatchesLadder, OneCycleAtATime, Good, One
  <2> QED BY <1>0, <2>1, <2>2, <2>4, <2>5
<1>6. CASE UNCHANGED vars
  BY <1>0, <1>6 DEF vars, ReadOk, ProbeOk, Locked, Reading, Good, OneMessagePerOutage,
                   StreakMatchesLadder, OneCycleAtATime, Telling
<1> QED BY <1>1, <1>2, <1>3, <1>4, <1>5, <1>6 DEF Next

LEMMA CInvHolds == Spec => []CInv
  BY CInvInit, CInvStep, PTL DEF Spec

-----------------------------------------------------------------------------
(* Type correctness of the breaker and the failover. *)
THEOREM CircuitTypeCorrect == Spec => []TypeOK
<1>1. CInv => TypeOK
  BY DEF CInv
<1> QED BY <1>1, CInvHolds, PTL

(* As many recovery messages as outages, less the open one, the one that is    *)
(* about to be told, and those that a restart cut off (notifyRecovery).       *)
THEOREM MessagePerOutage == Spec => []OneMessagePerOutage
<1>1. CInv => OneMessagePerOutage
  BY DEF CInv
<1> QED BY <1>1, CInvHolds, PTL

(* The failure streak is recorded exactly while the ladder is climbed. *)
THEOREM StreakWithLadder == Spec => []StreakMatchesLadder
<1>1. CInv => StreakMatchesLadder
  BY DEF CInv
<1> QED BY <1>1, CInvHolds, PTL

(* One probe cycle at a time, because a cycle is shorter than the gate. *)
THEOREM OneProbeCycle == Spec => []OneCycleAtATime
<1>1. CInv => OneCycleAtATime
  BY DEF CInv
<1> QED BY <1>1, CInvHolds, PTL

(* Only a call that holds the mutex writes the row of a live indexer. *)
LEMMA OnlyWritersWrite ==
  ASSUME TypeOK, [Next]_vars, exists, exists', circuit' # circuit
  PROVE  \E c \in Call : Escalate(c) \/ Recover(c)
<1>1. ASSUME NEW c \in Call, Dispatch(c) \/ Finish(c) \/ Take(c) PROVE Escalate(c) \/ Recover(c)
  BY <1>1 DEF Dispatch, Finish, Take, Succeed, Unrecorded, Fail, RecordHealth, NotifyRecovery,
              Qualify, Admit, Decline, Promote, RecordPromotion, LockAndGet, NoMove
<1>2. ~(Tick \/ Delete \/ Add \/ Restart \/ UNCHANGED vars)
  BY DEF Tick, Delete, Add, Restart, vars
<1> QED BY <1>1, <1>2 DEF Next

(* Every write of the row is one move from the row as it stands. *)
THEOREM MovesAreSerial == Spec => EveryWriteIsAMove
<1> DEFINE Serial == (Good /\ exists' /\ circuit' # circuit) => \E c \in Call :
             /\ circuitMu = c
             /\ \/ call[c].stage = "recovering" /\ circuit' = recoverCircuit(circuit)
                \/ /\ call[c].stage = "escalating"
                   /\ \E after \in RetryAfter \cup {0} :
                        circuit' = escalate(circuit, call[c].kind, after)
<1>1. ASSUME CInv, [Next]_vars PROVE Serial
  <2> SUFFICES ASSUME Good, exists', circuit' # circuit
               PROVE  \E c \in Call :
                        /\ circuitMu = c
                        /\ \/ call[c].stage = "recovering" /\ circuit' = recoverCircuit(circuit)
                           \/ /\ call[c].stage = "escalating"
                              /\ \E after \in RetryAfter \cup {0} :
                                   circuit' = escalate(circuit, call[c].kind, after)
    OBVIOUS
  <2>1. PICK c \in Call : Escalate(c) \/ Recover(c)
    BY <1>1, OnlyWritersWrite DEF CInv, Good
  <2>2. circuitMu = c /\ call[c].seen = circuit
    BY <1>1, <2>1 DEF CInv, ReadOk, Locked, Reading, Escalate, Recover
  <2>3. CASE Escalate(c)
    <3>1. PICK after \in IF call[c].kind = "rate" THEN RetryAfter ELSE {0} :
            circuit' \in Outcomes(escalate(call[c].seen, call[c].kind, after))
      BY <2>3 DEF Escalate
    <3>2. circuit' = escalate(circuit, call[c].kind, after)
      BY <2>2, <3>1 DEF Outcomes
    <3>3. after \in RetryAfter \cup {0}
      OBVIOUS
    <3> QED BY <2>2, <2>3, <3>2, <3>3 DEF Escalate
  <2>4. CASE Recover(c)
    BY <2>2, <2>4 DEF Recover
  <2> QED BY <2>1, <2>3, <2>4
<1>2. CInv /\ [Next]_vars => [Serial]_vars
  BY <1>1
<1> QED BY <1>2, CInvHolds, PTL DEF Spec, EveryWriteIsAMove

---------------------------------------------------------------------------
(***************************************************************************)
(* Shutdown, for any amount of work and any subjects: what is left when the *)
(* database closes, that no dispatch is added under the Wait of Drain, one  *)
(* message a window, and no count lost.                                     *)
(***************************************************************************)

Stopped == {"join", "drain", "wait", "reopen", "close", "closed"}
Drained == {"reopen", "close", "closed"}

(* The gate is closed exactly while Drain joins, and then no reader has      *)
(* passed it; a Wait that goes on without Drain was given up.                *)
GateInv ==
  /\ draining <=> main \in {"wait", "reopen"}
  /\ \A r \in Work : work[r] = "adding" => r \in readers
  /\ \A r \in readers : work[r] \in {"gate", "adding"}
  /\ main \in {"wait", "reopen"} => \A r \in Work : work[r] # "adding"
  /\ waiter = "waiting" => main = "wait" \/ "sends" \in gaveUp

(* What is still running once Run has gone past it is of a kind that nobody  *)
(* joins, or was given up; and a unit whose message came late stays what it  *)
(* was.                                                                     *)
ExitInv ==
  /\ flusher = "done" \/ scanner = "done" \/ main \in Stopped => bgDone
  /\ main \in Stopped \ {"join"} => flusher = "done" /\ scanner = "done"
  /\ main = "wait" /\ waiter = "done" => dispatchWG = {}
  /\ main \in Drained => "sends" \in gaveUp \/ dispatchWG \subseteq stray
  /\ main \in Stopped => "handlers" \in gaveUp \/ Of("request") = {}
  /\ scanner = "done" => Of("tick") = {}
  /\ \A r \in stray : Unjoined(r) /\ work[r] # "new"

(* A subject that is not within its cooldown has had no message. *)
WindowInv == \A s \in Subject : /\ s \notin told => messages[s] = 0
                                /\ messages[s] <= 1

(* A count made before the signal is taken out by the final flush at the latest. *)
CountInv ==
  /\ counted = pending + taken + stored
  /\ early <= counted
  /\ ~bgDone => early = counted
  /\ flusher = "final" => bgDone /\ early <= taken + stored
  /\ flusher = "done" /\ ~unwritten => early <= stored

SInv == ShutdownTypeOK /\ GateInv /\ ExitInv /\ WindowInv /\ CountInv

-----------------------------------------------------------------------------
LEMMA SInit == ASSUME Subject # {}, ShutdownInit PROVE SInv
<1> USE DEF ShutdownInit
<1>1. ShutdownTypeOK
  BY DEF ShutdownTypeOK, WorkPc
<1>2. GateInv /\ WindowInv /\ CountInv
  BY DEF GateInv, WindowInv, CountInv, bgDone
<1>3. ExitInv
  BY DEF ExitInv, Stopped, Drained, Of, Busy
<1> QED BY <1>1, <1>2, <1>3 DEF SInv

(* The step of one unit of work. *)
Moves(r) == \/ Serve(r) \/ ReaperTicks(r) \/ Refresh(r) \/ Quit(r) \/ JobEnds(r)
            \/ Count(r) \/ Report(r) \/ GateRLock(r) \/ GateLeave(r) \/ DispatchEnds(r)

(* The end of a search may give birth to an announcement. *)
LEMMA EndTypes ==
  ASSUME ShutdownTypeOK, NEW r \in Work, End(r)
  PROVE  work' \in [Work -> WorkPc] /\ origin' \in [Work -> {"request", "tick", "refresh", "job"}]
<1>1. CASE Go(r, "done") /\ UNCHANGED origin
  BY <1>1 DEF Go, ShutdownTypeOK, WorkPc
<1>2. ASSUME NEW j \in Work, work' = [work EXCEPT ![r] = "done", ![j] = "pushing"],
             origin' = [origin EXCEPT ![j] = "job"]
      PROVE  /\ work' \in [Work -> WorkPc]
             /\ origin' \in [Work -> {"request", "tick", "refresh", "job"}]
  BY <1>2 DEF ShutdownTypeOK, WorkPc
<1> QED BY <1>1, <1>2 DEF End

LEMMA GoTypes ==
  ASSUME ShutdownTypeOK, NEW r \in Work, NEW pc \in WorkPc, Go(r, pc)
  PROVE  work' \in [Work -> WorkPc]
  BY DEF Go, ShutdownTypeOK

LEMMA TypeStep ==
  ASSUME ShutdownTypeOK, [ShutdownNext]_shutdownVars
  PROVE  ShutdownTypeOK'
<1> USE DEF ShutdownTypeOK, MainTo, bornVars, drainVars, countVars
<1>1. CASE Signal BY <1>1 DEF Signal
<1>2. CASE Run
  <2>1. CASE ShutdownBegins \/ ServeReturns \/ ServeFails \/ JoinReapers
    BY <2>1 DEF ShutdownBegins, ServeReturns, ServeFails, JoinReapers
  <2>2. CASE DrainCloses \/ WaitReturns BY <2>2 DEF DrainCloses, WaitReturns
  <2>3. CASE DrainJoins BY <2>3 DEF DrainJoins
  <2>4. CASE DrainReopens \/ CloseDB BY <2>4 DEF DrainReopens, CloseDB
  <2> QED BY <1>2, <2>1, <2>2, <2>3, <2>4 DEF Run
<1>3. CASE Reap
  <2>1. CASE FlushTick \/ FlushFinal
    <3>1. taken' \in Nat /\ pending' \in Nat /\ flusher' \in {"write", "final"}
      BY <2>1 DEF FlushTick, FlushFinal, Final, TakeOut
    <3>2. CASE FlushTick BY <3>1, <3>2 DEF FlushTick
    <3>3. CASE FlushFinal BY <3>1, <3>3 DEF FlushFinal
    <3> QED BY <2>1, <3>2, <3>3
  <2>2. CASE FlushWrite
    <3>1. taken' \in Nat /\ pending' \in Nat /\ stored' \in Nat /\ flusher' \in {"wait", "done"}
      BY <2>2 DEF FlushWrite, FoldBack
    <3>2. unwritten' \in BOOLEAN
      BY <2>2, Zenon DEF FlushWrite
    <3> QED BY <2>2, <3>1, <3>2 DEF FlushWrite
  <2>3. CASE ScanStops BY <2>3 DEF ScanStops
  <2> QED BY <1>3, <2>1, <2>2, <2>3 DEF Reap
<1>4. ASSUME NEW r \in Work, Moves(r) PROVE ShutdownTypeOK'
  <2>1. CASE Serve(r) \/ ReaperTicks(r) \/ Refresh(r)
    <3>1. PICK kind \in {"request", "tick", "refresh"} : Begin(r, kind)
      BY <2>1 DEF Serve, ReaperTicks, Refresh
    <3>2. work' \in [Work -> WorkPc]
      BY <3>1 DEF Begin, Go, WorkPc
    <3>3. subject' \in [Work -> Subject]
      BY <3>1 DEF Begin
    <3> QED BY <3>1, <3>2, <3>3 DEF Begin
  <2>2. CASE Quit(r) \/ JobEnds(r)
    <3>1. work' \in [Work -> WorkPc]
      BY <2>2, GoTypes DEF Quit, JobEnds, WorkPc
    <3>2. CASE Quit(r) BY <3>1, <3>2 DEF Quit
    <3>3. CASE JobEnds(r) BY <3>1, <3>3 DEF JobEnds
    <3> QED BY <2>2, <3>2, <3>3
  <2>3. CASE Count(r)
    <3>1. CASE End(r) BY <2>3, <3>1, EndTypes DEF Count
    <3>2. CASE Go(r, "reporting") /\ UNCHANGED origin
      BY <2>3, <3>2, GoTypes DEF Count, WorkPc
    <3> QED BY <2>3, <3>1, <3>2 DEF Count
  <2>4. CASE Report(r)
    <3>1. told' \subseteq Subject /\ messages' \in [Subject -> Nat]
      BY <2>4 DEF Report, healthSuppressed, Pass
    <3>2. CASE End(r) BY <2>4, <3>1, <3>2, EndTypes DEF Report
    <3>3. CASE Go(r, "gate") /\ UNCHANGED origin
      BY <2>4, <3>1, <3>3, GoTypes DEF Report, WorkPc
    <3> QED BY <2>4, <3>2, <3>3 DEF Report
  <2>5. CASE GateRLock(r) BY <2>5, GoTypes DEF GateRLock, WorkPc
  <2>6. CASE GateLeave(r) BY <2>6, EndTypes DEF GateLeave
  <2>7. CASE DispatchEnds(r) BY <2>7 DEF DispatchEnds
  <2> QED BY <1>4, <2>1, <2>2, <2>3, <2>4, <2>5, <2>6, <2>7 DEF Moves
<1>5. ASSUME NEW s \in Subject, CooldownLapses(s) PROVE ShutdownTypeOK'
  BY <1>5 DEF CooldownLapses
<1>6. CASE UNCHANGED shutdownVars BY <1>6 DEF shutdownVars
<1> QED BY <1>1, <1>2, <1>3, <1>4, <1>5, <1>6 DEF ShutdownNext, Moves

(* Only Drain and the work at the gate matter to the gate. *)
LEMMA GateStep ==
  ASSUME SInv, [ShutdownNext]_shutdownVars
  PROVE  GateInv'
<1> USE DEF SInv, ShutdownTypeOK, GateInv, MainTo, Go, bornVars, drainVars, countVars
<1>1. CASE Signal \/ Reap \/ (\E s \in Subject : CooldownLapses(s)) \/ UNCHANGED shutdownVars
  BY <1>1 DEF Signal, Reap, FlushTick, FlushFinal, FlushWrite, ScanStops, CooldownLapses,
              shutdownVars
<1>2. CASE Run
  BY <1>2 DEF Run, ShutdownBegins, ServeReturns, ServeFails, JoinReapers, Joined, DrainCloses,
              DrainLock, WaitReturns, DrainJoins, DrainReopens, CloseDB
<1>3. ASSUME NEW r \in Work, Moves(r) PROVE GateInv'
  <2>1. CASE Serve(r) \/ ReaperTicks(r) \/ Refresh(r)
    BY <2>1 DEF Serve, ReaperTicks, Refresh, Begin
  <2>2. CASE Quit(r) \/ JobEnds(r) BY <2>2 DEF Quit, JobEnds
  <2>3. CASE Count(r) BY <2>3 DEF Count, End
  <2>4. CASE Report(r) BY <2>4 DEF Report, End
  <2>5. CASE GateRLock(r) BY <2>5 DEF GateRLock
  <2>6. CASE GateLeave(r) BY <2>6 DEF GateLeave, End
  <2>7. CASE DispatchEnds(r) BY <2>7 DEF DispatchEnds
  <2> QED BY <1>3, <2>1, <2>2, <2>3, <2>4, <2>5, <2>6, <2>7 DEF Moves
<1> QED BY <1>1, <1>2, <1>3 DEF ShutdownNext, Moves

(* A unit that ends leaves nothing behind but an announcement. *)
LEMMA EndLeaves ==
  ASSUME ShutdownTypeOK, NEW r \in Work, work[r] \notin {"new", "done"},
         End(r) \/ (\E pc \in WorkPc \ {"new", "done"} : Go(r, pc) /\ UNCHANGED origin)
  PROVE  /\ \A w \in Work : work'[w] \notin {"new", "done"} =>
                \/ work[w] \notin {"new", "done"} /\ origin'[w] = origin[w]
                \/ origin'[w] = "job"
         /\ \A w \in Work : work[w] # "new" => work'[w] # "new" /\ origin'[w] = origin[w]
  BY DEF End, Go, ShutdownTypeOK

(* Work that was not given up has ended when Run goes on, and what is still to *)
(* begin is of a kind that nobody joins.                                     *)
LEMMA ExitStep ==
  ASSUME SInv, [ShutdownNext]_shutdownVars
  PROVE  ExitInv'
<1> USE DEF SInv, ShutdownTypeOK, GateInv, ExitInv, MainTo, bornVars, drainVars, countVars,
            bgDone, Busy, Of, Unjoined, Stopped, Drained
<1>1. CASE Signal \/ (\E s \in Subject : CooldownLapses(s)) \/ UNCHANGED shutdownVars
  BY <1>1 DEF Signal, CooldownLapses, shutdownVars
<1>2. CASE Reap
  <2>1. CASE FlushTick \/ FlushFinal BY <2>1 DEF FlushTick, FlushFinal, Final
  <2>2. CASE FlushWrite BY <2>2 DEF FlushWrite, CountInv
  <2>3. CASE ScanStops BY <2>3 DEF ScanStops
  <2> QED BY <1>2, <2>1, <2>2, <2>3 DEF Reap
<1>3. CASE Run
  <2>1. CASE ShutdownBegins \/ ServeReturns \/ ServeFails
    BY <2>1 DEF ShutdownBegins, ServeReturns, ServeFails
  <2>2. CASE JoinReapers \/ DrainCloses BY <2>2 DEF JoinReapers, Joined, DrainCloses, DrainLock
  <2>3. CASE WaitReturns BY <2>3 DEF WaitReturns
  <2>4. CASE DrainJoins \/ DrainReopens \/ CloseDB BY <2>4 DEF DrainJoins, DrainReopens, CloseDB
  <2> QED BY <1>3, <2>1, <2>2, <2>3, <2>4 DEF Run
<1>4. ASSUME NEW r \in Work, Moves(r) PROVE ExitInv'
  <2>1. CASE Serve(r) \/ ReaperTicks(r) \/ Refresh(r)
    BY <2>1 DEF Serve, ReaperTicks, Refresh, Begin, Go
  <2>2. CASE Quit(r) \/ JobEnds(r) BY <2>2 DEF Quit, JobEnds, Go
  <2>3. CASE Count(r)
    <3>1. End(r) \/ (\E pc \in WorkPc \ {"new", "done"} : Go(r, pc) /\ UNCHANGED origin)
      BY <2>3 DEF Count, WorkPc
    <3> QED BY <2>3, <3>1, EndLeaves DEF Count
  <2>4. CASE Report(r)
    <3>1. End(r) \/ (\E pc \in WorkPc \ {"new", "done"} : Go(r, pc) /\ UNCHANGED origin)
      BY <2>4 DEF Report, WorkPc
    <3> QED BY <2>4, <3>1, EndLeaves DEF Report
  <2>5. CASE GateRLock(r) BY <2>5 DEF GateRLock, Go
  <2>6. CASE GateLeave(r) BY <2>6, EndLeaves DEF GateLeave
  <2>7. CASE DispatchEnds(r) BY <2>7 DEF DispatchEnds
  <2> QED BY <1>4, <2>1, <2>2, <2>3, <2>4, <2>5, <2>6, <2>7 DEF Moves
<1> QED BY <1>1, <1>2, <1>3, <1>4 DEF ShutdownNext, Moves

LEMMA WindowStep ==
  ASSUME SInv, [ShutdownNext]_shutdownVars
  PROVE  WindowInv'
<1> USE DEF SInv, ShutdownTypeOK, WindowInv, MainTo, drainVars, countVars
<1>1. CASE UNCHANGED <<told, messages>>
  BY <1>1
<1>2. ASSUME NEW r \in Work, Report(r) PROVE WindowInv'
  BY <1>2 DEF Report, healthSuppressed, Pass
<1>3. ASSUME NEW s \in Subject, CooldownLapses(s) PROVE WindowInv'
  BY <1>3 DEF CooldownLapses
<1>4. CASE Signal \/ Run \/ Reap \/ UNCHANGED shutdownVars
  BY <1>1, <1>4 DEF Signal, Run, ShutdownBegins, ServeReturns, ServeFails, JoinReapers,
       DrainCloses, WaitReturns, DrainJoins, DrainReopens, CloseDB, Reap, FlushTick, FlushFinal,
       FlushWrite, ScanStops, shutdownVars
<1>5. ASSUME NEW r \in Work, Moves(r), ~Report(r)
      PROVE  WindowInv'
  BY <1>1, <1>5 DEF Moves, Serve, ReaperTicks, Refresh, Begin, Quit, JobEnds, Count, GateRLock,
       GateLeave, DispatchEnds
<1> QED BY <1>2, <1>3, <1>4, <1>5 DEF ShutdownNext, Moves

(* Only a search counts, and only the flusher moves what was counted. *)
LEMMA CountStep ==
  ASSUME SInv, [ShutdownNext]_shutdownVars
  PROVE  CountInv'
<1> USE DEF SInv, ShutdownTypeOK, CountInv, ExitInv, MainTo, drainVars, countVars, bgDone
<1>1. CASE Signal \/ Run \/ UNCHANGED shutdownVars
  BY <1>1 DEF Signal, Run, ShutdownBegins, ServeReturns, ServeFails, JoinReapers,
              DrainCloses, WaitReturns, DrainJoins, DrainReopens, CloseDB, shutdownVars
<1>2. CASE Reap
  <2>1. CASE FlushTick BY <2>1 DEF FlushTick, TakeOut
  <2>2. CASE FlushFinal BY <2>2 DEF FlushFinal, Final, TakeOut
  <2>3. CASE FlushWrite BY <2>3 DEF FlushWrite, FoldBack
  <2>4. CASE ScanStops BY <2>4 DEF ScanStops
  <2> QED BY <1>2, <2>1, <2>2, <2>3, <2>4 DEF Reap
<1>3. ASSUME NEW r \in Work, Count(r) PROVE CountInv'
  BY <1>3 DEF Count
<1>4. ASSUME NEW r \in Work, Moves(r), ~Count(r)
      PROVE  CountInv'
  BY <1>4 DEF Moves, Serve, ReaperTicks, Refresh, Begin, Quit, JobEnds, Report, GateRLock,
       GateLeave, DispatchEnds
<1>5. ASSUME NEW s \in Subject, CooldownLapses(s) PROVE CountInv'
  BY <1>5 DEF CooldownLapses
<1> QED BY <1>1, <1>2, <1>3, <1>4, <1>5 DEF ShutdownNext, Moves

LEMMA ShutdownInvariant == ASSUME Subject # {} PROVE ShutdownSpec => []SInv
<1>1. ShutdownInit => SInv
  BY SInit
<1>2. SInv /\ [ShutdownNext]_shutdownVars => SInv'
  BY TypeStep, GateStep, ExitStep, WindowStep, CountStep DEF SInv
<1> QED BY <1>1, <1>2, PTL DEF ShutdownSpec

LEMMA SInvIsClean == SInv => CleanExit
  BY DEF SInv, ShutdownTypeOK, ExitInv, CleanExit, Stopped, Drained, Busy, Of, Unjoined

-----------------------------------------------------------------------------
(* The types of the daemon's state, for any amount of work (lifecycle.go,     *)
(* notify/service.go).                                                       *)
THEOREM ShutdownTypeCorrect == ASSUME Subject # {} PROVE ShutdownSpec => []ShutdownTypeOK
<1>1. SInv => ShutdownTypeOK
  BY DEF SInv
<1> QED BY <1>1, ShutdownInvariant, PTL

(* When the database closes no maintenance goroutine is left; every message   *)
(* accepted before the drain is out, unless its deadline passed; and all that *)
(* still goes on, or was dispatched after the drain, is a refresh, an          *)
(* announcement or a request that Shutdown gave up on (app.App.Run,            *)
(* notify.Service.Drain, SearchCache.triggerSWR, newAnnounceSink).            *)
THEOREM ExitIsClean == ASSUME Subject # {} PROVE ShutdownSpec => []CleanExit
<1> QED BY SInvIsClean, ShutdownInvariant, PTL

(* However many searches report about a subject at once, one message is sent  *)
(* within its cooldown (notify.Service.healthSuppressed).                     *)
THEOREM MessagesLimited == ASSUME Subject # {} PROVE ShutdownSpec => []OneMessagePerWindow
<1>1. SInv => OneMessagePerWindow
  BY DEF SInv, WindowInv, OneMessagePerWindow
<1> QED BY <1>1, ShutdownInvariant, PTL

(* No count is lost or doubled by a flush, and what was counted before the    *)
(* signal is stored at the exit (indexerstats.go: flushCategories; reap).     *)
THEOREM CountsAreKept == ASSUME Subject # {} PROVE ShutdownSpec => []CountsKept
<1>1. SInv => CountsKept
  BY DEF SInv, ShutdownTypeOK, ExitInv, CountInv, CountsKept, Stopped
<1> QED BY <1>1, ShutdownInvariant, PTL

(* No goroutine is added to the dispatches under the Wait of Drain, unless    *)
(* Drain left it there at its deadline (notify.Service.dispatchHealthAsync,   *)
(* Drain).                                                                  *)
THEOREM AddsAvoidWait == ASSUME Subject # {} PROVE ShutdownSpec => AddNeverRacesWait
<1> DEFINE Kept == waiter = "waiting" /\ "sends" \notin gaveUp => dispatchWG' \subseteq dispatchWG
<1>1. SInv /\ [ShutdownNext]_shutdownVars => [Kept]_shutdownVars
  <2> SUFFICES ASSUME SInv, [ShutdownNext]_shutdownVars, waiter = "waiting", "sends" \notin gaveUp
               PROVE  dispatchWG' \subseteq dispatchWG
    OBVIOUS
  <2> USE DEF SInv, GateInv, ShutdownTypeOK, MainTo, drainVars
  <2>1. CASE UNCHANGED dispatchWG
    BY <2>1
  <2>2. CASE Signal \/ Run \/ Reap \/ UNCHANGED shutdownVars
    BY <2>1, <2>2 DEF Signal, Run, ShutdownBegins, ServeReturns, ServeFails, JoinReapers,
         DrainCloses, WaitReturns, DrainJoins, DrainReopens, CloseDB, Reap, FlushTick, FlushFinal,
         FlushWrite, ScanStops, shutdownVars
  <2>3. ASSUME NEW r \in Work, GateLeave(r) \/ DispatchEnds(r)
        PROVE  dispatchWG' \subseteq dispatchWG
    BY <2>3 DEF GateLeave, DispatchEnds
  <2>4. ASSUME NEW r \in Work, Moves(r), ~(GateLeave(r) \/ DispatchEnds(r))
        PROVE  dispatchWG' \subseteq dispatchWG
    BY <2>1, <2>4 DEF Moves, Serve, ReaperTicks, Refresh, Begin, Quit, JobEnds, Count, Report,
         GateRLock
  <2>5. ASSUME NEW s \in Subject, CooldownLapses(s) PROVE dispatchWG' \subseteq dispatchWG
    BY <2>1, <2>5 DEF CooldownLapses
  <2> QED BY <2>2, <2>3, <2>4, <2>5 DEF ShutdownNext, Moves
<1> QED BY <1>1, ShutdownInvariant, PTL DEF ShutdownSpec, AddNeverRacesWait

---------------------------------------------------------------------------
(***************************************************************************)
(* Expiry, for any dates, lists of lead times, edits and restarts: no       *)
(* warning is repeated or followed by a less urgent one.                    *)
(***************************************************************************)

Mark == [for : Date \cup {NoDate}, days : Nat]
ScanState == [pc : {"idle", "row", "mark", "send"}, date : Date \cup {NoDate}, mark : Mark, due : Nat]

(* The scanner alone writes the ledger, so what it read of it stands until it *)
(* marks.  What was sent for the date that stands is in the ledger, and a     *)
(* scan that read another date has outlived every warning of this one.        *)
LedgerInv ==
  /\ scan.pc # "idle" => scan.date \in Date
  /\ scan.pc \in {"row", "mark"} => scan.mark = notified
  /\ scan.pc = "mark" => ~AlreadyWarned(scan.due)
  /\ scan.pc = "send" => notified = [for |-> scan.date, days |-> scan.due]
  /\ scan.pc # "idle" /\ scan.date # expiresAt => warned = NotYet
  /\ warned # NotYet => notified.for = expiresAt /\ notified.days <= warned
  /\ scan.pc = "send" /\ warned # NotYet => scan.due < warned

ExpiryInv == ExpiryTypeOK /\ LedgerInv /\ NeverWarnedAgain

-----------------------------------------------------------------------------
(* A reached lead time has a smallest one among those reached. *)
LEMMA LeastExists ==
  ASSUME NEW T \in SUBSET Nat, T # {}
  PROVE  \E t \in T : \A u \in T : t <= u
<1>1. PICK t \in T : \A u \in T : <<u, t>> \notin OpToRel(<, Nat)
  BY WFMin, NatLessThanWellFounded, Zenon
<1>2. \A u \in T : ~ (u < t)
  BY <1>1, Zenon DEF OpToRel
<1> QED BY <1>2

LEMMA dueFacts ==
  ASSUME ExpiryTypeOK, NEW days, Reached(days) # {}
  PROVE  dueThreshold(days) \in Nat
<1>1. Reached(days) \in SUBSET Nat
  BY DEF Reached, ExpiryTypeOK
<1>2. \E t \in Reached(days) : \A u \in Reached(days) : t <= u
  BY <1>1, LeastExists
<1>3. dueThreshold(days) \in Reached(days)
  BY <1>2, Zenon DEF dueThreshold
<1> QED BY <1>1, <1>3

LEMMA IdleFacts == IdleScan \in ScanState /\ IdleScan.pc = "idle"
  BY DEF IdleScan, ScanState, Mark

LEMMA ExpiryStart == ExpiryInit => ExpiryInv
<1> SUFFICES ASSUME ExpiryInit PROVE ExpiryInv
  OBVIOUS
<1>1. ExpiryTypeOK
  <2>1. scan \in ScanState
    BY IdleFacts DEF ExpiryInit
  <2>2. thresholds = {0}
    BY DEF ExpiryInit, ParseExpiryThresholds
  <2>3. notified \in Mark
    BY DEF ExpiryInit, Mark
  <2> QED BY <2>1, <2>2, <2>3 DEF ExpiryInit, ExpiryTypeOK, ScanState, Mark
<1>2. LedgerInv /\ NeverWarnedAgain
  BY IdleFacts DEF ExpiryInit, LedgerInv, NeverWarnedAgain
<1> QED BY <1>1, <1>2 DEF ExpiryInv

LEMMA ExpiryStep == ExpiryInv /\ [ExpiryNext]_expiryVars => ExpiryInv'
<1> SUFFICES ASSUME ExpiryInv, [ExpiryNext]_expiryVars PROVE ExpiryInv'
  OBVIOUS
<1> USE ExpiryAssumption DEF ExpiryInv, ExpiryTypeOK, NeverWarnedAgain
<1>1. CASE ScanRows
  <2>1. scan' = [pc |-> "row", date |-> expiresAt, mark |-> notified, due |-> 0]
    BY <1>1 DEF ScanRows, IdleScan
  <2> QED BY <1>1, <2>1 DEF ScanRows, LedgerInv
<1>2. CASE CheckRow
  <2> DEFINE due == dueThreshold(scan.date - today)
  <2>1. CASE scan' = IdleScan
    BY <1>2, <2>1, IdleFacts DEF CheckRow, LedgerInv, ScanState, Mark
  <2>2. CASE /\ Reached(scan.date - today) # {} /\ ~AlreadyWarned(due)
             /\ scan' = [scan EXCEPT !.pc = "mark", !.due = due]
    <3>1. due \in Nat
      BY <2>2, dueFacts
    <3> HIDE DEF due
    <3>2. /\ scan'.pc = "mark" /\ scan'.date = scan.date /\ scan'.mark = scan.mark
          /\ scan'.due = due
      BY <2>2
    <3>3. scan' \in [pc : {"idle", "row", "mark", "send"}, date : Date \cup {NoDate},
                     mark : Mark, due : Nat]
      BY <2>2, <3>1 DEF Mark
    <3> QED BY <1>2, <2>2, <3>2, <3>3 DEF CheckRow, LedgerInv, AlreadyWarned, Mark
  <2> QED BY <1>2, <2>1, <2>2 DEF CheckRow
<1>3. CASE MarkExpiryNotified
  <2>1. /\ scan'.pc = "send" /\ scan'.date = scan.date /\ scan'.due = scan.due
        /\ notified' = [for |-> scan.date, days |-> scan.due]
        /\ notified'.for = scan.date /\ notified'.days = scan.due
    BY <1>3 DEF MarkExpiryNotified
  <2>2. warned # NotYet => /\ scan.date = expiresAt /\ notified.for = scan.date
                           /\ scan.due < notified.days /\ notified.days <= warned
    BY <1>3 DEF MarkExpiryNotified, LedgerInv, AlreadyWarned
  <2>3. LedgerInv'
    BY <1>3, <2>1, <2>2 DEF MarkExpiryNotified, LedgerInv, NotYet
  <2>4. ExpiryTypeOK'
    BY <1>3 DEF MarkExpiryNotified
  <2> QED BY <1>3, <2>3, <2>4 DEF MarkExpiryNotified
<1>4. CASE MarkFails
  BY <1>4 DEF MarkFails, LedgerInv, IdleScan
<1>5. CASE SendWarning
  <2>1. lapsed' \subseteq Date
    BY <1>5 DEF SendWarning, Spent, LedgerInv
  <2>2. CASE UNCHANGED <<warned, again>>
    BY <1>5, <2>1, <2>2 DEF SendWarning, LedgerInv, IdleScan
  <2>3. CASE scan.date = expiresAt /\ warned' = scan.due
             /\ again' = (again \/ (warned # NotYet /\ scan.due >= warned))
    BY <1>5, <2>1, <2>3 DEF SendWarning, LedgerInv, IdleScan, NotYet
  <2> QED BY <1>5, <2>2, <2>3 DEF SendWarning
<1>6. CASE NextDay
  BY <1>6 DEF NextDay, LedgerInv, AlreadyWarned
<1>7. CASE ExpiryRestart
  <2>1. lapsed' \subseteq Date
    BY <1>7 DEF ExpiryRestart, Spent, LedgerInv
  <2> QED BY <1>7, <2>1, IdleFacts DEF ExpiryRestart, LedgerInv, ScanState, Mark
<1>8. ASSUME NEW d \in Date \cup {NoDate}, EditDate(d) PROVE ExpiryInv'
  BY <1>8 DEF EditDate, LedgerInv, AlreadyWarned
<1>9. ASSUME NEW list \in LeadTimes, SetExpiryThresholds(list) PROVE ExpiryInv'
  BY <1>9 DEF SetExpiryThresholds, ParseExpiryThresholds, LedgerInv, AlreadyWarned
<1>10. CASE UNCHANGED expiryVars
  BY <1>10 DEF expiryVars, LedgerInv, AlreadyWarned
<1> QED BY <1>1, <1>2, <1>3, <1>4, <1>5, <1>6, <1>7, <1>8, <1>9, <1>10 DEF ExpiryNext

LEMMA ExpiryInvariant == ExpirySpec => []ExpiryInv
<1> QED BY ExpiryStart, ExpiryStep, PTL DEF ExpirySpec

-----------------------------------------------------------------------------
(* The types of a membership's countdown (notify/expiry.go). *)
THEOREM ExpiryTypeCorrect == ExpirySpec => []ExpiryTypeOK
<1>1. ExpiryInv => ExpiryTypeOK
  BY DEF ExpiryInv
<1> QED BY <1>1, ExpiryInvariant, PTL

(* For any edits of the date and the lead times, restarts and failing writes,  *)
(* no warning of a date that stands is sent twice or after a more urgent one   *)
(* (ExpiryScanner.check, MarkExpiryNotified).                                 *)
THEOREM WarningsOnlyTighten == ExpirySpec => []NeverWarnedAgain
<1>1. ExpiryInv => NeverWarnedAgain
  BY DEF ExpiryInv
<1> QED BY <1>1, ExpiryInvariant, PTL

---------------------------------------------------------------------------
(***************************************************************************)
(* The three together, as the daemon runs them: what each keeps alone it    *)
(* keeps beside the others, whose steps leave its state as it is.           *)
(***************************************************************************)

DaemonInv == CInv /\ SInv /\ ExpiryInv

LEMMA DaemonStep ==
  ASSUME DaemonInv, [DaemonNext]_daemonVars
  PROVE  DaemonInv'
<1>1. [Next]_vars /\ [ShutdownNext]_shutdownVars /\ [ExpiryNext]_expiryVars
  BY DEF DaemonNext, daemonVars
<1>2. CInv'
  BY <1>1, CInvStep DEF DaemonInv
<1>3. SInv'
  BY <1>1, TypeStep, GateStep, ExitStep, WindowStep, CountStep DEF DaemonInv, SInv
<1>4. ExpiryInv'
  BY <1>1, ExpiryStep DEF DaemonInv
<1> QED BY <1>2, <1>3, <1>4 DEF DaemonInv

LEMMA DaemonInvariant ==
  ASSUME Subject # {} PROVE DaemonInit /\ [][DaemonNext]_daemonVars => []DaemonInv
<1>1. DaemonInit => DaemonInv
  BY CInvInit, SInit, ExpiryStart DEF DaemonInit, DaemonInv
<1>2. DaemonInv /\ [DaemonNext]_daemonVars => DaemonInv'
  BY DaemonStep
<1> QED BY <1>1, <1>2, PTL

(* Whichever component moves, every part of the daemon keeps its types.      *)
THEOREM DaemonTypesCorrect == ASSUME Subject # {} PROVE DaemonSpec => []DaemonTypeOK
<1>1. DaemonInv => DaemonTypeOK
  BY DEF DaemonInv, CInv, SInv, ExpiryInv, DaemonTypeOK
<1>2. DaemonSpec => DaemonInit /\ [][DaemonNext]_daemonVars
  BY DEF DaemonSpec
<1> QED BY <1>1, <1>2, DaemonInvariant, PTL

(* And every safety invariant of the daemon's run holds of it for all values *)
(* of the constants: one message an outage but for those a crash cut off, one *)
(* probing cycle, an exit that only the work nobody joins outlives, no count  *)
(* lost and no warning repeated.                                             *)
THEOREM DaemonIsSafe ==
  ASSUME Subject # {}
  PROVE  DaemonSpec => []( /\ OneMessagePerOutage /\ OneCycleAtATime /\ CleanExit
                           /\ CountsKept /\ NeverWarnedAgain )
<1>1. DaemonInv => /\ OneMessagePerOutage /\ OneCycleAtATime /\ CleanExit
                   /\ CountsKept /\ NeverWarnedAgain
  <2>1. SInv => CountsKept
    BY DEF SInv, ShutdownTypeOK, ExitInv, CountInv, CountsKept, Stopped
  <2> QED BY SInvIsClean, <2>1 DEF DaemonInv, CInv, ExpiryInv
<1>2. DaemonSpec => DaemonInit /\ [][DaemonNext]_daemonVars
  BY DEF DaemonSpec
<1> QED BY <1>1, <1>2, DaemonInvariant, PTL
===========================================================================
