------------------------- MODULE SearchCacheProofs -------------------------
(***************************************************************************)
(* Proofs about SearchCache, for any number of requests, refreshes and      *)
(* handlers: it is a Resolver, and no search result outlives the settings   *)
(* it was fetched under.                                                    *)
(*                                                                          *)
(* The coherence theorems exclude "add": an instance that is added under a  *)
(* recycled row id is the one mutation that purges nothing, and a build     *)
(* that straddles the delete and the add carries the new epoch.             *)
(***************************************************************************)
EXTENDS SearchCache, ResolverProofs

(* Handlers that committed and have not bumped the epoch. *)
Unbumped == { m \in Mut : mut[m] \in {"committed", "restored", "evicted"} }

(* Only a request with an engine searches, and a refresh never waits. *)
Working == {"gate", "live", "check", "store", "recheck", "undo"}
Shape == /\ \A r \in Req : task[r].stage # "idle" => req[r].pc = "ready"
         /\ \A s \in Swr : task[s].stage # "idle" =>
                              task[s].stage \in Working /\ task[s].role = "refresh"

(* An epoch snapshot is never ahead, and the current one entitles. *)
Entitles(a) ==
  a.epoch <= instEpoch /\ (Unbumped = {} /\ a.epoch = instEpoch => a.ver["set"] = db.ver["set"])

Snapshots ==
  /\ \A r \in Req : req[r].pc = "set" => req[r].adapter.epoch <= instEpoch
  /\ \A r \in Req : req[r].pc \in {"ref", "install", "ready"} => Entitles(req[r].adapter)
  /\ \A s \in Swr : task[s].stage # "idle" => Entitles(refresh[s])
  /\ installed # None => Entitles(installed)

RowOk == (~orphaned /\ Purging = {} /\ row # None /\ row["set"] # db.ver["set"]) => Undoing # {}

AnswerOk(r) ==
  (Unbumped = {} /\ At(r, "answered") /\ CurrentEpoch(r) /\ task[r].got.kind = "live")
    => task[r].got.ver["set"] = db.ver["set"]

(* The inductive invariant. *)
CInv == CacheTypeOK /\ Shape /\ Snapshots /\ RowOk /\ \A r \in Req : AnswerOk(r)

-----------------------------------------------------------------------------
(* Every step of the cache is a step of the Resolver, or none.              *)
LEMMA Simulation == CacheNext => [Next]_resolverVars
<1> SUFFICES ASSUME CacheNext PROVE [Next]_resolverVars
  OBVIOUS
<1>1. ASSUME NEW r \in Req, Lookup(r) PROVE [Next]_resolverVars
  BY <1>1 DEF Lookup, Begin, Building, Bypass, Hit, HitAndRefresh, Miss, Next, Resolving
<1>2. ASSUME NEW r \in Req, Flight(r) PROVE [Next]_resolverVars
  BY <1>2 DEF Flight, Join, DoubleCheckHit, DoubleCheckMiss
<1>3. ASSUME NEW r \in Req, ServeStale(r) \/ Leave(r) \/ ClientGone(r) PROVE [Next]_resolverVars
  BY <1>3 DEF ServeStale, Leave, ClientGone, Next
<1>4. ASSUME NEW q \in Proc, Fetch(q) PROVE [Next]_resolverVars
  BY <1>4 DEF Fetch, Replay, GoLive, LiveOk, LiveFails, LiveRefused, LiveCanceled
<1>5. ASSUME NEW q \in Proc, WriteBack(q) PROVE [Next]_resolverVars
  BY <1>5 DEF WriteBack, CheckEpoch, Store, StoreFails, RecheckEpoch, CompensateStaleStore
<1>6. ASSUME NEW m \in Mut, Mutation(m) PROVE [Next]_resolverVars
  BY <1>6 DEF Mutation, CommitAndCascade, EvictEngine, DropBreaker, PurgeRows, Next, Mutating
<1>7. CASE BreakerLapses \/ Reap \/ Restart
  BY <1>7 DEF BreakerLapses, Reap, Restart, Next
<1> QED BY <1>1, <1>2, <1>3, <1>4, <1>5, <1>6, <1>7 DEF CacheNext

(* SearchCache implements Resolver, so everything proved of Resolver holds.  *)
THEOREM CacheIsResolver == CacheSpec => Spec
<1>1. CacheInit => Init
  BY DEF CacheInit
<1>2. [CacheNext]_vars => [Next]_resolverVars
  BY Simulation DEF vars
<1> QED BY <1>1, <1>2, PTL DEF CacheSpec, Spec

-----------------------------------------------------------------------------
(* What the end of an attempt changes: the tasks of those it answers.        *)
LEMMA IdleTaskFacts == IdleTask \in Task /\ IdleTask.stage = "idle"
  BY DEF IdleTask, Task, Stage

LEMMA StageFacts ==
  ASSUME NEW t \in Task, NEW st \in Stage
  PROVE  /\ [t EXCEPT !.stage = st] \in Task
         /\ [t EXCEPT !.stage = st].stage = st
         /\ [t EXCEPT !.stage = st].role = t.role
         /\ [t EXCEPT !.stage = st].got = t.got
  BY DEF Task

LEMMA AnswerFacts ==
  ASSUME NEW t \in Task, NEW res \in Result
  PROVE  /\ Answer(t, res) \in Task
         /\ Answer(t, res).stage = "answered" /\ Answer(t, res).got = res
<1>1. res \in Result \cup {None} /\ "answered" \in Stage
  BY DEF Stage
<1> QED BY <1>1 DEF Answer, Task

LEMMA AfterFlightFacts ==
  ASSUME CacheTypeOK, NEW r \in Proc, NEW res \in Result
  PROVE  /\ AfterFlight(r, res) \in Task
         /\ AfterFlight(r, res).stage \in {"join", "gate", "answered"}
         /\ AfterFlight(r, res).stage = "answered" => AfterFlight(r, res).got = res
<1> DEFINE t == task[r]
           again == [t EXCEPT !.stage = "join", !.role = "none", !.tries = 1]
           alone == [t EXCEPT !.stage = "gate", !.role = "solo", !.tries = 2]
<1>0. t \in Task
  BY DEF CacheTypeOK
<1>a. "join" \in Stage /\ "gate" \in Stage /\ 1 \in 0 .. 2 /\ 2 \in 0 .. 2
  BY DEF Stage
<1>b. t.got \in Result \cup {None}
  BY <1>0 DEF Task
<1>1. again \in Task /\ again.stage = "join"
  BY <1>0, <1>a, <1>b DEF Task
<1>2. alone \in Task /\ alone.stage = "gate"
  BY <1>0, <1>a, <1>b DEF Task
<1>3. AfterFlight(r, res) \in {again, alone, Answer(t, res)}
  BY DEF AfterFlight
<1> HIDE DEF again, alone, t
<1>4. Answer(t, res) \in Task /\ Answer(t, res).stage = "answered" /\ Answer(t, res).got = res
  BY <1>0, AnswerFacts
<1> QED BY <1>1, <1>2, <1>3, <1>4

LEMMA CompleteFacts ==
  ASSUME CacheTypeOK, Shape, NEW p \in Proc, NEW res \in Result,
         task[p].stage \in Working \cup {"dcheck"}, Complete(p, res)
  PROVE  /\ task' \in [Proc -> Task] /\ refresh' \in [Swr -> Adapter]
         /\ \A q \in Proc : task'[q] = task[q]
                            \/ task'[q].stage \in {"idle", "join", "gate", "answered"}
         /\ \A q \in Proc : Stored(q) /\ q # p => task'[q] = task[q]
         /\ \A s \in Swr : task'[s].stage # "idle" =>
                             task'[s] = task[s] /\ refresh'[s] = refresh[s]
         /\ \A r \in Req : task'[r].stage # "idle" => task[r].stage # "idle"
         /\ \A r \in Req : task'[r].stage = "answered" =>
              \/ task'[r] = task[r]
              \/ task'[r].got = res /\ Engine(r).epoch = Engine(p).epoch
<1> task \in [Proc -> Task] /\ refresh \in [Swr -> Adapter] /\ task' = Completed(p, res)
  BY DEF CacheTypeOK, Complete
<1> Req \cap Swr = {} /\ Proc = Req \cup Swr
  BY ProcAssumption DEF Proc
<1>0. refresh' \in [Swr -> Adapter] /\ \A s \in Swr : s # p => refresh'[s] = refresh[s]
  BY DEF Complete, Blank, NoVer, Adapter, Version
<1>1. CASE task[p].role = "leader"
  <2>1. p \in Req /\ \A s \in Swr : ~Coalesced(p, s)
    BY <1>1 DEF Shape, Coalesced, Working
  <2>2. \A q \in Proc : task'[q] = IF Coalesced(p, q) THEN AfterFlight(q, res) ELSE task[q]
    BY <1>1 DEF Completed
  <2>3. task' \in [Proc -> Task]
    BY <1>1, AfterFlightFacts DEF Completed
  <2>4. \A q \in Proc : Coalesced(p, q) => task[q].stage # "idle" /\ Engine(q).epoch = Engine(p).epoch
                                           /\ (q = p \/ ~Stored(q))
    BY DEF Coalesced, cacheFlightKey, Working, Stored
  <2>5. \A s \in Swr : s # p
    BY <2>1
  <2> QED BY <1>0, <2>1, <2>2, <2>3, <2>4, <2>5, AfterFlightFacts
<1>2. CASE task[p].role = "solo"
  <2>1. p \in Req
    BY <1>2 DEF Shape, Working
  <2>2. task' = [task EXCEPT ![p] = Answer(task[p], res)]
    BY <1>2 DEF Completed
  <2>3. \A s \in Swr : s # p
    BY <2>1
  <2> QED BY <1>0, <2>1, <2>2, <2>3, AnswerFacts DEF Working
<1>3. CASE task[p].role \notin {"leader", "solo"}
  <2>1. task' = [task EXCEPT ![p] = IdleTask]
    BY <1>3 DEF Completed
  <2> QED BY <1>0, <2>1, IdleTaskFacts DEF Working
<1> QED BY <1>1, <1>2, <1>3

LEMMA GotoFacts ==
  ASSUME CacheTypeOK, NEW p \in Proc, NEW st \in Stage, Goto(p, st)
  PROVE  /\ task' \in [Proc -> Task] /\ refresh' = refresh
         /\ task'[p].stage = st /\ task'[p].role = task[p].role
         /\ \A q \in Proc : q # p => task'[q] = task[q]
<1> task[p] \in Task /\ task \in [Proc -> Task]
  BY DEF CacheTypeOK
<1>1. task' = [task EXCEPT ![p] = [task[p] EXCEPT !.stage = st]] /\ refresh' = refresh
  BY DEF Goto
<1> QED BY <1>1, StageFacts

(* The engine of whoever is searching. *)
LEMMA EngineFacts ==
  ASSUME CInv, NEW p \in Proc, task[p].stage # "idle"
  PROVE  /\ Engine(p) \in Adapter /\ Engine(p).ver \in Version
         /\ Entitles(Engine(p)) /\ LiveResult(p) \in Result
<1>1. Engine(p) \in Adapter /\ Entitles(Engine(p))
  BY DEF CInv, CacheTypeOK, TypeOK, ReqState, Shape, Snapshots, Engine, Proc
<1> QED BY <1>1 DEF Adapter, LiveResult, Result

(* A step that leaves the resolver, the rows and Undoing alone keeps RowOk.  *)
LEMMA RowKeeps ==
  ASSUME RowOk, UNCHANGED <<resolverVars, row, orphaned>>, Undoing \subseteq Undoing'
  PROVE  RowOk'
BY DEF RowOk, resolverVars, Purging

LEMMA CompleteKeeps ==
  ASSUME CInv, NEW p \in Proc, NEW res \in Result,
         task[p].stage \in Working \cup {"dcheck"}, Complete(p, res),
         UNCHANGED resolverVars,
         res.kind = "live" => res = LiveResult(p)
  PROVE  /\ task' \in [Proc -> Task] /\ refresh' \in [Swr -> Adapter]
         /\ Shape' /\ Snapshots' /\ \A r \in Req : AnswerOk(r)'
         /\ p \notin Undoing => Undoing \subseteq Undoing'
<1> USE DEF CInv
<1>1. CacheTypeOK /\ Shape /\ Proc = Req \cup Swr
  BY DEF Proc
<1>2. Shape'
  BY <1>1, CompleteFacts DEF Shape, resolverVars, Working
<1>3. Snapshots'
  BY <1>1, CompleteFacts DEF Snapshots, Entitles, Unbumped, resolverVars
<1>4. ASSUME NEW r \in Req PROVE AnswerOk(r)'
  <2>1. Engine(r)' = Engine(r)
    BY <1>1 DEF Engine, resolverVars
  <2>2. task[p].stage # "idle"
    BY DEF Working
  <2>3. CASE task'[r].stage = "answered" /\ task'[r] # task[r]
    <3>1. task'[r].got = res /\ Engine(r).epoch = Engine(p).epoch
      BY <1>1, <2>3, CompleteFacts
    <3>2. Entitles(Engine(p))
      BY <2>2, EngineFacts
    <3> QED BY <2>1, <3>1, <3>2 DEF AnswerOk, At, CurrentEpoch, LiveResult, Entitles, Unbumped, resolverVars
  <2>4. CASE task'[r] = task[r]
    BY <2>1, <2>4 DEF AnswerOk, At, CurrentEpoch, Unbumped, resolverVars
  <2> QED BY <2>3, <2>4 DEF AnswerOk, At
<1>5. ASSUME p \notin Undoing, NEW q \in Undoing PROVE q \in Undoing'
  <2>1. q \in Proc /\ q # p /\ Stored(q) /\ ~CurrentEpoch(q)
    BY <1>5 DEF Undoing
  <2>2. task'[q] = task[q]
    BY <1>1, <2>1, CompleteFacts
  <2>3. Engine(q)' = Engine(q)
    <3>1. q \in Swr => task'[q].stage # "idle"
      BY <2>1, <2>2 DEF Stored
    <3> QED BY <1>1, <2>1, <3>1, CompleteFacts DEF Engine, resolverVars
  <2> QED BY <2>1, <2>2, <2>3 DEF Undoing, Stored, CurrentEpoch, resolverVars
<1> QED BY <1>1, <1>2, <1>3, <1>4, <1>5, CompleteFacts

LEMMA GotoKeeps ==
  ASSUME CInv, NEW p \in Proc, NEW st \in Working, Goto(p, st),
         task[p].stage \in Working \cup {"dcheck"},
         UNCHANGED resolverVars
  PROVE  /\ task' \in [Proc -> Task] /\ refresh' \in [Swr -> Adapter]
         /\ Shape' /\ Snapshots' /\ \A r \in Req : AnswerOk(r)'
         /\ \A q \in Proc : Engine(q)' = Engine(q)
         /\ Undoing \ {p} \subseteq Undoing'
         /\ (st \in {"recheck", "undo"} /\ ~CurrentEpoch(p)) => p \in Undoing'
<1> USE DEF CInv
<1>0. st \in Stage /\ Proc = Req \cup Swr /\ CacheTypeOK
  BY DEF Working, Stage, Proc
<1>1. \A q \in Proc : Engine(q)' = Engine(q)
  BY <1>0, GotoFacts DEF Engine, resolverVars
<1>2. Shape'
  BY <1>0, GotoFacts DEF Shape, resolverVars, Working
<1>3. Snapshots'
  BY <1>0, GotoFacts DEF Snapshots, Entitles, Unbumped, resolverVars, Shape, Working
<1>4. \A r \in Req : AnswerOk(r)'
  BY <1>0, <1>1, GotoFacts DEF AnswerOk, At, CurrentEpoch, Unbumped, resolverVars, Working
<1>5. Undoing \ {p} \subseteq Undoing'
  BY <1>0, <1>1, GotoFacts DEF Undoing, Stored, CurrentEpoch, resolverVars
<1>6. (st \in {"recheck", "undo"} /\ ~CurrentEpoch(p)) => p \in Undoing'
  BY <1>0, <1>1, GotoFacts DEF Undoing, Stored, CurrentEpoch, resolverVars
<1>7. refresh' \in [Swr -> Adapter]
  BY <1>0, GotoFacts DEF CacheTypeOK
<1> QED BY <1>0, <1>1, <1>2, <1>3, <1>4, <1>5, <1>6, <1>7, GotoFacts

-----------------------------------------------------------------------------
LEMMA FetchStep == ASSUME CInv, NEW p \in Proc, Fetch(p) PROVE CInv'
<1> USE DEF CInv
<1>0. /\ UNCHANGED <<resolverVars, row, gone, orphaned>>
      /\ task[p].stage \in Working \cup {"dcheck"} /\ task[p].stage \notin {"recheck", "undo"}
      /\ TypeOK' /\ p \notin Undoing
  <2>1. UNCHANGED <<resolverVars, row, gone, orphaned>> /\ task[p].stage \in {"gate", "live"}
    BY DEF Fetch, Replay, GoLive, LiveOk, LiveFails, LiveRefused, LiveCanceled, At
  <2>2. TypeOK'
    BY <2>1, TypeStep DEF CacheTypeOK
  <2> QED BY <2>1, <2>2 DEF Working, Undoing, Stored
<1>a. task[p].stage # "idle"
  BY <1>0 DEF Working
<1>1. ASSUME NEW res \in Result, res.kind # "live", Complete(p, res), brk' \in Failure \cup {None}
      PROVE  CInv'
  <2>1. RowOk'
    BY <1>0, <1>1, CompleteKeeps, RowKeeps
  <2> QED BY <1>0, <1>1, <2>1, CompleteKeeps DEF CacheTypeOK
<1>2. ASSUME NEW st \in {"live", "check"}, Goto(p, st), UNCHANGED brk PROVE CInv'
  <2>0. st \in Working
    BY DEF Working
  <2>1. Undoing \subseteq Undoing'
    BY <1>0, <1>2, <2>0, GotoKeeps
  <2>2. RowOk'
    BY <1>0, <2>1, RowKeeps
  <2> QED BY <1>0, <1>2, <2>0, <2>2, GotoKeeps DEF CacheTypeOK
<1>3. Failure \subseteq Result /\ \A f \in Failure : f.kind # "live"
  BY DEF Failure, Result
<1>4. CASE Replay(p)
  <2>1. brk \in Failure /\ brk' = brk
    BY <1>4 DEF Replay, BreakerOpen, CacheTypeOK
  <2> QED BY <1>1, <1>3, <1>4, <2>1 DEF Replay
<1>5. CASE GoLive(p) \/ LiveOk(p)
  BY <1>2, <1>5 DEF GoLive, LiveOk
<1>6. CASE LiveFails(p)
  <2>1. PICK kind \in {"error", "timeout"} :
          TripBreaker(p, [kind |-> kind, ver |-> Engine(p).ver])
            /\ Complete(p, [kind |-> kind, ver |-> Engine(p).ver])
    BY <1>6 DEF LiveFails
  <2> DEFINE err == [kind |-> kind, ver |-> Engine(p).ver]
  <2>2. err \in Failure
    BY <1>a, EngineFacts DEF Failure
  <2>3. brk' \in Failure \cup {None}
    BY <2>1, <2>2 DEF TripBreaker, CacheTypeOK
  <2> QED BY <1>1, <1>3, <2>1, <2>2, <2>3
<1>7. CASE LiveRefused(p)
  <2>1. PICK kind \in {"error", "exhausted"} : Complete(p, [kind |-> kind, ver |-> Engine(p).ver])
    BY <1>7 DEF LiveRefused
  <2> DEFINE res == [kind |-> kind, ver |-> Engine(p).ver]
  <2>2. res \in Result /\ res.kind # "live"
    BY <1>a, EngineFacts DEF Result
  <2>3. brk' \in Failure \cup {None} /\ Complete(p, res)
    BY <1>7, <2>1 DEF LiveRefused, CacheTypeOK
  <2> HIDE DEF res
  <2> QED BY <1>1, <2>2, <2>3
<1>8. CASE LiveCanceled(p)
  <2> DEFINE res == [kind |-> "canceled", ver |-> Engine(p).ver]
  <2>1. res \in Result /\ res.kind # "live"
    BY <1>a, EngineFacts DEF Result
  <2>2. brk' \in Failure \cup {None} /\ Complete(p, res)
    BY <1>8 DEF LiveCanceled, CacheTypeOK
  <2> HIDE DEF res
  <2> QED BY <1>1, <2>1, <2>2
<1> QED BY <1>4, <1>5, <1>6, <1>7, <1>8 DEF Fetch

LEMMA WriteBackStep == ASSUME CInv, NEW p \in Proc, WriteBack(p) PROVE CInv'
<1> USE DEF CInv
<1>0. /\ UNCHANGED <<resolverVars, brk, gone>>
      /\ task[p].stage \in {"check", "store", "recheck", "undo"}
      /\ task[p].stage \in Working \cup {"dcheck"} /\ task[p].stage # "idle"
      /\ TypeOK'
  <2>1. UNCHANGED <<resolverVars, brk, gone>>
        /\ task[p].stage \in {"check", "store", "recheck", "undo"}
    BY DEF WriteBack, CheckEpoch, Store, StoreFails, RecheckEpoch, CompensateStaleStore, At
  <2>2. TypeOK'
    BY <2>1, TypeStep DEF CacheTypeOK
  <2> QED BY <2>1, <2>2 DEF Working
<1>a. LiveResult(p) \in Result /\ Engine(p).ver \in Version /\ Entitles(Engine(p))
  BY <1>0, EngineFacts
<1>b. row # None => row \in Version
  BY DEF CacheTypeOK
<1>1. ASSUME Complete(p, LiveResult(p)), row' \in Version \cup {None}, orphaned' \in BOOLEAN, RowOk'
      PROVE  CInv'
  BY <1>0, <1>1, <1>a, CompleteKeeps DEF CacheTypeOK
<1>2. ASSUME Complete(p, LiveResult(p)), UNCHANGED <<row, orphaned>>, p \notin Undoing
      PROVE  CInv'
  <2>1. RowOk'
    BY <1>0, <1>2, <1>a, CompleteKeeps, RowKeeps
  <2> QED BY <1>1, <1>2, <2>1 DEF CacheTypeOK
<1>3. ASSUME NEW st \in Working, Goto(p, st), row' \in Version \cup {None}, UNCHANGED orphaned, RowOk'
      PROVE  CInv'
  BY <1>0, <1>3, GotoKeeps DEF CacheTypeOK
<1>4. CASE CheckEpoch(p)
  <2>1. p \notin Undoing
    BY <1>4 DEF CheckEpoch, At, Undoing, Stored
  <2>2. CASE CurrentEpoch(p)
    <3>1. Goto(p, "store") /\ "store" \in Working
      BY <1>4, <2>2 DEF CheckEpoch, Working
    <3>2. Undoing \subseteq Undoing'
      BY <1>0, <2>1, <3>1, GotoKeeps
    <3>3. RowOk'
      BY <1>0, <1>4, <3>2, RowKeeps DEF CheckEpoch
    <3> QED BY <1>3, <1>4, <3>1, <3>3 DEF CheckEpoch, CacheTypeOK
  <2>3. CASE ~CurrentEpoch(p)
    BY <1>2, <1>4, <2>1, <2>3 DEF CheckEpoch
  <2> QED BY <2>2, <2>3
<1>5. CASE Store(p)
  <2>1. Goto(p, "recheck") /\ "recheck" \in Working /\ row' = Engine(p).ver /\ orphaned' = orphaned
    BY <1>5 DEF Store, Working
  <2>2. CASE CurrentEpoch(p)
    <3>1. Unbumped = {} => row'["set"] = db.ver["set"]
      BY <1>a, <2>1, <2>2 DEF Entitles, CurrentEpoch
    <3>2. Purging' = {} => Unbumped = {} /\ db' = db
      BY <1>0 DEF Purging, Unbumped, resolverVars
    <3>3. RowOk'
      BY <3>1, <3>2 DEF RowOk
    <3> QED BY <1>3, <1>a, <2>1, <3>3
  <2>3. CASE ~CurrentEpoch(p)
    <3>1. p \in Undoing'
      BY <1>0, <2>1, <2>3, GotoKeeps
    <3>2. RowOk'
      BY <3>1 DEF RowOk
    <3> QED BY <1>3, <1>a, <2>1, <3>2
  <2> QED BY <2>2, <2>3
<1>6. CASE StoreFails(p)
  <2>1. p \notin Undoing
    BY <1>6 DEF StoreFails, At, Undoing, Stored
  <2> QED BY <1>2, <1>6, <2>1 DEF StoreFails
<1>7. CASE RecheckEpoch(p)
  <2>1. CASE CurrentEpoch(p)
    <3>1. p \notin Undoing
      BY <2>1 DEF Undoing
    <3> QED BY <1>2, <1>7, <2>1, <3>1 DEF RecheckEpoch
  <2>2. CASE ~CurrentEpoch(p)
    <3>1. Goto(p, "undo") /\ "undo" \in Working
      BY <1>7, <2>2 DEF RecheckEpoch, Working
    <3>2. Undoing \subseteq Undoing'
      BY <1>0, <2>2, <3>1, GotoKeeps
    <3>3. RowOk'
      BY <1>0, <1>7, <3>2, RowKeeps DEF RecheckEpoch
    <3> QED BY <1>3, <1>7, <3>1, <3>3 DEF RecheckEpoch, CacheTypeOK
  <2> QED BY <2>1, <2>2
<1>8. CASE CompensateStaleStore(p)
  <2>1. RowOk' /\ row' \in Version \cup {None} /\ orphaned' \in BOOLEAN
    BY <1>8 DEF CompensateStaleStore, RowOk, CacheTypeOK
  <2> QED BY <1>1, <1>8, <2>1 DEF CompensateStaleStore
<1> QED BY <1>4, <1>5, <1>6, <1>7, <1>8 DEF WriteBack

-----------------------------------------------------------------------------
LEMMA InvInitCache == CacheInit => CInv
<1> SUFFICES ASSUME CacheInit PROVE CInv
  OBVIOUS
<1> USE DEF CacheInit
<1>1. CacheTypeOK
  BY TypeInit, IdleTaskFacts DEF CacheTypeOK, Blank, NoVer, Adapter, Version
<1>2. Shape
  BY IdleTaskFacts DEF Shape, Proc
<1>3. Snapshots /\ RowOk
  BY IdleTaskFacts, IdleFacts DEF Init, Snapshots, RowOk, Proc
<1>4. \A r \in Req : AnswerOk(r)
  BY DEF AnswerOk, At, IdleTask, Proc
<1> QED BY <1>1, <1>2, <1>3, <1>4 DEF CInv

(* A request that is not searching moves on alone. *)
LEMMA AloneKeeps ==
  ASSUME CInv, NEW r \in Req,
         UNCHANGED <<db, instEpoch, mut, row, brk, refresh, orphaned>>,
         TypeOK', gone' \subseteq Req,
         req' \in [Req -> ReqState], \A q \in Req \ {r} : req'[q] = req[q],
         task' \in [Proc -> Task], \A q \in Proc \ {r} : task'[q] = task[q],
         task[r].stage = "idle" \/ ~Stored(r), task'[r].stage = "idle",
         req'[r].pc = "set" => req'[r].adapter.epoch <= instEpoch,
         req'[r].pc \in {"ref", "install", "ready"} => Entitles(req'[r].adapter),
         installed' # None => Entitles(installed')
  PROVE  CInv'
<1> USE DEF CInv
<1>0. Proc = Req \cup Swr /\ Req \cap Swr = {} /\ ~Stored(r)
  BY ProcAssumption DEF Proc, Stored
<1>1. CacheTypeOK'
  BY DEF CacheTypeOK
<1>2. Shape'
  BY <1>0 DEF Shape
<1>3. Snapshots'
  BY <1>0 DEF Snapshots, Entitles, Unbumped
<1>4. \A q \in Proc \ {r} : Engine(q)' = Engine(q)
  BY <1>0 DEF Engine
<1>5. Undoing \subseteq Undoing'
  BY <1>0, <1>4 DEF Undoing, Stored, CurrentEpoch
<1>6. RowOk'
  BY <1>5 DEF RowOk, Purging
<1>7. ASSUME NEW q \in Req PROVE AnswerOk(q)'
  BY <1>0, <1>4 DEF AnswerOk, At, CurrentEpoch, Unbumped
<1> QED BY <1>1, <1>2, <1>3, <1>6, <1>7

LEMMA ResolveStep == ASSUME CInv, NEW r \in Req, Begin(r) \/ Building(r) PROVE CInv'
<1> USE DEF CInv
<1>0. /\ req[r] \in ReqState /\ req[r].adapter \in Adapter /\ db.ver \in Version
      /\ req \in [Req -> ReqState] /\ task \in [Proc -> Task] /\ instEpoch \in Nat /\ r \in Proc
  BY DEF CacheTypeOK, TypeOK, ReqState, Proc
<1>1. /\ UNCHANGED <<db, instEpoch, mut, row, brk, refresh, orphaned>>
      /\ req[r].pc # "ready" /\ gone' \subseteq Req
      /\ task' \in {task, [task EXCEPT ![r] = IdleTask]}
  BY DEF Begin, Building, cacheVars, ResolveHit, ResolveMiss, ReadRow, SnapshotEpoch, ReadSettings,
         ReadRefs, BuildFails, Install, BuildPc, CacheTypeOK
<1>2. task[r].stage = "idle"
  BY <1>1 DEF Shape
<1>3. /\ task' \in [Proc -> Task] /\ task'[r].stage = "idle"
      /\ \A q \in Proc \ {r} : task'[q] = task[q]
  BY <1>0, <1>1, <1>2, IdleTaskFacts
<1>4. TypeOK'
  <2>1. Resolving(r)
    BY DEF Begin, Building, Resolving
  <2> QED BY <2>1, TypeStep DEF CacheTypeOK, Next
<1>5. req' \in [Req -> ReqState]
  BY <1>4 DEF TypeOK
<1>6. /\ \A q \in Req \ {r} : req'[q] = req[q]
      /\ req'[r].pc = "set" => req'[r].adapter.epoch <= instEpoch
      /\ req'[r].pc \in {"ref", "install", "ready"} => Entitles(req'[r].adapter)
      /\ installed' # None => Entitles(installed')
  <2> "row" \in Part /\ "set" \in Part /\ "ref" \in Part
    BY DEF Part
  <2> USE <1>0
  <2>1. CASE ResolveHit(r)
    BY <2>1, IdleFacts DEF ResolveHit, Ready, Snapshots, ReqState
  <2>2. CASE ResolveMiss(r)
    BY <2>2 DEF ResolveMiss, IdleReq
  <2>3. CASE ReadRow(r)
    BY <2>3, ReadFacts, BuildFacts, IdleFacts DEF ReadRow, Snapshots, ReqPc, BuildPc
  <2>4. CASE SnapshotEpoch(r)
    <3> DEFINE a == [req[r].adapter EXCEPT !.epoch = instEpoch]
    <3>1. a \in Adapter /\ a.epoch = instEpoch
      BY DEF Adapter
    <3> HIDE DEF a
    <3>2. Build(r, "set", a) /\ installed' = installed
      BY <2>4 DEF SnapshotEpoch, a
    <3> QED BY <3>1, <3>2, BuildFacts DEF Snapshots, ReqPc, BuildPc
  <2>5. CASE ReadSettings(r)
    <3> DEFINE a == Read(req[r].adapter, "set")
    <3>1. a \in Adapter /\ a.epoch = req[r].adapter.epoch /\ a.ver["set"] = db.ver["set"]
      BY ReadFacts, SMTT(60)
    <3>2. Entitles(a)
      BY <2>5, <3>1 DEF ReadSettings, Snapshots, Entitles
    <3> HIDE DEF a
    <3>3. Build(r, "ref", a) /\ installed' = installed
      BY <2>5 DEF ReadSettings, a
    <3> QED BY <3>1, <3>2, <3>3, BuildFacts DEF Snapshots, ReqPc, BuildPc
  <2>6. CASE ReadRefs(r)
    <3> DEFINE a == Read(req[r].adapter, "ref")
    <3>1. a \in Adapter /\ a.epoch = req[r].adapter.epoch /\ a.ver["set"] = req[r].adapter.ver["set"]
      BY ReadFacts, SMTT(60)
    <3>2. Entitles(a)
      BY <2>6, <3>1 DEF ReadRefs, Snapshots, Entitles
    <3> HIDE DEF a
    <3>3. Build(r, "install", a) /\ installed' = installed
      BY <2>6 DEF ReadRefs, a
    <3> QED BY <3>1, <3>2, <3>3, BuildFacts DEF Snapshots, ReqPc, BuildPc
  <2>7. CASE BuildFails(r)
    BY <2>7, IdleFacts DEF BuildFails, Snapshots
  <2>8. CASE Install(r)
    <3>1. Entitles(req[r].adapter) /\ (installed # None => Entitles(installed))
      BY <2>8 DEF Install, Snapshots
    <3>2. installed' \in {installed, req[r].adapter}
      BY <2>8 DEF Install
    <3>3. req'[r].pc = "ready" /\ \A q \in Req \ {r} : req'[q] = req[q]
      BY <2>8, IdleFacts DEF Install, Ready, ReqState
    <3>4. req'[r].adapter = IF installed # None THEN installed ELSE req[r].adapter
      BY <2>8, IdleFacts DEF Install, Ready, ReqState
    <3> QED BY <3>1, <3>2, <3>3, <3>4
  <2> QED BY <2>1, <2>2, <2>3, <2>4, <2>5, <2>6, <2>7, <2>8 DEF Begin, Building
<1> QED BY <1>1, <1>2, <1>3, <1>4, <1>5, <1>6, AloneKeeps

(* A searching request moves on, its engine and everybody else's unchanged. *)
LEMMA SearchKeeps ==
  ASSUME CInv, NEW r \in Req, UNCHANGED <<resolverVars, row, brk, refresh, gone, orphaned>>,
         task' \in [Proc -> Task], \A q \in Proc \ {r} : task'[q] = task[q],
         req[r].pc = "ready", ~Stored(r), AnswerOk(r)'
  PROVE  CInv'
<1> USE DEF CInv
<1>0. Proc = Req \cup Swr /\ Req \cap Swr = {}
  BY ProcAssumption DEF Proc
<1>1. CacheTypeOK'
  BY TypeStep DEF CacheTypeOK
<1>2. Shape'
  BY <1>0 DEF Shape, resolverVars
<1>3. Snapshots'
  BY <1>0 DEF Snapshots, Entitles, Unbumped, resolverVars
<1>4. \A q \in Proc : Engine(q)' = Engine(q)
  BY DEF Engine, resolverVars
<1>5. Undoing \subseteq Undoing'
  BY <1>0, <1>4 DEF Undoing, Stored, CurrentEpoch, resolverVars
<1>6. RowOk'
  BY <1>5, RowKeeps
<1>7. ASSUME NEW q \in Req, q # r PROVE AnswerOk(q)'
  BY <1>0, <1>4, <1>7 DEF AnswerOk, At, CurrentEpoch, Unbumped, resolverVars
<1> QED BY <1>1, <1>2, <1>3, <1>6, <1>7

LEMMA LookupStep == ASSUME CInv, NEW r \in Req, Lookup(r) PROVE CInv'
<1> USE DEF CInv
<1>0. r \in Proc /\ task[r] \in Task /\ task \in [Proc -> Task] /\ brk \in Failure \cup {None}
  BY DEF CacheTypeOK, Proc
<1>a. Failure \subseteq Result /\ \A f \in Failure : f.kind # "live"
  BY DEF Failure, Result
<1>b. row # None => StoredResult \in Result /\ StoredResult.kind = "stored"
  BY DEF StoredResult, Result, CacheTypeOK
<1>1. CASE Begin(r) \/ Building(r)
  BY <1>1, ResolveStep
<1>2. ASSUME Searching(r), NEW t \in Task, task' = [task EXCEPT ![r] = t],
             t.stage = "answered" => t.got.kind # "live",
             UNCHANGED <<resolverVars, row, brk, refresh, gone, orphaned>>
      PROVE  CInv'
  <2>1. req[r].pc = "ready" /\ ~Stored(r) /\ task'[r] = t
    BY <1>0, <1>2 DEF Searching, Stored, At
  <2>2. AnswerOk(r)'
    BY <1>2, <2>1 DEF AnswerOk, At
  <2> QED BY <1>0, <1>2, <2>1, <2>2, SearchKeeps
<1>3. CASE Bypass(r)
  <2> DEFINE t == [task[r] EXCEPT !.stage = "gate", !.role = "solo"]
  <2>1. t \in Task /\ t.stage = "gate"
    BY <1>0 DEF Task, Stage
  <2>2. task' = [task EXCEPT ![r] = t]
    BY <1>0, <1>3 DEF Bypass
  <2> HIDE DEF t
  <2> QED BY <1>2, <1>3, <2>1, <2>2 DEF Bypass
<1>4. CASE Hit(r)
  <2> DEFINE t == Answer(task[r], StoredResult)
  <2>1. t \in Task /\ t.got.kind = "stored"
    BY <1>0, <1>b, <1>4, AnswerFacts DEF Hit
  <2>2. task' = [task EXCEPT ![r] = t]
    BY <1>4 DEF Hit
  <2> HIDE DEF t
  <2> QED BY <1>2, <1>4, <2>1, <2>2 DEF Hit
<1>5. CASE Miss(r)
  <2>1. CASE BreakerOpen
    <3> DEFINE t == Answer(task[r], brk)
    <3>1. t \in Task /\ t.got.kind # "live"
      BY <1>0, <1>a, <2>1, AnswerFacts DEF BreakerOpen
    <3>2. task' = [task EXCEPT ![r] = t]
      BY <1>5, <2>1 DEF Miss
    <3> HIDE DEF t
    <3> QED BY <1>2, <1>5, <3>1, <3>2 DEF Miss
  <2>2. CASE ~BreakerOpen
    <3> DEFINE t == [task[r] EXCEPT !.stage = "join"]
    <3>1. t \in Task /\ t.stage = "join"
      BY <1>0 DEF Task, Stage
    <3>2. task' = [task EXCEPT ![r] = t]
      BY <1>5, <2>2 DEF Miss
    <3> HIDE DEF t
    <3> QED BY <1>2, <1>5, <3>1, <3>2 DEF Miss
  <2> QED BY <2>1, <2>2
<1>6. CASE HitAndRefresh(r)
  <2> DEFINE t == Answer(task[r], StoredResult)
             u == [IdleTask EXCEPT !.stage = "gate", !.role = "refresh"]
  <2>1. t \in Task /\ t.stage = "answered" /\ t.got.kind = "stored"
    BY <1>0, <1>b, <1>6, AnswerFacts DEF HitAndRefresh
  <2>2. u \in Task /\ u.stage = "gate" /\ u.role = "refresh"
    BY IdleTaskFacts DEF Task, Stage
  <2>3. PICK s \in Swr : /\ task[s].stage = "idle"
                         /\ refresh' = [refresh EXCEPT ![s] = Engine(r)]
                         /\ task' = [task EXCEPT ![r] = t, ![s] = u]
    BY <1>6 DEF HitAndRefresh, At
  <2> HIDE DEF t, u
  <2>4. UNCHANGED <<resolverVars, row, brk, gone, orphaned>> /\ req[r].pc = "ready" /\ row # None
    BY <1>6 DEF HitAndRefresh, Searching
  <2>5. Proc = Req \cup Swr /\ Req \cap Swr = {} /\ r # s
    BY ProcAssumption DEF Proc
  <2>6. /\ task' \in [Proc -> Task] /\ task'[r] = t /\ task'[s] = u
        /\ \A q \in Proc \ {r, s} : task'[q] = task[q]
    BY <1>0, <2>1, <2>2, <2>3, <2>5
  <2>7. Engine(r) \in Adapter /\ Entitles(Engine(r))
    BY <2>4 DEF Engine, Snapshots, CacheTypeOK, TypeOK, ReqState
  <2>8. /\ refresh' \in [Swr -> Adapter] /\ refresh'[s] = Engine(r)
        /\ \A q \in Swr \ {s} : refresh'[q] = refresh[q]
    BY <2>3, <2>7 DEF CacheTypeOK
  <2>9. CacheTypeOK'
    BY <2>4, <2>6, <2>8, TypeStep DEF CacheTypeOK
  <2>10. Shape'
    BY <2>1, <2>2, <2>4, <2>5, <2>6 DEF Shape, Working, resolverVars
  <2>11. Snapshots'
    BY <2>4, <2>5, <2>6, <2>7, <2>8 DEF Snapshots, Entitles, Unbumped, resolverVars
  <2>12. \A q \in Proc \ {r, s} : Engine(q)' = Engine(q)
    BY <2>4, <2>5, <2>8 DEF Engine, resolverVars
  <2>13. ~Stored(r) /\ ~Stored(s)
    BY <1>6, <2>3 DEF HitAndRefresh, Searching, At, Stored
  <2>14. Undoing \subseteq Undoing'
    BY <2>4, <2>6, <2>12, <2>13 DEF Undoing, Stored, CurrentEpoch, resolverVars
  <2>15. RowOk'
    BY <2>4, <2>14, RowKeeps
  <2>16. ASSUME NEW q \in Req PROVE AnswerOk(q)'
    <3>1. CASE q = r
      BY <2>1, <2>6, <3>1 DEF AnswerOk
    <3>2. CASE q # r
      BY <2>4, <2>5, <2>6, <2>12, <3>2 DEF AnswerOk, At, CurrentEpoch, Unbumped, resolverVars
    <3> QED BY <3>1, <3>2
  <2> QED BY <2>9, <2>10, <2>11, <2>15, <2>16
<1> QED BY <1>1, <1>3, <1>4, <1>5, <1>6 DEF Lookup

LEMMA FlightStep == ASSUME CInv, NEW r \in Req, Flight(r) PROVE CInv'
<1> USE DEF CInv
<1>0. r \in Proc /\ task[r] \in Task /\ task \in [Proc -> Task]
  BY DEF CacheTypeOK, Proc
<1>1. UNCHANGED <<resolverVars, row, brk, gone, orphaned>> /\ TypeOK'
      /\ task[r].stage \in {"join", "dcheck"} /\ r \notin Undoing /\ ~Stored(r) /\ req[r].pc = "ready"
  <2>1. UNCHANGED <<resolverVars, row, brk, gone, orphaned>> /\ task[r].stage \in {"join", "dcheck"}
    BY DEF Flight, Join, DoubleCheckHit, DoubleCheckMiss, At
  <2>2. TypeOK'
    BY <2>1, TypeStep DEF CacheTypeOK
  <2> QED BY <2>1, <2>2 DEF Undoing, Stored, Shape
<1>2. CASE Join(r)
  <2>1. PICK t \in Task : task' = [task EXCEPT ![r] = t] /\ t.stage \in {"dcheck", "wait"}
    <3> DEFINE lead == [task[r] EXCEPT !.stage = "dcheck", !.role = "leader"]
               wait == [task[r] EXCEPT !.stage = "wait"]
    <3>1. lead \in Task /\ wait \in Task /\ lead.stage = "dcheck" /\ wait.stage = "wait"
      BY <1>0 DEF Task, Stage
    <3>2. task' = [task EXCEPT ![r] = lead] \/ task' = [task EXCEPT ![r] = wait]
      BY <1>0, <1>2 DEF Join
    <3> HIDE DEF lead, wait
    <3> QED BY <3>1, <3>2
  <2>2. AnswerOk(r)'
    BY <1>0, <2>1 DEF AnswerOk, At
  <2> QED BY <1>0, <1>1, <1>2, <2>1, <2>2, SearchKeeps DEF Join
<1>3. CASE DoubleCheckHit(r)
  <2>1. StoredResult \in Result /\ StoredResult.kind # "live"
    BY <1>3 DEF DoubleCheckHit, StoredResult, Result, CacheTypeOK
  <2>2. Complete(r, StoredResult) /\ task[r].stage \in Working \cup {"dcheck"}
    BY <1>3 DEF DoubleCheckHit, At
  <2>3. RowOk'
    BY <1>0, <1>1, <2>1, <2>2, CompleteKeeps, RowKeeps
  <2> QED BY <1>0, <1>1, <2>1, <2>2, <2>3, CompleteKeeps DEF CacheTypeOK
<1>4. CASE DoubleCheckMiss(r)
  <2>1. Goto(r, "gate") /\ task[r].stage \in Working \cup {"dcheck"} /\ "gate" \in Working
    BY <1>4 DEF DoubleCheckMiss, At, Working
  <2>2. Undoing \subseteq Undoing'
    BY <1>0, <1>1, <2>1, GotoKeeps
  <2>3. RowOk'
    BY <1>1, <2>2, RowKeeps
  <2> QED BY <1>0, <1>1, <2>1, <2>3, GotoKeeps DEF CacheTypeOK
<1> QED BY <1>2, <1>3, <1>4 DEF Flight

LEMMA LeaveStep == ASSUME CInv, NEW r \in Req, ServeStale(r) \/ Leave(r) \/ ClientGone(r) PROVE CInv'
<1> USE DEF CInv
<1>0. r \in Proc /\ task \in [Proc -> Task]
  BY DEF CacheTypeOK, Proc
<1>1. CASE Leave(r)
  <2>1. TypeOK'
    BY <1>1, TypeStep DEF Leave, CacheTypeOK, Next
  <2>2. req'[r].pc = "idle" /\ \A q \in Req \ {r} : req'[q] = req[q]
    BY <1>1, IdleFacts DEF Leave, Finish, CacheTypeOK, TypeOK
  <2>3. /\ task' \in [Proc -> Task] /\ task'[r].stage = "idle"
        /\ \A q \in Proc \ {r} : task'[q] = task[q]
    BY <1>0, <1>1, IdleTaskFacts DEF Leave
  <2>4. ~Stored(r)
    BY <1>1 DEF Leave, At, Stored
  <2>5. UNCHANGED <<db, instEpoch, mut, installed, row, brk, refresh, orphaned>>
        /\ gone' \subseteq Req /\ (installed # None => Entitles(installed))
    BY <1>1 DEF Leave, Finish, CacheTypeOK, Snapshots
  <2>6. req' \in [Req -> ReqState]
    BY <2>1 DEF TypeOK
  <2> QED BY <2>1, <2>2, <2>3, <2>4, <2>5, <2>6, AloneKeeps
<1>2. CASE ServeStale(r)
  <2> DEFINE t == Answer(task[r], StoredResult)
  <2>1. /\ task[r] \in Task /\ task[r].stage = "answered"
        /\ StoredResult \in Result /\ StoredResult.kind = "stored"
    BY <1>0, <1>2 DEF ServeStale, At, StoredResult, Result, CacheTypeOK
  <2>2. t \in Task /\ t.got.kind = "stored"
    BY <2>1, AnswerFacts
  <2>3. task' = [task EXCEPT ![r] = t]
    BY <1>2 DEF ServeStale
  <2> HIDE DEF t
  <2>4. req[r].pc = "ready" /\ ~Stored(r) /\ AnswerOk(r)'
    BY <1>0, <2>1, <2>2, <2>3 DEF Shape, Stored, AnswerOk, At
  <2> QED BY <1>0, <1>2, <2>2, <2>3, <2>4, SearchKeeps DEF ServeStale
<1>3. CASE ClientGone(r)
  <2>1. UNCHANGED <<resolverVars, row, brk, task, refresh, orphaned>> /\ gone' \subseteq Req
    BY <1>3 DEF ClientGone, CacheTypeOK
  <2>2. CacheTypeOK'
    BY <2>1, TypeStep DEF CacheTypeOK
  <2>3. Shape' /\ Snapshots' /\ RowOk' /\ \A q \in Req : AnswerOk(q)'
    BY <2>1 DEF Shape, Snapshots, Entitles, Unbumped, RowOk, Undoing, Purging, Stored, AnswerOk, At,
                CurrentEpoch, Engine, resolverVars
  <2> QED BY <2>2, <2>3
<1> QED BY <1>1, <1>2, <1>3

LEMMA ClockStep == ASSUME CInv, BreakerLapses \/ Reap \/ UNCHANGED vars PROVE CInv'
<1> USE DEF CInv
<1>1. UNCHANGED <<resolverVars, task, refresh, gone, orphaned>>
      /\ row' \in {row, None} /\ brk' \in {brk, None}
  BY DEF BreakerLapses, Reap, vars, cacheVars
<1>2. CacheTypeOK'
  BY <1>1, TypeStep DEF CacheTypeOK
<1>3. Shape' /\ Snapshots' /\ RowOk' /\ \A q \in Req : AnswerOk(q)'
  BY <1>1 DEF Shape, Snapshots, Entitles, Unbumped, RowOk, Undoing, Purging, Stored, AnswerOk, At,
              CurrentEpoch, Engine, resolverVars
<1> QED BY <1>2, <1>3

-----------------------------------------------------------------------------
(* A commit that changes the settings owes a purge: this is where an Add,    *)
(* which owes none, has to be left out.                                     *)
LEMMA CommitOwes ==
  ASSUME CInv, "add" \notin Op, NEW m \in Mut, Commit(m)
  PROVE  /\ UNCHANGED <<installed, instEpoch, req>>
         /\ mut[m] = "idle" /\ \A n \in Mut \ {m} : mut'[n] = mut[n]
         /\ \/ mut'[m] \in {"committed", "restored"}
            \/ mut'[m] = "resource" /\ db'.ver["set"] = db.ver["set"]
<1> USE DEF CInv, CacheTypeOK, TypeOK, Committed
<1>1. CASE Update(m) BY <1>1 DEF Update
<1>2. CASE Promote(m) BY <1>2 DEF Promote
<1>3. CASE SetEnabled(m) BY <1>3 DEF SetEnabled
<1>4. CASE Delete(m) BY <1>4 DEF Delete
<1>5. CASE Add(m) BY <1>5 DEF Add
<1>6. CASE EditResource(m) BY <1>6 DEF EditResource, Stamp, Part
<1>7. CASE Restore(m) BY <1>7 DEF Restore
<1> QED BY <1>1, <1>2, <1>3, <1>4, <1>5, <1>6, <1>7 DEF Commit

(* Searches are not disturbed by a handler that moves on, unless it changes  *)
(* the settings without owing a bump.                                       *)
LEMMA HandlerKeeps ==
  ASSUME CInv, UNCHANGED <<task, refresh, req, instEpoch>>, installed' \in {installed, None},
         Unbumped' = {} => Unbumped = {} /\ db'.ver["set"] = db.ver["set"]
  PROVE  Shape' /\ Snapshots' /\ Undoing' = Undoing /\ \A r \in Req : AnswerOk(r)'
<1> USE DEF CInv
<1>1. \A p \in Proc : Engine(p)' = Engine(p)
  BY DEF Engine
<1>2. Shape'
  BY DEF Shape
<1>3. Snapshots'
  BY DEF Snapshots, Entitles
<1>4. Undoing' = Undoing
  BY <1>1 DEF Undoing, Stored, CurrentEpoch
<1>5. \A r \in Req : AnswerOk(r)'
  BY <1>1 DEF AnswerOk, At, CurrentEpoch, Proc
<1> QED BY <1>2, <1>3, <1>4, <1>5

LEMMA MutationStep ==
  ASSUME CInv, "add" \notin Op, NEW m \in Mut, Mutation(m) PROVE CInv'
<1> USE DEF CInv
<1>0. UNCHANGED <<task, refresh, gone>> /\ row' \in {row, None} /\ brk' \in {brk, None}
      /\ orphaned' \in BOOLEAN /\ Mutating(m)
  BY DEF Mutation, CommitAndCascade, EvictEngine, DropBreaker, PurgeRows, cacheVars, CacheTypeOK, Mutating
<1>1. CacheTypeOK'
  BY <1>0, TypeStep DEF CacheTypeOK, Next
<1>2. mut \in [Mut -> MutPc]
  BY DEF CacheTypeOK, TypeOK
<1>3. CASE CommitAndCascade(m)
  <2>1. /\ UNCHANGED <<installed, instEpoch, req>>
        /\ mut[m] = "idle" /\ \A n \in Mut \ {m} : mut'[n] = mut[n]
        /\ \/ mut'[m] \in {"committed", "restored"}
           \/ mut'[m] = "resource" /\ db'.ver["set"] = db.ver["set"]
    BY <1>3, CommitOwes DEF CommitAndCascade
  <2>2. Unbumped' = {} => Unbumped = {} /\ db'.ver["set"] = db.ver["set"]
    BY <2>1 DEF Unbumped
  <2>3. Purging' = {} => Purging = {} /\ db'.ver["set"] = db.ver["set"]
    BY <2>1 DEF Purging
  <2>4. Undoing' = Undoing
    BY <1>0, <2>1, <2>2, HandlerKeeps
  <2>5. RowOk'
    BY <1>0, <1>3, <2>3, <2>4 DEF RowOk, CommitAndCascade
  <2> QED BY <1>0, <1>1, <2>1, <2>2, <2>5, HandlerKeeps
<1>4. CASE UNCHANGED cacheVars /\ (Invalidate(m) \/ InvalidateAll(m))
  <2>1. /\ UNCHANGED <<db, instEpoch, req>> /\ installed' = None
        /\ \A n \in Mut \ {m} : mut'[n] = mut[n]
        /\ \/ mut[m] \in {"added", "resource"} /\ mut'[m] = "idle"
           \/ mut[m] \in {"committed", "restored"} /\ mut'[m] = "evicted"
    BY <1>2, <1>4 DEF Invalidate, InvalidateAll, Evict
  <2>2. Unbumped' = Unbumped /\ Purging' = Purging
    BY <2>1 DEF Unbumped, Purging
  <2>3. Undoing' = Undoing
    BY <1>0, <2>1, <2>2, HandlerKeeps
  <2>4. RowOk'
    BY <1>4, <2>1, <2>2, <2>3 DEF RowOk, cacheVars
  <2> QED BY <1>0, <1>1, <2>1, <2>2, <2>4, HandlerKeeps
<1>5. CASE UNCHANGED cacheVars /\ BumpEpoch(m)
  <2>1. UNCHANGED <<db, installed, req>> /\ instEpoch' = instEpoch + 1 /\ instEpoch \in Nat
        /\ mut'[m] = "bumped"
    BY <1>2, <1>5 DEF BumpEpoch, CacheTypeOK, TypeOK
  <2>2. RowOk'
    BY <2>1 DEF RowOk, Purging
  <2>3. Shape'
    BY <1>0, <2>1 DEF Shape
  <2>4. \A a \in Adapter : a.epoch <= instEpoch => a.epoch <= instEpoch' /\ a.epoch # instEpoch'
    BY <2>1 DEF Adapter
  <2>5. Snapshots'
    <3>1. \A r \in Req : req[r].adapter \in Adapter
      BY DEF CacheTypeOK, TypeOK, ReqState
    <3>2. (\A s \in Swr : refresh[s] \in Adapter) /\ (installed # None => installed \in Adapter)
      BY DEF CacheTypeOK, TypeOK
    <3>3. \A r \in Req : req[r].pc \in {"set", "ref", "install", "ready"} =>
             req'[r].adapter.epoch <= instEpoch' /\ req'[r].adapter.epoch # instEpoch'
      BY <2>1, <2>4, <3>1 DEF Snapshots, Entitles
    <3>4. \A s \in Swr : task[s].stage # "idle" =>
             refresh'[s].epoch <= instEpoch' /\ refresh'[s].epoch # instEpoch'
      BY <1>0, <2>4, <3>2 DEF Snapshots, Entitles
    <3>5. installed # None => installed'.epoch <= instEpoch' /\ installed'.epoch # instEpoch'
      BY <2>1, <2>4, <3>2 DEF Snapshots, Entitles
    <3> QED BY <1>0, <2>1, <3>3, <3>4, <3>5 DEF Snapshots, Entitles
  <2>6. ASSUME NEW r \in Req PROVE AnswerOk(r)'
    <3>1. CASE task[r].stage = "answered"
      <4>1. Engine(r) \in Adapter /\ Entitles(Engine(r)) /\ Engine(r)' = Engine(r)
        BY <1>0, <2>1, <3>1, EngineFacts DEF Engine, Proc
      <4> QED BY <2>4, <4>1 DEF AnswerOk, CurrentEpoch, Entitles
    <3>2. CASE task[r].stage # "answered"
      BY <1>0, <3>2 DEF AnswerOk, At
    <3> QED BY <3>1, <3>2
  <2> QED BY <1>1, <2>2, <2>3, <2>5, <2>6
<1>6. CASE DropBreaker(m)
  <2>1. UNCHANGED <<db, installed, instEpoch, req>> /\ mut[m] = "bumped" /\ mut'[m] = "forgot"
        /\ \A n \in Mut \ {m} : mut'[n] = mut[n]
    BY <1>2, <1>6 DEF DropBreaker, ForgetBreaker
  <2>2. Unbumped' = Unbumped
    BY <2>1 DEF Unbumped
  <2>3. RowOk'
    BY <2>1 DEF RowOk, Purging
  <2> QED BY <1>0, <1>1, <2>1, <2>2, <2>3, HandlerKeeps
<1>7. CASE PurgeRows(m)
  <2>1. UNCHANGED <<db, installed, instEpoch, req>> /\ mut[m] = "forgot" /\ mut'[m] = "idle"
        /\ \A n \in Mut \ {m} : mut'[n] = mut[n]
    BY <1>2, <1>7 DEF PurgeRows, Purge
  <2>2. Unbumped' = Unbumped
    BY <2>1 DEF Unbumped
  <2>3. RowOk'
    BY <1>7 DEF RowOk, PurgeRows
  <2> QED BY <1>0, <1>1, <2>1, <2>2, <2>3, HandlerKeeps
<1> QED BY <1>3, <1>4, <1>5, <1>6, <1>7 DEF Mutation, EvictEngine

LEMMA RestartStep == ASSUME CInv, Restart PROVE CInv'
<1> USE DEF CInv, Restart
<1>1. CacheTypeOK'
  <2>1. TypeOK'
    BY TypeStep DEF CacheTypeOK, Next
  <2>2. Blank \in Adapter
    BY DEF Blank, NoVer, Adapter, Version
  <2> QED BY <2>1, <2>2, IdleTaskFacts DEF CacheTypeOK
<1>2. Shape' /\ Snapshots'
  BY IdleTaskFacts, IdleFacts DEF Shape, Snapshots, Crash, Proc
<1>3. RowOk'
  <2> SUFFICES ASSUME ~orphaned', row' # None, row'["set"] # db'.ver["set"] PROVE FALSE
    BY DEF RowOk
  <2>1. Purging = {} /\ ~orphaned /\ Undoing = {}
    BY DEF Undoing
  <2> QED BY <2>1 DEF RowOk, Crash
<1>4. \A r \in Req : AnswerOk(r)'
  BY IdleTaskFacts DEF AnswerOk, At, Proc
<1> QED BY <1>1, <1>2, <1>3, <1>4

LEMMA CacheInvStep == "add" \notin Op /\ CInv /\ [CacheNext]_vars => CInv'
<1> SUFFICES ASSUME "add" \notin Op, CInv, [CacheNext]_vars PROVE CInv'
  OBVIOUS
<1>1. ASSUME NEW r \in Req, Lookup(r) \/ Flight(r) \/ ServeStale(r) \/ Leave(r) \/ ClientGone(r) PROVE CInv'
  BY <1>1, LookupStep, FlightStep, LeaveStep
<1>2. ASSUME NEW q \in Proc, Fetch(q) \/ WriteBack(q) PROVE CInv'
  BY <1>2, FetchStep, WriteBackStep
<1>3. ASSUME NEW m \in Mut, Mutation(m) PROVE CInv'
  BY <1>3, MutationStep
<1>4. CASE BreakerLapses \/ Reap \/ UNCHANGED vars
  BY <1>4, ClockStep
<1>5. CASE Restart
  BY <1>5, RestartStep
<1> QED BY <1>1, <1>2, <1>3, <1>4, <1>5 DEF CacheNext

LEMMA CacheInvHolds == "add" \notin Op => (CacheSpec => []CInv)
<1> SUFFICES ASSUME "add" \notin Op PROVE CacheSpec => []CInv
  OBVIOUS
<1>1. CInv /\ [CacheNext]_vars => CInv'
  BY CacheInvStep
<1> QED BY <1>1, InvInitCache, PTL DEF CacheSpec

-----------------------------------------------------------------------------
LEMMA PurgedIsBumped == Purging = {} => Unbumped = {}
  BY DEF Purging, Unbumped

(* Every variable of the cache keeps its type, whatever the requests, the    *)
(* refreshes and the handlers do.                                           *)
THEOREM CacheTypeCorrect == "add" \notin Op => (CacheSpec => []CacheTypeOK)
  BY CacheInvHolds, PTL DEF CInv

(* An engine whose epoch snapshot is current has read the settings in force: *)
(* buildAdapterAt takes the snapshot first.                                 *)
THEOREM EpochEntitles == "add" \notin Op => (CacheSpec => []BuiltEpochEntitles)
<1>1. CInv => BuiltEpochEntitles
  BY PurgedIsBumped DEF CInv, Snapshots, Entitles, BuiltEpochEntitles, EnginesInUse
<1> QED BY <1>1, CacheInvHolds, PTL

(* The two epoch checks around a write-back and the purge leave no row that  *)
(* was fetched under superseded settings.                                   *)
THEOREM RowsMatchSettings == "add" \notin Op => (CacheSpec => []SettingsCoherent)
<1>1. CInv => SettingsCoherent
  BY DEF CInv, RowOk, SettingsCoherent
<1> QED BY <1>1, CacheInvHolds, PTL

(* Nobody at the current epoch is handed a live result of an earlier one.    *)
THEOREM FlightsAreFresh == "add" \notin Op => (CacheSpec => []FlightIsFresh)
<1>1. CInv => FlightIsFresh
  BY PurgedIsBumped DEF CInv, AnswerOk, FlightIsFresh
<1> QED BY <1>1, CacheInvHolds, PTL

(* What was proved of the Resolver holds of the search path built on it.     *)
THEOREM CacheEngineIsCurrent == CacheSpec => []InstalledIsCurrent
  BY CacheIsResolver, EngineIsCurrent, PTL

-----------------------------------------------------------------------------
(* The tasks a step answers: with what was stored, with an error, or with a *)
(* cancellation that is its own.                                            *)
Spared(q) == task'[q].stage = "answered" /\ q \notin gone' => task'[q].got.kind # "canceled"

LEMMA CompleteSpares ==
  ASSUME CInv, NEW p \in Proc, NEW res \in Result, Complete(p, res), UNCHANGED gone,
         res.kind = "canceled" => p \in gone,
         HealthyNotCanceled, NEW q \in Req
  PROVE  Spared(q)
<1>1. /\ task \in [Proc -> Task] /\ q \in Proc /\ task' = Completed(p, res)
      /\ task[q].stage = "answered" /\ q \notin gone => task[q].got.kind # "canceled"
  BY DEF CInv, CacheTypeOK, Proc, Complete, HealthyNotCanceled, At
<1>2. CASE task[p].role = "leader"
  <2>1. task'[q] = IF Coalesced(p, q) THEN AfterFlight(q, res) ELSE task[q]
    BY <1>1, <1>2 DEF Completed
  <2>2. CASE Coalesced(p, q) /\ res.kind = "canceled" /\ q \notin gone
    <3>1. \/ AfterFlight(q, res) = [task[q] EXCEPT !.stage = "join", !.role = "none", !.tries = 1]
          \/ AfterFlight(q, res) = [task[q] EXCEPT !.stage = "gate", !.role = "solo", !.tries = 2]
      BY <2>2 DEF AfterFlight
    <3>2. AfterFlight(q, res).stage # "answered"
      BY <1>1, <3>1 DEF Task
    <3> QED BY <2>1, <2>2, <3>2 DEF Spared
  <2>3. CASE Coalesced(p, q) /\ res.kind # "canceled"
    <3>1. AfterFlight(q, res).stage = "answered" => AfterFlight(q, res).got = res
      BY <1>1, AfterFlightFacts DEF CInv
    <3> QED BY <2>1, <2>3, <3>1 DEF Spared
  <2>4. CASE q \in gone
    BY <2>4 DEF Spared
  <2>5. CASE ~Coalesced(p, q)
    BY <1>1, <2>1, <2>5 DEF Spared
  <2> QED BY <2>2, <2>3, <2>4, <2>5
<1>3. CASE task[p].role = "solo"
  <2>1. task' = [task EXCEPT ![p] = Answer(task[p], res)]
    BY <1>1, <1>3 DEF Completed
  <2>2. q = p => task'[q].got = res
    BY <1>1, <2>1, AnswerFacts
  <2> QED BY <1>1, <2>1, <2>2 DEF Spared
<1>4. CASE task[p].role \notin {"leader", "solo"}
  <2>1. task' = [task EXCEPT ![p] = IdleTask]
    BY <1>1, <1>4 DEF Completed
  <2> QED BY <1>1, <2>1, IdleTaskFacts DEF Spared
<1> QED BY <1>2, <1>3, <1>4

LEMMA LookupSpares ==
  ASSUME CInv, HealthyNotCanceled, NEW r \in Req, NEW q \in Req,
         Lookup(r) \/ Flight(r) \/ ServeStale(r) \/ Leave(r) \/ ClientGone(r)
  PROVE  Spared(q)
<1> USE DEF CInv
<1>0. /\ task \in [Proc -> Task] /\ task[r] \in Task /\ r \in Proc /\ q \in Proc /\ r \notin Swr
      /\ task[q].stage = "answered" /\ q \notin gone => task[q].got.kind # "canceled"
  BY ProcAssumption DEF CacheTypeOK, Proc, HealthyNotCanceled, At
<1>1. /\ row # None => StoredResult \in Result /\ StoredResult.kind = "stored"
      /\ BreakerOpen => brk \in Result /\ brk.kind # "canceled"
  BY DEF StoredResult, Result, Failure, CacheTypeOK, BreakerOpen
<1>2. ASSUME NEW t, task'[r] = t, t.stage = "answered" => t.got.kind # "canceled",
             q # r => task'[q] = task[q], UNCHANGED gone
      PROVE  Spared(q)
  BY <1>0, <1>2 DEF Spared
<1>3. CASE Begin(r) \/ ClientGone(r)
  BY <1>0, <1>3 DEF Begin, ClientGone, cacheVars, Spared
<1>4. CASE Building(r) \/ Leave(r)
  <2>1. \/ task' = [task EXCEPT ![r] = IdleTask] /\ gone' = gone \ {r}
        \/ UNCHANGED <<task, gone>>
    BY <1>4 DEF Building, Leave
  <2> QED BY <1>0, <2>1, IdleTaskFacts DEF Spared
<1>5. CASE Bypass(r)
  <2> DEFINE t == [task[r] EXCEPT !.stage = "gate", !.role = "solo"]
  <2>1. task' = [task EXCEPT ![r] = t] /\ UNCHANGED gone /\ t.stage = "gate"
    BY <1>0, <1>5 DEF Bypass, Task
  <2> QED BY <1>0, <1>2, <2>1
<1>6. CASE Hit(r) \/ ServeStale(r) \/ HitAndRefresh(r)
  <2>1. row # None /\ UNCHANGED gone
    BY <1>6 DEF Hit, ServeStale, HitAndRefresh
  <2>2. task'[r] = Answer(task[r], StoredResult) /\ (q # r => task'[q] = task[q])
    <3>1. CASE Hit(r) \/ ServeStale(r)
      BY <1>0, <3>1 DEF Hit, ServeStale
    <3>2. CASE HitAndRefresh(r)
      <4>1. PICK s \in Swr : task' = [task EXCEPT ![r] = Answer(task[r], StoredResult),
                                                 ![s] = [IdleTask EXCEPT !.stage = "gate", !.role = "refresh"]]
        BY <3>2 DEF HitAndRefresh
      <4>2. s # r /\ s # q /\ s \in Proc
        BY <1>0, ProcAssumption DEF Proc
      <4> QED BY <1>0, <4>1, <4>2
    <3> QED BY <1>6, <3>1, <3>2
  <2>3. Answer(task[r], StoredResult).got.kind # "canceled"
    BY <1>0, <1>1, <2>1, AnswerFacts
  <2> QED BY <1>2, <2>1, <2>2, <2>3
<1>7. CASE Miss(r)
  <2>1. CASE BreakerOpen
    <3>1. task' = [task EXCEPT ![r] = Answer(task[r], brk)] /\ UNCHANGED gone
      BY <1>7, <2>1 DEF Miss
    <3>2. Answer(task[r], brk).got.kind # "canceled"
      BY <1>0, <1>1, <2>1, AnswerFacts
    <3> QED BY <1>0, <1>2, <3>1, <3>2
  <2>2. CASE ~BreakerOpen
    <3> DEFINE t == [task[r] EXCEPT !.stage = "join"]
    <3>1. task' = [task EXCEPT ![r] = t] /\ UNCHANGED gone /\ t.stage = "join"
      BY <1>0, <1>7, <2>2 DEF Miss, Task
    <3> QED BY <1>0, <1>2, <3>1
  <2> QED BY <2>1, <2>2
<1>8. CASE Join(r)
  <2> DEFINE t == [task[r] EXCEPT !.stage = "dcheck", !.role = "leader"]
             u == [task[r] EXCEPT !.stage = "wait"]
  <2>1. task' \in {[task EXCEPT ![r] = t], [task EXCEPT ![r] = u]} /\ UNCHANGED gone
    BY <1>0, <1>8 DEF Join
  <2>2. t.stage = "dcheck" /\ u.stage = "wait"
    BY <1>0 DEF Task
  <2> HIDE DEF t, u
  <2> QED BY <1>0, <1>2, <2>1, <2>2
<1>9. CASE DoubleCheckHit(r)
  BY <1>0, <1>1, <1>9, CompleteSpares DEF DoubleCheckHit
<1>10. CASE DoubleCheckMiss(r)
  <2>1. Goto(r, "gate") /\ UNCHANGED gone /\ "gate" \in Stage
    BY <1>10 DEF DoubleCheckMiss, Stage
  <2> QED BY <1>0, <2>1, GotoFacts DEF Spared
<1> QED BY <1>3, <1>4, <1>5, <1>6, <1>7, <1>8, <1>9, <1>10 DEF Lookup, Flight

LEMMA FetchSpares ==
  ASSUME CInv, HealthyNotCanceled, NEW p \in Proc, NEW q \in Req, Fetch(p) \/ WriteBack(p)
  PROVE  Spared(q)
<1> USE DEF CInv
<1>0. /\ UNCHANGED gone /\ q \in Proc /\ task[p].stage # "idle"
      /\ task[q].stage = "answered" /\ q \notin gone => task[q].got.kind # "canceled"
  BY DEF Fetch, Replay, GoLive, LiveOk, LiveFails, LiveRefused, LiveCanceled,
         WriteBack, CheckEpoch, Store, StoreFails, RecheckEpoch, CompensateStaleStore, At, Proc,
         HealthyNotCanceled
<1>1. ASSUME NEW kind \in {"error", "timeout", "exhausted", "canceled"},
             Complete(p, [kind |-> kind, ver |-> Engine(p).ver]), kind = "canceled" => p \in gone
      PROVE  Spared(q)
  <2> DEFINE res == [kind |-> kind, ver |-> Engine(p).ver]
  <2>1. res \in Result /\ (res.kind = "canceled" => p \in gone)
    BY <1>0, <1>1, EngineFacts DEF Result
  <2> HIDE DEF res
  <2>2. Complete(p, res)
    BY <1>1 DEF res
  <2> QED BY <1>0, <2>1, <2>2, CompleteSpares
<1>2. ASSUME Complete(p, LiveResult(p)) PROVE Spared(q)
  <2>1. LiveResult(p) \in Result /\ LiveResult(p).kind # "canceled"
    BY <1>0, EngineFacts DEF LiveResult
  <2> QED BY <1>0, <1>2, <2>1, CompleteSpares
<1>3. ASSUME NEW st \in {"live", "check", "store", "recheck", "undo"}, Goto(p, st) PROVE Spared(q)
  <2>1. st \in Stage /\ st # "answered"
    BY DEF Stage
  <2> QED BY <1>0, <1>3, <2>1, GotoFacts DEF Spared
<1>4. CASE Replay(p)
  <2>1. brk \in Result /\ brk.kind # "canceled" /\ Complete(p, brk)
    BY <1>4 DEF Replay, BreakerOpen, CacheTypeOK, Failure, Result
  <2> QED BY <1>0, <2>1, CompleteSpares
<1>5. CASE LiveFails(p) \/ LiveRefused(p) \/ LiveCanceled(p)
  BY <1>1, <1>5 DEF LiveFails, LiveRefused, LiveCanceled
<1>6. CASE GoLive(p) \/ LiveOk(p) \/ Store(p)
  BY <1>3, <1>6 DEF GoLive, LiveOk, Store
<1>7. CASE CheckEpoch(p) \/ StoreFails(p) \/ RecheckEpoch(p) \/ CompensateStaleStore(p)
  BY <1>2, <1>3, <1>7 DEF CheckEpoch, StoreFails, RecheckEpoch, CompensateStaleStore
<1> QED BY <1>4, <1>5, <1>6, <1>7 DEF Fetch, WriteBack

LEMMA HealthyStep ==
  CInv /\ HealthyNotCanceled /\ [CacheNext]_vars => HealthyNotCanceled'
<1> SUFFICES ASSUME CInv, HealthyNotCanceled, [CacheNext]_vars, NEW q \in Req PROVE Spared(q)
  BY DEF HealthyNotCanceled, Spared, At
<1>1. ASSUME UNCHANGED <<task, gone>> PROVE Spared(q)
  BY <1>1 DEF HealthyNotCanceled, Spared, At
<1>2. ASSUME NEW m \in Mut, Mutation(m) PROVE Spared(q)
  BY <1>1, <1>2 DEF Mutation, CommitAndCascade, EvictEngine, DropBreaker, PurgeRows, cacheVars
<1>3. CASE BreakerLapses \/ Reap \/ UNCHANGED vars
  BY <1>1, <1>3 DEF BreakerLapses, Reap, vars, cacheVars
<1>4. CASE Restart
  BY <1>4, IdleTaskFacts DEF Restart, Spared, Proc
<1> QED BY <1>2, <1>3, <1>4, LookupSpares, FetchSpares DEF CacheNext

(* Whoever leads a flight and however often leaders die: a request whose own *)
(* client is still there is never failed by the cancellation of another's    *)
(* (runMiss, missFlightOnce).                                                *)
THEOREM HealthyAreSpared == "add" \notin Op => (CacheSpec => []HealthyNotCanceled)
<1>1. CacheInit => HealthyNotCanceled
  BY IdleTaskFacts DEF CacheInit, HealthyNotCanceled, At, Proc
<1> QED BY <1>1, HealthyStep, CacheInvHolds, PTL DEF CacheSpec
=============================================================================
