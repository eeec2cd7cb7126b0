--------------------------- MODULE ResolverProofs ---------------------------
(***************************************************************************)
(* Proofs about Resolver, for any number of requests, handlers, commits and *)
(* restarts: type correctness, InstalledIsCurrent, and the refinement of    *)
(* AdapterCache.                                                            *)
(***************************************************************************)
EXTENDS Resolver, TLAPS

(* The parts of the configuration a build has read when it is at pc. *)
ReadBy(pc) == CASE pc \in {"epoch", "set"} -> {"row"}
                [] pc = "ref" -> {"row", "set"}
                [] pc \in {"install"} -> Part
                [] OTHER -> {}

NotAhead(v) == \A p \in Part : v[p] <= db.ver[p]
Misses(v, parts) == \E p \in parts : ~(settled[p] <= v[p])
Serviceable == db.exists /\ db.enabled

VersionsBounded == /\ \A p \in Part : settled[p] <= db.ver[p] /\ db.ver[p] <= commits
                   /\ Evicting = {} => settled = db.ver

InstalledOk == installed # None =>
                 /\ NotAhead(installed.ver)
                 /\ ~Misses(installed.ver, Part)
                 /\ installed.ver["row"] = db.ver["row"] => Serviceable

(* A build is entitled to install what it read unless its generation moved. *)
BuildOk(r) ==
  LET s == req[r] IN
  s.pc \in BuildPc =>
    /\ s.gen <= gen /\ s.all <= allEpoch
    /\ NotAhead(s.adapter.ver)
    /\ Moved(r) \/ ~Misses(s.adapter.ver, ReadBy(s.pc))
    /\ (s.pc # "row" /\ s.adapter.ver["row"] = db.ver["row"]) => Serviceable

(* The inductive invariant. *)
IInv == TypeOK /\ VersionsBounded /\ InstalledOk /\ \A r \in Req : BuildOk(r)

-----------------------------------------------------------------------------
(* What one read of a build changes in the adapter. *)
LEMMA ReadFacts ==
  ASSUME NEW a \in Adapter, NEW p \in Part, db.ver \in Version
  PROVE  /\ Read(a, p) \in Adapter
         /\ Read(a, p).epoch = a.epoch
         /\ Read(a, p).ver \in Version
         /\ Read(a, p).ver[p] = db.ver[p]
         /\ \A q \in Part \ {p} : Read(a, p).ver[q] = a.ver[q]
  BY DEF Read, Adapter, Version

(* What a build step does to the requests. *)
LEMMA BuildFacts ==
  ASSUME NEW r \in Req, NEW pc \in ReqPc, NEW a \in Adapter, req \in [Req -> ReqState],
         Build(r, pc, a)
  PROVE  /\ req' \in [Req -> ReqState]
         /\ req'[r].pc = pc /\ req'[r].adapter = a
         /\ req'[r].gen = req[r].gen /\ req'[r].all = req[r].all
         /\ \A q \in Req \ {r} : req'[q] = req[q]
  BY DEF Build, ReqState

LEMMA IdleFacts == IdleReq \in ReqState /\ IdleReq.pc = "idle"
  BY DEF IdleReq, ReqState, ReqPc, Blank, NoVer, Adapter, Version

LEMMA TypeInit == Init => TypeOK
  BY IdleFacts DEF Init, TypeOK, NoVer, Version, MutPc

LEMMA TypeStep == TypeOK /\ [Next]_resolverVars => TypeOK'
<1> SUFFICES ASSUME TypeOK, [Next]_resolverVars PROVE TypeOK'
  OBVIOUS
<1> USE DEF TypeOK
<1>1. ASSUME NEW r \in Req, Resolving(r) PROVE TypeOK'
  <2> req[r] \in ReqState /\ req[r].adapter \in Adapter /\ db.ver \in Version
    BY DEF ReqState
  <2> "row" \in Part /\ "set" \in Part /\ "ref" \in Part
    BY DEF Part
  <2>1. CASE ResolveHit(r)
    BY <2>1, IdleFacts DEF ResolveHit, Ready, ReqState, ReqPc
  <2>2. CASE ResolveMiss(r)
    BY <2>2, IdleFacts DEF ResolveMiss, ReqState, ReqPc, BuildPc
  <2>3. CASE ReadRow(r)
    BY <2>3, IdleFacts, ReadFacts, BuildFacts DEF ReadRow, ReqPc, BuildPc
  <2>4. CASE SnapshotEpoch(r)
    BY <2>4, BuildFacts DEF SnapshotEpoch, ReqPc, BuildPc, Adapter
  <2>5. CASE ReadSettings(r)
    BY <2>5, ReadFacts, BuildFacts DEF ReadSettings, ReqPc, BuildPc
  <2>6. CASE ReadRefs(r)
    BY <2>6, ReadFacts, BuildFacts DEF ReadRefs, ReqPc, BuildPc
  <2>7. CASE BuildFails(r)
    BY <2>7, IdleFacts DEF BuildFails
  <2>8. CASE Install(r)
    BY <2>8, IdleFacts DEF Install, Ready, ReqState, ReqPc
  <2> QED BY <1>1, <2>1, <2>2, <2>3, <2>4, <2>5, <2>6, <2>7, <2>8 DEF Resolving
<1>2. ASSUME NEW r \in Req, Finish(r) PROVE TypeOK'
  BY <1>2, IdleFacts DEF Finish
<1>3. ASSUME NEW m \in Mut, Mutating(m) PROVE TypeOK'
  <2>1. CASE Commit(m)
    <3> \A parts : Stamp(parts) \in Version
      BY DEF Stamp, Version
    <3> QED BY <2>1 DEF Commit, Update, Promote, SetEnabled, Delete, Add, EditResource, Restore,
                        Committed, MutPc
  <2>2. CASE Invalidate(m) BY <2>2 DEF Invalidate, Evict, MutPc
  <2>3. CASE InvalidateAll(m) BY <2>3 DEF InvalidateAll, Evict, MutPc
  <2>4. CASE BumpEpoch(m) BY <2>4 DEF BumpEpoch, MutPc
  <2>5. CASE ForgetBreaker(m) BY <2>5 DEF ForgetBreaker, MutPc
  <2>6. CASE Purge(m) BY <2>6 DEF Purge, MutPc
  <2> QED BY <1>3, <2>1, <2>2, <2>3, <2>4, <2>5, <2>6 DEF Mutating
<1>4. CASE Crash
  BY <1>4, IdleFacts DEF Crash, MutPc
<1>5. CASE UNCHANGED resolverVars
  BY <1>5 DEF resolverVars
<1> QED BY <1>1, <1>2, <1>3, <1>4, <1>5 DEF Next

(* Every variable keeps its type. *)
THEOREM TypeCorrect == Spec => []TypeOK
  BY TypeInit, TypeStep, PTL DEF Spec

-----------------------------------------------------------------------------
LEMMA InvInit == Init => IInv
<1> SUFFICES ASSUME Init PROVE IInv
  OBVIOUS
<1>1. VersionsBounded /\ InstalledOk
  BY DEF Init, VersionsBounded, InstalledOk, NoVer
<1>2. \A r \in Req : BuildOk(r)
  BY DEF Init, BuildOk, IdleReq, BuildPc
<1> QED BY <1>1, <1>2, TypeInit DEF IInv

(* A step of request r that leaves the engine and the database alone keeps   *)
(* the invariant if it keeps r's own part of it.                             *)
LEMMA RequestStep ==
  ASSUME IInv, TypeOK', NEW r \in Req,
         UNCHANGED <<db, commits, gen, allEpoch, mut, settled>>,
         InstalledOk', BuildOk(r)',
         \A q \in Req \ {r} : req'[q] = req[q]
  PROVE  IInv'
<1>1. VersionsBounded'
  BY DEF IInv, VersionsBounded, Evicting
<1>2. ASSUME NEW q \in Req, q # r PROVE BuildOk(q)'
  BY <1>2 DEF IInv, BuildOk, Moved, NotAhead, Misses, Serviceable
<1> QED BY <1>1, <1>2 DEF IInv

LEMMA ResolvingStep == ASSUME IInv, TypeOK', NEW r \in Req, Resolving(r) PROVE IInv'
<1> USE DEF IInv
<1> req[r] \in ReqState /\ req[r].adapter \in Adapter /\ db.ver \in Version /\ BuildOk(r)
  BY DEF TypeOK, ReqState
<1> "row" \in Part /\ "set" \in Part /\ "ref" \in Part /\ req \in [Req -> ReqState]
  BY DEF Part, TypeOK
<1>0. ASSUME UNCHANGED <<db, commits, installed, gen, allEpoch, mut, settled>> PROVE InstalledOk'
  BY <1>0 DEF InstalledOk, NotAhead, Misses, Serviceable
<1>1. CASE ResolveHit(r)
  <2>1. BuildOk(r)'
    BY <1>1, IdleFacts DEF ResolveHit, Ready, BuildOk, BuildPc, ReqState
  <2> QED BY <2>1, <1>0, <1>1, RequestStep DEF ResolveHit, Ready
<1>2. CASE ResolveMiss(r)
  <2>1. req'[r].pc = "row" /\ req'[r].gen = gen /\ req'[r].all = allEpoch
        /\ req'[r].adapter.ver = NoVer
    BY <1>2 DEF ResolveMiss, IdleReq, Blank
  <2>2. BuildOk(r)'
    BY <1>2, <2>1 DEF ResolveMiss, BuildOk, NotAhead, NoVer, ReadBy, Misses, Moved, TypeOK, Version
  <2> QED BY <2>2, <1>0, <1>2, RequestStep DEF ResolveMiss
<1>3. CASE ReadRow(r)
  <2>1. CASE db.exists /\ db.enabled
    <3> DEFINE a == Read(req[r].adapter, "row")
    <3>1. req'[r].pc = "epoch" /\ req'[r].adapter = a /\ req'[r].gen = req[r].gen
          /\ req'[r].all = req[r].all /\ \A q \in Req \ {r} : req'[q] = req[q]
      BY <1>3, <2>1, ReadFacts, BuildFacts DEF ReadRow, ReqPc, BuildPc
    <3>2. a.ver["row"] = db.ver["row"] /\ \A q \in Part \ {"row"} : a.ver[q] = req[r].adapter.ver[q]
      BY ReadFacts
    <3>3. BuildOk(r)'
      BY <1>3, <2>1, <3>1, <3>2
      DEF ReadRow, BuildOk, NotAhead, ReadBy, Misses, Moved, Serviceable, TypeOK, Version, VersionsBounded, BuildPc
    <3> QED BY <3>1, <3>3, <1>0, <1>3, RequestStep DEF ReadRow
  <2>2. CASE ~(db.exists /\ db.enabled)
    <3>1. BuildOk(r)'
      BY <1>3, <2>2, IdleFacts DEF ReadRow, BuildOk, BuildPc
    <3> QED BY <3>1, <2>2, <1>0, <1>3, RequestStep DEF ReadRow
  <2> QED BY <2>1, <2>2
<1>4. CASE SnapshotEpoch(r)
  <2> DEFINE a == [req[r].adapter EXCEPT !.epoch = instEpoch]
  <2>1. a \in Adapter /\ a.ver = req[r].adapter.ver
    BY DEF Adapter, TypeOK
  <2>2. req'[r].pc = "set" /\ req'[r].adapter = a /\ req'[r].gen = req[r].gen
        /\ req'[r].all = req[r].all /\ \A q \in Req \ {r} : req'[q] = req[q]
    BY <1>4, <2>1, BuildFacts DEF SnapshotEpoch, ReqPc, BuildPc
  <2>3. BuildOk(r)'
    BY <1>4, <2>1, <2>2
    DEF SnapshotEpoch, BuildOk, NotAhead, ReadBy, Misses, Moved, Serviceable, BuildPc
  <2> QED BY <2>2, <2>3, <1>0, <1>4, RequestStep DEF SnapshotEpoch
<1>5. CASE ReadSettings(r)
  <2> DEFINE a == Read(req[r].adapter, "set")
  <2>1. a.ver["set"] = db.ver["set"] /\ \A q \in Part \ {"set"} : a.ver[q] = req[r].adapter.ver[q]
    BY ReadFacts
  <2>2. req'[r].pc = "ref" /\ req'[r].adapter = a /\ req'[r].gen = req[r].gen
        /\ req'[r].all = req[r].all /\ \A q \in Req \ {r} : req'[q] = req[q]
    BY <1>5, ReadFacts, BuildFacts DEF ReadSettings, ReqPc, BuildPc
  <2>3. BuildOk(r)'
    BY <1>5, <2>1, <2>2
    DEF ReadSettings, BuildOk, NotAhead, ReadBy, Misses, Moved, Serviceable, BuildPc, Part,
        VersionsBounded, TypeOK, Version
  <2> QED BY <2>2, <2>3, <1>0, <1>5, RequestStep DEF ReadSettings
<1>6. CASE ReadRefs(r)
  <2> DEFINE a == Read(req[r].adapter, "ref")
  <2>1. a.ver["ref"] = db.ver["ref"] /\ \A q \in Part \ {"ref"} : a.ver[q] = req[r].adapter.ver[q]
    BY ReadFacts
  <2>2. req'[r].pc = "install" /\ req'[r].adapter = a /\ req'[r].gen = req[r].gen
        /\ req'[r].all = req[r].all /\ \A q \in Req \ {r} : req'[q] = req[q]
    BY <1>6, ReadFacts, BuildFacts DEF ReadRefs, ReqPc, BuildPc
  <2>3. BuildOk(r)'
    BY <1>6, <2>1, <2>2
    DEF ReadRefs, BuildOk, NotAhead, ReadBy, Misses, Moved, Serviceable, BuildPc, Part,
        VersionsBounded, TypeOK, Version
  <2> QED BY <2>2, <2>3, <1>0, <1>6, RequestStep DEF ReadRefs
<1>7. CASE BuildFails(r)
  <2>1. BuildOk(r)'
    BY <1>7, IdleFacts DEF BuildFails, BuildOk, BuildPc
  <2> QED BY <2>1, <1>0, <1>7, RequestStep DEF BuildFails
<1>8. CASE Install(r)
  <2>1. BuildOk(r)'
    BY <1>8, IdleFacts DEF Install, Ready, BuildOk, BuildPc, ReqState
  <2>2. InstalledOk'
    <3>1. CASE installed # None \/ Moved(r)
      BY <3>1, <1>8 DEF Install, InstalledOk, NotAhead, Misses, Serviceable
    <3>2. CASE ~(installed # None \/ Moved(r))
      BY <3>2, <1>8 DEF Install, InstalledOk, NotAhead, Misses, Serviceable, BuildOk, BuildPc, ReadBy
    <3> QED BY <3>1, <3>2
  <2> QED BY <2>1, <2>2, <1>8, RequestStep DEF Install, Ready
<1> QED BY <1>1, <1>2, <1>3, <1>4, <1>5, <1>6, <1>7, <1>8 DEF Resolving

(* A commit makes a handler owe an eviction and only ever raises versions.   *)
LEMMA CommitFacts ==
  ASSUME IInv, TypeOK', NEW m \in Mut, Commit(m)
  PROVE  /\ commits' = commits + 1
         /\ m \in Evicting'
         /\ UNCHANGED <<installed, gen, allEpoch, req, settled>>
         /\ \A p \in Part : db'.ver[p] = db.ver[p] \/ db'.ver[p] = commits + 1
         /\ \/ db'.ver["row"] = commits + 1
            \/ Serviceable' = Serviceable
<1> USE DEF IInv, TypeOK, Committed, Stamp
<1>1. CASE Update(m) BY <1>1 DEF Update, Evicting, Part
<1>2. CASE Promote(m) BY <1>2 DEF Promote, Evicting, Part, Serviceable
<1>3. CASE SetEnabled(m) BY <1>3 DEF SetEnabled, Evicting, Part
<1>4. CASE Delete(m) BY <1>4 DEF Delete, Evicting, Part
<1>5. CASE Add(m) BY <1>5 DEF Add, Evicting, Part
<1>6. CASE EditResource(m) BY <1>6 DEF EditResource, Evicting, Part, Serviceable
<1>7. CASE Restore(m) BY <1>7 DEF Restore, Evicting, Part
<1> QED BY <1>1, <1>2, <1>3, <1>4, <1>5, <1>6, <1>7 DEF Commit

LEMMA MutatingStep == ASSUME IInv, TypeOK', NEW m \in Mut, Mutating(m) PROVE IInv'
<1> USE DEF IInv
<1>1. CASE Commit(m)
  <2> "row" \in Part /\ db.ver \in Version /\ db'.ver \in Version /\ commits \in Nat
      /\ settled \in Version
    BY DEF Part, TypeOK
  <2>1. \A p \in Part : db.ver[p] <= db'.ver[p] /\ db'.ver[p] <= commits'
    BY <1>1, CommitFacts DEF VersionsBounded, Version
  <2>2. VersionsBounded'
    BY <1>1, <2>1, CommitFacts DEF VersionsBounded, Version
  <2>3. ASSUME NEW v \in Version, NotAhead(v)
        PROVE  /\ NotAhead(v)'
               /\ (v["row"] = db.ver["row"] => Serviceable) => (v["row"] = db'.ver["row"] => Serviceable')
    <3>1. v["row"] <= commits
      BY <2>3 DEF NotAhead, VersionsBounded, Version
    <3> QED BY <1>1, <2>1, <2>3, <3>1, CommitFacts DEF NotAhead, Version
  <2>4. InstalledOk'
    <3> SUFFICES ASSUME installed # None PROVE InstalledOk'
      BY <1>1, CommitFacts DEF InstalledOk
    <3>1. installed.ver \in Version
      BY DEF TypeOK, Adapter
    <3> QED BY <3>1, <2>3, <1>1, CommitFacts DEF InstalledOk, Misses
  <2>5. ASSUME NEW r \in Req PROVE BuildOk(r)'
    <3>1. req[r].adapter.ver \in Version
      BY DEF TypeOK, ReqState, Adapter
    <3> QED BY <3>1, <2>3, <1>1, CommitFacts DEF BuildOk, Misses, Moved
  <2> QED BY <2>2, <2>4, <2>5
<1>2. CASE Invalidate(m)
  <2>1. VersionsBounded' /\ InstalledOk'
    BY <1>2 DEF Invalidate, Evict, VersionsBounded, InstalledOk, TypeOK, Version
  <2>2. ASSUME NEW r \in Req PROVE BuildOk(r)'
    <3> req[r] \in ReqState /\ gen \in Nat
      BY DEF TypeOK
    <3>1. req[r].pc \in BuildPc => req[r].gen <= gen /\ req[r].gen # gen'
      BY <1>2 DEF Invalidate, BuildOk, ReqState
    <3> QED BY <1>2, <3>1 DEF Invalidate, Evict, BuildOk, Moved, NotAhead, Serviceable, ReqState
  <2> QED BY <2>1, <2>2
<1>3. CASE InvalidateAll(m)
  <2>1. VersionsBounded' /\ InstalledOk'
    BY <1>3 DEF InvalidateAll, Evict, VersionsBounded, InstalledOk, TypeOK, Version
  <2>2. ASSUME NEW r \in Req PROVE BuildOk(r)'
    <3> req[r] \in ReqState /\ allEpoch \in Nat
      BY DEF TypeOK
    <3>1. req[r].pc \in BuildPc => req[r].all <= allEpoch /\ req[r].all # allEpoch'
      BY <1>3 DEF InvalidateAll, BuildOk, ReqState
    <3> QED BY <1>3, <3>1 DEF InvalidateAll, Evict, BuildOk, Moved, NotAhead, Serviceable, ReqState
  <2> QED BY <2>1, <2>2
<1>4. CASE BumpEpoch(m) \/ ForgetBreaker(m) \/ Purge(m)
  <2> USE DEF BumpEpoch, ForgetBreaker, Purge
  <2>1. Evicting' = Evicting
    BY <1>4 DEF Evicting, TypeOK
  <2>2. VersionsBounded' /\ InstalledOk'
    BY <1>4, <2>1 DEF VersionsBounded, InstalledOk, NotAhead, Misses, Serviceable
  <2>3. \A r \in Req : BuildOk(r)'
    BY <1>4 DEF BuildOk, Moved, NotAhead, Misses, Serviceable
  <2> QED BY <2>2, <2>3
<1> QED BY <1>1, <1>2, <1>3, <1>4 DEF Mutating

LEMMA InvStep == IInv /\ [Next]_resolverVars => IInv'
<1> SUFFICES ASSUME IInv, [Next]_resolverVars PROVE IInv'
  OBVIOUS
<1>0. TypeOK'
  BY TypeStep DEF IInv
<1>1. ASSUME NEW r \in Req, Resolving(r) PROVE IInv'
  BY <1>0, <1>1, ResolvingStep
<1>2. ASSUME NEW r \in Req, Finish(r) PROVE IInv'
  <2>1. BuildOk(r)' /\ InstalledOk' /\ \A q \in Req \ {r} : req'[q] = req[q]
    BY <1>2, IdleFacts DEF IInv, TypeOK, Finish, BuildOk, BuildPc, InstalledOk, NotAhead, Misses, Serviceable
  <2> QED BY <1>0, <1>2, <2>1, RequestStep DEF Finish
<1>3. ASSUME NEW m \in Mut, Mutating(m) PROVE IInv'
  BY <1>0, <1>3, MutatingStep
<1>4. CASE Crash
  <2>1. VersionsBounded' /\ InstalledOk'
    BY <1>4 DEF Crash, IInv, TypeOK, VersionsBounded, InstalledOk, Version
  <2>2. \A r \in Req : BuildOk(r)'
    BY <1>4, IdleFacts DEF Crash, BuildOk, BuildPc
  <2> QED BY <1>0, <2>1, <2>2 DEF IInv
<1>5. CASE UNCHANGED resolverVars
  <2>1. VersionsBounded' /\ InstalledOk'
    BY <1>5 DEF resolverVars, IInv, VersionsBounded, InstalledOk, Evicting, NotAhead, Misses, Serviceable
  <2>2. \A r \in Req : BuildOk(r)'
    BY <1>5 DEF resolverVars, IInv, BuildOk, Moved, NotAhead, Misses, Serviceable
  <2> QED BY <1>0, <2>1, <2>2 DEF IInv
<1> QED BY <1>1, <1>2, <1>3, <1>4, <1>5 DEF Next

LEMMA InvHolds == Spec => []IInv
  BY InvInit, InvStep, PTL DEF Spec

(* An installed engine is built from exactly what the database holds, of an  *)
(* instance that exists and is enabled, whenever no eviction is owed: the    *)
(* generation check of resolve, for any number of builds and mutations.      *)
THEOREM EngineIsCurrent == Spec => []InstalledIsCurrent
<1>1. IInv => InstalledIsCurrent
  <2> SUFFICES ASSUME IInv, Evicting = {}, installed # None
               PROVE installed.ver = db.ver /\ db.exists /\ db.enabled
    BY DEF InstalledIsCurrent
  <2>1. installed.ver \in Version /\ db.ver \in Version /\ settled = db.ver
    BY DEF IInv, TypeOK, Adapter, VersionsBounded
  <2>2. \A p \in Part : installed.ver[p] = db.ver[p]
    BY <2>1 DEF IInv, InstalledOk, NotAhead, Misses, Version
  <2>3. installed.ver = db.ver
    BY <2>1, <2>2 DEF Version
  <2> QED BY <2>2, <2>3 DEF IInv, InstalledOk, Serviceable, Part
<1> QED BY <1>1, InvHolds, PTL

-----------------------------------------------------------------------------
(* Refinement. *)

LEMMA PromiseInit == Init => Promise!Init
  BY DEF Init, Promise!Init, NoVer

LEMMA PromiseStep == IInv /\ [Next]_resolverVars => [Promise!Next]_(Promise!vars)
<1> SUFFICES ASSUME IInv, [Next]_resolverVars PROVE [Promise!Next]_(Promise!vars)
  OBVIOUS
<1> USE DEF Promise!vars
<1>0. TypeOK /\ TypeOK'
  BY TypeStep DEF IInv
<1>1. ASSUME UNCHANGED <<db, commits, settled, installed>> PROVE UNCHANGED Promise!vars
  BY <1>1
<1>2. ASSUME NEW r \in Req, Resolving(r) PROVE [Promise!Next]_(Promise!vars)
  <2>1. CASE Install(r) /\ installed = None /\ ~Moved(r)
    <3> DEFINE v == req[r].adapter.ver
    <3>1. installed' = req[r].adapter /\ req[r].adapter \in Adapter /\ v \in Version
      BY <2>1, <1>0 DEF Install, TypeOK, ReqState, Adapter
    <3>2. \A p \in Part : settled[p] <= v[p] /\ v[p] <= db.ver[p] /\ db.ver[p] <= commits
      BY <2>1 DEF Install, IInv, BuildOk, NotAhead, Misses, ReadBy, BuildPc, VersionsBounded
    <3>3. v \in [Part -> 0 .. commits]
      BY <3>1, <3>2, <1>0 DEF Version, TypeOK
    <3>4. v \in Promise!Entitled
      BY <3>2, <3>3 DEF Promise!Entitled
    <3>5. Promise!Install
      BY <2>1, <3>1, <3>4, NoneAssumption DEF Install, Promise!Install
    <3> QED BY <3>5 DEF Promise!Next
  <2>2. CASE ~(Install(r) /\ installed = None /\ ~Moved(r))
    <3>1. UNCHANGED <<db, commits, settled, installed>>
      BY <1>2, <2>2 DEF Resolving, ResolveHit, ResolveMiss, ReadRow, SnapshotEpoch, ReadSettings,
                        ReadRefs, BuildFails, Install
    <3> QED BY <3>1, <1>1
  <2> QED BY <2>1, <2>2
<1>3. ASSUME NEW r \in Req, Finish(r) PROVE [Promise!Next]_(Promise!vars)
  BY <1>1, <1>3 DEF Finish
<1>4. ASSUME NEW m \in Mut, Mutating(m) PROVE [Promise!Next]_(Promise!vars)
  <2>1. CASE Commit(m)
    <3>1. PICK S \in SUBSET Part : db'.ver = Stamp(S)
      BY <2>1 DEF Commit, Update, Promote, SetEnabled, Delete, Add, EditResource, Restore,
                  Committed, Part
    <3>2. Promise!Commit
      BY <2>1, <3>1, CommitFacts, <1>0 DEF Promise!Commit, Stamp
    <3> QED BY <3>2 DEF Promise!Next
  <2>2. CASE Invalidate(m) \/ InvalidateAll(m)
    <3>1. Promise!Evict
      BY <2>2 DEF Invalidate, InvalidateAll, Evict, Promise!Evict
    <3> QED BY <3>1 DEF Promise!Next
  <2>3. CASE BumpEpoch(m) \/ ForgetBreaker(m) \/ Purge(m)
    BY <2>3, <1>1 DEF BumpEpoch, ForgetBreaker, Purge
  <2> QED BY <1>4, <2>1, <2>2, <2>3 DEF Mutating
<1>5. CASE Crash
  <2>1. Promise!Evict
    BY <1>5 DEF Crash, Promise!Evict
  <2> QED BY <2>1 DEF Promise!Next
<1>6. CASE UNCHANGED resolverVars
  BY <1>1, <1>6 DEF resolverVars
<1> QED BY <1>2, <1>3, <1>4, <1>5, <1>6 DEF Next

(* The engine cache of the registry keeps the promise of AdapterCache: an    *)
(* installed engine never misses what an eviction settled.                   *)
THEOREM Refinement == Spec => ImplementsAdapterCache
  BY PromiseInit, PromiseStep, InvHolds, PTL DEF Spec, ImplementsAdapterCache, Promise!Spec
=============================================================================
