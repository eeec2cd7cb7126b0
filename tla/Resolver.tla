------------------------------ MODULE Resolver ------------------------------
(***************************************************************************)
(* The serve path's engine cache (registry.go: Resolver) and the mutations  *)
(* that supersede what it holds (manage.go: Manager, failover.go: promote,  *)
(* web/api: the proxy, solver and restore handlers), for one slug and the   *)
(* one instance id behind it.  SQLite reuses row ids, so an instance that   *)
(* is added after a delete, or re-inserted by a restore, has the same id.   *)
(*                                                                          *)
(* The configuration is three things a build reads one after the other: the *)
(* indexer_instances row, its settings, and the proxy/solver it refers to.  *)
(* Every commit stamps what it writes with a fresh version.                 *)
(***************************************************************************)
EXTENDS Naturals, FiniteSets

CONSTANTS
  Req,        \* requests that resolve the slug
  Mut,        \* handlers that change the configuration
  Op,         \* the operations the handlers may perform
  MaxCommit,  \* bound on commits
  MaxCrash,   \* bound on restarts of the process
  None        \* no engine

Part == {"row", "set", "ref"}
AllOps == {"update", "promote", "enable", "delete", "add", "resource", "restore"}

ASSUME OpAssumption == Op \subseteq AllOps
ASSUME BoundAssumption == MaxCommit \in Nat /\ MaxCrash \in Nat

VARIABLES
  db,         \* the database: [exists, enabled, ver: Part -> version]
  commits,    \* number of commits, the source of versions
  installed,  \* Resolver.cache[slug]: None or an engine
  gen,        \* Resolver.gen[slug]
  allEpoch,   \* Resolver.epoch
  instEpoch,  \* SearchCache.instanceEpochs[id]
  req,        \* req[r]: the resolve of request r
  mut,        \* mut[m]: the step handler m has reached
  crashes,    \* number of restarts
  settled     \* history: the versions at the last eviction

resolverVars == <<db, commits, installed, gen, allEpoch, instEpoch, req, mut,
                  crashes, settled>>

Version == [Part -> Nat]

(* indexerAdapter: the versions it was built from, and its builtEpoch. *)
Adapter == [ver : Version, epoch : Nat]
NoVer == [p \in Part |-> 0]
Blank == [ver |-> NoVer, epoch |-> 0]

ASSUME NoneAssumption == None \notin Adapter /\ None \notin Version

BuildPc == {"row", "epoch", "set", "ref", "install"}
ReqPc == {"idle", "ready"} \cup BuildPc
MutPc == {"idle", "committed", "added", "resource", "restored", "evicted", "bumped", "forgot"}

(* gen and all are what resolve captured under the lock before building. *)
ReqState == [pc : ReqPc, gen : Nat, all : Nat, adapter : Adapter]
IdleReq == [pc |-> "idle", gen |-> 0, all |-> 0, adapter |-> Blank]

TypeOK == /\ db \in [exists : BOOLEAN, enabled : BOOLEAN, ver : Version]
          /\ commits \in Nat
          /\ installed \in Adapter \cup {None}
          /\ gen \in Nat
          /\ allEpoch \in Nat
          /\ instEpoch \in Nat
          /\ req \in [Req -> ReqState]
          /\ mut \in [Mut -> MutPc]
          /\ crashes \in Nat
          /\ settled \in Version

Init == /\ db = [exists |-> TRUE, enabled |-> TRUE, ver |-> NoVer]
        /\ commits = 0
        /\ installed = None
        /\ gen = 0
        /\ allEpoch = 0
        /\ instEpoch = 0
        /\ req = [r \in Req |-> IdleReq]
        /\ mut = [m \in Mut |-> "idle"]
        /\ crashes = 0
        /\ settled = NoVer

-----------------------------------------------------------------------------
(* resolve: a hit, or a build outside the lock.                             *)

Ready(r, adapter) ==
  req' = [req EXCEPT ![r] = [IdleReq EXCEPT !.pc = "ready", !.adapter = adapter]]

ResolveHit(r) ==
  /\ req[r].pc = "idle"
  /\ installed # None
  /\ Ready(r, installed)
  /\ UNCHANGED <<db, commits, installed, gen, allEpoch, instEpoch, mut, crashes, settled>>

ResolveMiss(r) ==
  /\ req[r].pc = "idle"
  /\ installed = None
  /\ req' = [req EXCEPT ![r] = [IdleReq EXCEPT !.pc = "row", !.gen = gen, !.all = allEpoch]]
  /\ UNCHANGED <<db, commits, installed, gen, allEpoch, instEpoch, mut, crashes, settled>>

(* A build step: adapter a read a part of the configuration. *)
Read(a, p) == [a EXCEPT !.ver = [@ EXCEPT ![p] = db.ver[p]]]
Build(r, pc, a) == req' = [req EXCEPT ![r] = [@ EXCEPT !.pc = pc, !.adapter = a]]

(* GetBySlug: a missing or a disabled instance ends the resolve. *)
ReadRow(r) ==
  /\ req[r].pc = "row"
  /\ IF db.exists /\ db.enabled
     THEN Build(r, "epoch", Read(req[r].adapter, "row"))
     ELSE req' = [req EXCEPT ![r] = IdleReq]
  /\ UNCHANGED <<db, commits, installed, gen, allEpoch, instEpoch, mut, crashes, settled>>

SnapshotEpoch(r) ==
  /\ req[r].pc = "epoch"
  /\ Build(r, "set", [req[r].adapter EXCEPT !.epoch = instEpoch])
  /\ UNCHANGED <<db, commits, installed, gen, allEpoch, instEpoch, mut, crashes, settled>>

ReadSettings(r) ==
  /\ req[r].pc = "set"
  /\ Build(r, "ref", Read(req[r].adapter, "set"))
  /\ UNCHANGED <<db, commits, installed, gen, allEpoch, instEpoch, mut, crashes, settled>>

(* Bug for the mutants: the epoch is read after the settings. *)
LateSnapshot(r) ==
  /\ req[r].pc = "ref"
  /\ Build(r, "install", [Read(req[r].adapter, "ref") EXCEPT !.epoch = instEpoch])
  /\ UNCHANGED <<db, commits, installed, gen, allEpoch, instEpoch, mut, crashes, settled>>

(* resolveResourceRefs: the proxy and the solver the instance refers to. *)
ReadRefs(r) ==
  /\ req[r].pc = "ref"
  /\ Build(r, "install", Read(req[r].adapter, "ref"))
  /\ UNCHANGED <<db, commits, installed, gen, allEpoch, instEpoch, mut, crashes, settled>>

(* Any read, the decryption or the construction may fail: nothing is kept. *)
BuildFails(r) ==
  /\ req[r].pc \in BuildPc \ {"install"}
  /\ req' = [req EXCEPT ![r] = IdleReq]
  /\ UNCHANGED <<db, commits, installed, gen, allEpoch, instEpoch, mut, crashes, settled>>

(* Back under the lock: whoever installed first wins; an engine whose        *)
(* generation moved is used for this request and not installed.             *)
NeverMoved(r) == FALSE                \* bug for the mutants
MovedBySlug(r) == req[r].gen # gen    \* bug for the mutants: InvalidateAll is missed
Moved(r) == req[r].gen # gen \/ req[r].all # allEpoch

Install(r) ==
  /\ req[r].pc = "install"
  /\ Ready(r, IF installed # None THEN installed ELSE req[r].adapter)
  /\ installed' = IF installed # None \/ Moved(r) THEN installed ELSE req[r].adapter
  /\ UNCHANGED <<db, commits, gen, allEpoch, instEpoch, mut, crashes, settled>>

(* The request is answered and drops the engine. *)
Finish(r) ==
  /\ req[r].pc = "ready"
  /\ req' = [req EXCEPT ![r] = IdleReq]
  /\ UNCHANGED <<db, commits, installed, gen, allEpoch, instEpoch, mut, crashes, settled>>

-----------------------------------------------------------------------------
(* Mutations: commit, evict the engine, then purge the cached results.      *)

StampOnly(parts) == [p \in parts |-> commits + 1]  \* bug for the mutants: drops the rest
Stamp(parts) == [p \in Part |-> IF p \in parts THEN commits + 1 ELSE db.ver[p]]

Committed(m, op, parts, step) ==
  /\ op \in Op
  /\ mut[m] = "idle"
  /\ commits < MaxCommit
  /\ commits' = commits + 1
  /\ mut' = [mut EXCEPT ![m] = step]
  /\ UNCHANGED <<installed, gen, allEpoch, instEpoch, req, crashes, settled>>
  /\ db' \in [exists : BOOLEAN, enabled : BOOLEAN, ver : {Stamp(parts)}]

(* Manager.Update: the row (name, base URL, references) and the settings. *)
Update(m) ==
  /\ db.exists
  /\ Committed(m, "update", {"row", "set"}, "committed")
  /\ db'.exists = TRUE /\ db'.enabled = db.enabled

(* Resolver.promote: the failover writes its one setting. *)
Promote(m) ==
  /\ db.exists
  /\ Committed(m, "promote", {"set"}, "committed")
  /\ db'.exists = TRUE /\ db'.enabled = db.enabled

(* Manager.SetEnabled; it does not look at the flag it replaces. *)
SetEnabled(m) ==
  /\ db.exists
  /\ Committed(m, "enable", {"row"}, "committed")
  /\ db'.exists = TRUE

Delete(m) ==
  /\ db.exists
  /\ Committed(m, "delete", {"row", "set"}, "committed")
  /\ db'.exists = FALSE /\ db'.enabled = db.enabled

(* Manager.Add evicts the engine but has no cached results to purge. *)
Add(m) ==
  /\ ~db.exists
  /\ Committed(m, "add", {"row", "set"}, "added")
  /\ db'.exists = TRUE /\ db'.enabled = TRUE

(* A proxy or solver is edited or removed (web/api handlers). *)
EditResource(m) ==
  /\ Committed(m, "resource", {"ref"}, "resource")
  /\ db'.exists = db.exists /\ db'.enabled = db.enabled

(* A backup import wipes every table and re-inserts the instance. *)
Restore(m) ==
  /\ db.exists
  /\ Committed(m, "restore", Part, "restored")
  /\ db'.exists = TRUE

Commit(m) == \/ Update(m) \/ Promote(m) \/ SetEnabled(m) \/ Delete(m)
             \/ Add(m) \/ EditResource(m) \/ Restore(m)

Evict == installed' = None /\ settled' = db.ver

Invalidate(m) ==
  /\ mut[m] \in {"committed", "added"}
  /\ Evict
  /\ gen' = gen + 1
  /\ mut' = [mut EXCEPT ![m] = IF @ = "added" THEN "idle" ELSE "evicted"]
  /\ UNCHANGED <<db, commits, allEpoch, instEpoch, req, crashes>>

InvalidateAll(m) ==
  /\ mut[m] \in {"resource", "restored"}
  /\ Evict
  /\ allEpoch' = allEpoch + 1
  /\ mut' = [mut EXCEPT ![m] = IF @ = "resource" THEN "idle" ELSE "evicted"]
  /\ UNCHANGED <<db, commits, gen, instEpoch, req, crashes>>

(* SearchCache.InvalidateByInstance is three steps: bump, forget, purge. *)
BumpEpoch(m) ==
  /\ mut[m] = "evicted"
  /\ instEpoch' = instEpoch + 1
  /\ mut' = [mut EXCEPT ![m] = "bumped"]
  /\ UNCHANGED <<db, commits, installed, gen, allEpoch, req, crashes, settled>>

ForgetBreaker(m) ==
  /\ mut[m] = "bumped"
  /\ mut' = [mut EXCEPT ![m] = "forgot"]
  /\ UNCHANGED <<db, commits, installed, gen, allEpoch, instEpoch, req, crashes, settled>>

Purge(m) ==
  /\ mut[m] = "forgot"
  /\ mut' = [mut EXCEPT ![m] = "idle"]
  /\ UNCHANGED <<db, commits, installed, gen, allEpoch, instEpoch, req, crashes, settled>>

(* The process restarts: only the database survives. *)
Crash ==
  /\ crashes < MaxCrash
  /\ crashes' = crashes + 1
  /\ installed' = None
  /\ gen' = 0 /\ allEpoch' = 0 /\ instEpoch' = 0
  /\ req' = [r \in Req |-> IdleReq]
  /\ mut' = [m \in Mut |-> "idle"]
  /\ settled' = db.ver
  /\ UNCHANGED <<db, commits>>

-----------------------------------------------------------------------------
Resolving(r) == \/ ResolveHit(r) \/ ResolveMiss(r) \/ ReadRow(r) \/ SnapshotEpoch(r)
                \/ ReadSettings(r) \/ ReadRefs(r) \/ BuildFails(r) \/ Install(r)

Mutating(m) == \/ Commit(m) \/ Invalidate(m) \/ InvalidateAll(m)
               \/ BumpEpoch(m) \/ ForgetBreaker(m) \/ Purge(m)

Next == \/ \E r \in Req : Resolving(r) \/ Finish(r)
        \/ \E m \in Mut : Mutating(m)
        \/ Crash

Spec == Init /\ [][Next]_resolverVars

-----------------------------------------------------------------------------
(* Mutations that committed and have not evicted the engine yet. *)
Evicting == { m \in Mut : mut[m] \in {"committed", "added", "resource", "restored"} }

(* Once no eviction is owed, an installed engine was built from exactly what *)
(* the database holds and the instance exists and is enabled: a build that   *)
(* raced a mutation is never left in the cache (registry.go resolve, the     *)
(* generation check; manage.go, commit before invalidate).                  *)
InstalledIsCurrent ==
  (Evicting = {} /\ installed # None) =>
    installed.ver = db.ver /\ db.exists /\ db.enabled

Promise == INSTANCE AdapterCache WITH
             config <- db.ver,
             installed <- IF installed = None THEN None ELSE installed.ver

(* The engine cache keeps the promise of AdapterCache. *)
ImplementsAdapterCache == Promise!Spec
=============================================================================
