------------------------------- MODULE AppSync -------------------------------
(***************************************************************************)
(* App sync (internal/appsync): a sync run reads one connection, the       *)
(* indexers, the ledger of what was pushed last and the sync profile,      *)
(* lists the app's own indexers, creates or updates the ones it wants,     *)
(* removes the ones it owns and no longer wants, and records what it did   *)
(* in one transaction.  Nothing serialises two runs, and the app, the      *)
(* operator and the process can act between any two of these steps.        *)
(*                                                                         *)
(* An indexer's configuration is a version number; the payload pushed and  *)
(* its hash are that number (0 is "no hash").  A row of the app is the     *)
(* slug its feed URL names and the version it carries; rows of other tools *)
(* carry the slug Foreign.  The app never gives a row id out twice.        *)
(***************************************************************************)
EXTENDS Integers, FiniteSets, Functions, FiniteSetsExt

CONSTANTS
  Sync,       \* the requests that can run a sync at the same time
  Indexer,    \* slugs
  MaxConf,    \* versions of an indexer's configuration
  MaxRemote,  \* row ids the app hands out
  MaxEdit,    \* changes by the operator, in harbrr or in the app
  MaxSyncFault,   \* calls that fail, answers that are lost, runs that are cut off
  MaxSync,    \* runs
  Foreign     \* the slug of a row harbrr does not manage

ASSUME AppSyncAssumption ==
  /\ MaxConf \in Nat \ {0}
  /\ MaxRemote \in Nat \ {0}
  /\ Foreign \notin Indexer

Conf == 1 .. MaxConf
Rid == 1 .. MaxRemote
NoEntry == [remote |-> 0, hash |-> 0]
NoOutcome == [action |-> "none", remote |-> 0, hash |-> 0]
Nothing == [i \in Indexer |-> 0]

VARIABLES
  instance,   \* the configuration of each indexer, 0 when there is none
  selected,   \* the indexers the connection's sync profile selects
  level,      \* the connection's sync level, "full" or "add_update"
  book,     \* app_connection_indexers: what was pushed last, per indexer
  remote,     \* the app's rows, by id
  lastRid,    \* the last row id the app gave out
  run,        \* the sync runs
  astray,     \* history: indexers pushed to the app and not recorded since
  overlapped, \* history: two runs were in progress at once
  edits, faults, syncs

appSyncVars == <<instance, selected, level, book, remote, lastRid, run,
                 astray, overlapped, edits, faults, syncs>>

Idle ==
  [pc |-> "idle", level |-> "full", seen |-> Nothing,
   prior |-> [i \in Indexer |-> NoEntry], want |-> {}, listed |-> << >>,
   todo |-> {}, out |-> [i \in Indexer |-> NoOutcome], good |-> FALSE,
   bad |-> FALSE, alone |-> TRUE, clean |-> TRUE, gone |-> {}]

AppSyncInit ==
  /\ instance = [i \in Indexer |-> 1]
  /\ selected = {}
  /\ level \in {"full", "add_update"}
  /\ book = [i \in Indexer |-> NoEntry]
  /\ remote = [r \in {1} |-> [slug |-> Foreign, conf |-> 0]]
  /\ lastRid = 1
  /\ run = [s \in Sync |-> Idle]
  /\ astray = {}
  /\ overlapped = FALSE
  /\ edits = 0 /\ faults = 0 /\ syncs = 0

Existing(inst) == {i \in Indexer : inst[i] # 0}

(* An empty selection routes every indexer to the connection. *)
profileMembers(inst, sel) == IF sel = {} THEN Existing(inst)
                             ELSE Existing(inst) \cap sel

Active(s) == run[s].pc \notin {"idle", "done"}
Set(s, r) == run' = [run EXCEPT ![s] = r]
RowsOf(i) == {r \in DOMAIN remote : remote[r].slug = i}
At_(s, pc) == run[s].pc = pc

-----------------------------------------------------------------------------
(* The reads a run makes before it talks to the app, each on its own.       *)

(* A run that starts while another is in progress spoils both.             *)
ReadConnection(s) ==
  /\ ~Active(s) /\ syncs < MaxSync
  /\ LET others == {t \in Sync \ {s} : Active(t)} IN
       /\ run' = [t \in Sync |->
            IF t = s THEN [Idle EXCEPT !.pc = "ledger", !.level = level,
                                       !.seen = instance,
                                       !.alone = (others = {}),
                                       !.clean = (others = {})]
            ELSE IF t \in others THEN [run[t] EXCEPT !.alone = FALSE,
                                                     !.clean = FALSE]
            ELSE [run[t] EXCEPT !.clean = FALSE]]
       /\ overlapped' = (overlapped \/ others # {})
  /\ syncs' = syncs + 1
  /\ UNCHANGED <<instance, selected, level, book, remote, lastRid, astray,
                 edits, faults>>

(* Rows of the ledger whose indexer the run did not see are ignored. *)
priorBySlug(seen) == [i \in Indexer |-> IF seen[i] = 0 THEN NoEntry
                                        ELSE book[i]]

ReadLedger(s) ==
  /\ At_(s, "ledger")
  /\ Set(s, [run[s] EXCEPT !.pc = "profile",
                           !.prior = priorBySlug(run[s].seen)])
  /\ UNCHANGED <<instance, selected, level, book, remote, lastRid, astray,
                 overlapped, edits, faults, syncs>>

buildDesired(s) ==
  /\ At_(s, "profile")
  /\ Set(s, [run[s] EXCEPT !.pc = "list",
                           !.want = profileMembers(run[s].seen, selected)])
  /\ UNCHANGED <<instance, selected, level, book, remote, lastRid, astray,
                 overlapped, edits, faults, syncs>>

List(s) ==
  /\ At_(s, "list")
  /\ Set(s, [run[s] EXCEPT !.pc = "push", !.todo = run[s].want,
                           !.listed = [r \in DOMAIN remote |-> remote[r].slug]])
  /\ UNCHANGED <<instance, selected, level, book, remote, lastRid, astray,
                 overlapped, edits, faults, syncs>>

-----------------------------------------------------------------------------
(* Reconcile.  A call is applied and answered, applied with its answer      *)
(* lost, or not applied; a call about a row that is gone is refused.        *)

(* mutant: only the ledger knows a row *)
resolveUnrecovered(prior, listed, i) ==
  IF prior.remote \in DOMAIN listed THEN prior.remote ELSE 0

(* mutant: the ledger is believed whatever the app lists *)
resolveUnchecked(prior, listed, i) ==
  LET owned == {r \in DOMAIN listed : listed[r] = i} IN
    IF prior.remote # 0 THEN prior.remote
    ELSE IF owned # {} THEN Max(owned) ELSE 0

(* The id the ledger holds when the app still lists it, else the row whose  *)
(* feed URL names the slug, else none.                                      *)
resolveRemoteID(prior, listed, i) ==
  LET owned == {r \in DOMAIN listed : listed[r] = i} IN
    IF prior.remote \in DOMAIN listed THEN prior.remote
    ELSE IF owned # {} THEN Max(owned) ELSE 0

Outcome(action, rid, hash) == [action |-> action, remote |-> rid, hash |-> hash]
FailedKeepingHash(rid, hash) == Outcome("failed", rid, hash) \* mutant
(* A failed update keeps the row's id and no hash. *)
Failed(rid, hash) == Outcome("failed", rid, 0)

Took(s, i, o) ==
  Set(s, [run[s] EXCEPT !.todo = @ \ {i}, !.out[i] = o,
                        !.good = @ \/ o.action # "failed",
                        !.bad = @ \/ o.action = "failed"])

Fault(is) == /\ faults' = faults + (IF is THEN 1 ELSE 0)
             /\ faults' <= MaxSyncFault

Create(s, i) ==
  \E applied, answered \in BOOLEAN :
    /\ answered => applied
    /\ applied => lastRid < MaxRemote
    /\ Fault(~answered)
    /\ IF applied
         THEN /\ lastRid' = lastRid + 1
              /\ remote' = [r \in DOMAIN remote \cup {lastRid + 1} |->
                   IF r \in DOMAIN remote THEN remote[r]
                   ELSE [slug |-> i, conf |-> run[s].seen[i]]]
              /\ astray' = astray \cup {i}
         ELSE UNCHANGED <<lastRid, remote, astray>>
    /\ Took(s, i, IF answered
                    THEN Outcome("created", lastRid + 1, run[s].seen[i])
                    ELSE Failed(0, run[s].seen[i]))

Update(s, i, rid) ==
  \E applied, answered \in BOOLEAN :
    /\ answered => applied
    /\ applied => rid \in DOMAIN remote
    /\ Fault(~answered /\ rid \in DOMAIN remote)
    /\ IF applied
         THEN /\ remote' = [remote EXCEPT ![rid] =
                              [slug |-> i, conf |-> run[s].seen[i]]]
              /\ astray' = astray \cup {i}
         ELSE UNCHANGED <<remote, astray>>
    /\ Took(s, i, IF answered THEN Outcome("updated", rid, run[s].seen[i])
                              ELSE Failed(rid, run[s].seen[i]))
    /\ UNCHANGED lastRid

addOrUpdate(s, i) ==
  LET entry == run[s].prior[i]
      hash == run[s].seen[i]
      rid == resolveRemoteID(entry, run[s].listed, i)
  IN  /\ At_(s, "push") /\ i \in run[s].todo
      /\ \/ rid = 0 /\ Create(s, i)
         \/ /\ rid # 0 /\ entry = [remote |-> rid, hash |-> hash]
            /\ Took(s, i, Outcome("noop", rid, hash))
            /\ UNCHANGED <<remote, lastRid, astray, faults>>
         \/ /\ rid # 0 /\ entry # [remote |-> rid, hash |-> hash]
            /\ Update(s, i, rid)
      /\ UNCHANGED <<instance, selected, level, book, overlapped, edits,
                     syncs>>

(* The rows harbrr owns whose slug is not wanted; a row whose slug names no *)
(* indexer it saw is removed too, and leaves nothing to record.            *)
Orphans(r) == {q \in DOMAIN r.listed : r.listed[q] \in Indexer \ r.want}

EndPushes(s) ==
  /\ At_(s, "push") /\ run[s].todo = {}
  /\ Set(s, [run[s] EXCEPT !.pc = "orphans",
               !.todo = IF run[s].level = "full" THEN Orphans(run[s]) ELSE {}])
  /\ UNCHANGED <<instance, selected, level, book, remote, lastRid, astray,
                 overlapped, edits, faults, syncs>>

removeOrphans(s, rid) ==
  LET r == run[s]
      i == r.listed[rid]
  IN  /\ At_(s, "orphans") /\ rid \in r.todo
      /\ \E applied, answered \in BOOLEAN :
           LET o == IF answered THEN Outcome("deleted", rid, 0)
                                ELSE Outcome("failed", rid, 0)
           IN  /\ answered => applied
               /\ applied => rid \in DOMAIN remote
               /\ Fault(~answered /\ rid \in DOMAIN remote)
               /\ remote' = IF applied THEN Restrict(remote, DOMAIN remote \ {rid})
                                       ELSE remote
               /\ Set(s, [r EXCEPT !.todo = @ \ {rid},
                    !.out = IF i \in Indexer /\ r.seen[i] # 0
                              THEN [@ EXCEPT ![i] = o] ELSE @,
                    !.good = @ \/ answered, !.bad = @ \/ ~answered])
      /\ UNCHANGED <<instance, selected, level, book, lastRid, astray,
                     overlapped, edits, syncs>>

-----------------------------------------------------------------------------
(* The outcomes are recorded all together or not at all.                    *)

Recorded(r) == {i \in Indexer : r.out[i] # NoOutcome}

(* A ledger row of an indexer that is gone breaks its foreign key; one      *)
(* added again since may or may not have been given the old row id.         *)
Blocked(r) == {i \in Recorded(r) : /\ r.out[i].action # "deleted"
                                   /\ i \in r.gone}
MustFail(r) == \E i \in Blocked(r) : instance[i] = 0

persistOne(entry, o) ==
  CASE o = NoOutcome           -> entry
    [] o.action = "deleted"    -> NoEntry
    [] OTHER                   -> [remote |-> o.remote, hash |-> o.hash]

persistOutcomes(s) ==
  LET r == run[s]
      sent == {i \in Indexer : r.out[i].action \in {"created", "updated", "failed"}}
  IN  /\ At_(s, "orphans") /\ r.todo = {}
      /\ ~MustFail(r)
      /\ book' = [i \in Indexer |-> IF instance[i] = 0 THEN NoEntry
                                      ELSE persistOne(book[i], r.out[i])]
      /\ astray' = IF r.alone THEN astray \ sent ELSE astray
      /\ Set(s, [Idle EXCEPT !.pc = "done", !.level = r.level,
                   !.good = r.good, !.bad = r.bad, !.clean = r.clean])
      /\ UNCHANGED <<instance, selected, level, remote, lastRid, overlapped,
                     edits, faults, syncs>>

(* A failed read, list or transaction, a request that is cancelled and a    *)
(* crash of the process all leave the ledger as it was.                     *)
Abandon(s) ==
  LET r == run[s] IN
  /\ Active(s)
  /\ Fault(~(At_(s, "orphans") /\ r.todo = {} /\ Blocked(r) # {}))
  /\ Set(s, Idle)
  /\ UNCHANGED <<instance, selected, level, book, remote, lastRid, astray,
                 overlapped, edits, syncs>>

-----------------------------------------------------------------------------
(* The operator, in harbrr and in the app.                                  *)

Edit == edits < MaxEdit /\ edits' = edits + 1
Unclean(gone) == run' = [s \in Sync |->
  [run[s] EXCEPT !.clean = FALSE,
                 !.gone = IF Active(s) THEN @ \cup gone ELSE @]]

Configure(i) ==
  /\ instance[i] # 0
  /\ \E c \in Conf \ {instance[i]} : instance' = [instance EXCEPT ![i] = c]
  /\ Edit /\ Unclean({})
  /\ UNCHANGED <<selected, level, book, remote, lastRid, astray, overlapped,
                 faults, syncs>>

(* The profile's member and the ledger's row go with the indexer. *)
RemoveIndexer(i) ==
  /\ instance[i] # 0
  /\ instance' = [instance EXCEPT ![i] = 0]
  /\ selected' = selected \ {i}
  /\ book' = [book EXCEPT ![i] = NoEntry]
  /\ Edit /\ Unclean({i})
  /\ UNCHANGED <<level, remote, lastRid, astray, overlapped, faults, syncs>>

AddIndexer(i) ==
  /\ instance[i] = 0
  /\ \E c \in Conf : instance' = [instance EXCEPT ![i] = c]
  /\ Edit /\ Unclean({})
  /\ UNCHANGED <<selected, level, book, remote, lastRid, astray, overlapped,
                 faults, syncs>>

ReplaceProfileIndexers ==
  /\ \E sel \in SUBSET Existing(instance) \ {selected} : selected' = sel
  /\ Edit /\ Unclean({})
  /\ UNCHANGED <<instance, level, book, remote, lastRid, astray, overlapped,
                 faults, syncs>>

UpdateConnection ==
  /\ level' \in {"full", "add_update"} \ {level}
  /\ Edit /\ Unclean({})
  /\ UNCHANGED <<instance, selected, book, remote, lastRid, astray,
                 overlapped, faults, syncs>>

DeleteInApp(i) ==
  /\ \E r \in RowsOf(i) : remote' = Restrict(remote, DOMAIN remote \ {r})
  /\ Edit /\ Unclean({})
  /\ UNCHANGED <<instance, selected, level, book, lastRid, astray,
                 overlapped, faults, syncs>>

AppSyncNext ==
  \/ \E s \in Sync : \/ ReadConnection(s) \/ ReadLedger(s) \/ buildDesired(s)
                     \/ List(s) \/ EndPushes(s) \/ persistOutcomes(s)
                     \/ Abandon(s)
                     \/ \E i \in Indexer : addOrUpdate(s, i)
                     \/ \E r \in Rid : removeOrphans(s, r)
  \/ \E i \in Indexer : \/ Configure(i) \/ RemoveIndexer(i) \/ AddIndexer(i)
                        \/ DeleteInApp(i)
  \/ ReplaceProfileIndexers
  \/ UpdateConnection

AppSyncSpec == AppSyncInit /\ [][AppSyncNext]_appSyncVars

-----------------------------------------------------------------------------
Entry == [remote : 0 .. MaxRemote, hash : 0 .. MaxConf]
OutcomeType == [action : {"none", "created", "updated", "noop", "deleted", "failed"},
                remote : 0 .. MaxRemote, hash : 0 .. MaxConf]

(* The type of the state of app sync. *)
AppSyncTypeOK ==
  /\ instance \in [Indexer -> 0 .. MaxConf]
  /\ selected \subseteq Existing(instance)
  /\ level \in {"full", "add_update"}
  /\ book \in [Indexer -> Entry]
  /\ lastRid \in Rid /\ DOMAIN remote \subseteq 1 .. lastRid
  /\ \A r \in DOMAIN remote :
       remote[r] \in [slug : Indexer \cup {Foreign}, conf : 0 .. MaxConf]
  /\ astray \subseteq Indexer
  /\ overlapped \in BOOLEAN
  /\ \A s \in Sync :
       /\ run[s].out \in [Indexer -> OutcomeType]
       /\ run[s].want \subseteq Existing(run[s].seen)
       /\ DOMAIN run[s].listed \subseteq 1 .. lastRid

(* The hash in the ledger is what the app holds: unless a push went         *)
(* unrecorded or two runs overlapped, the row the ledger names, as long as  *)
(* the app has it, is the indexer's row and carries the version recorded -  *)
(* what makes it right to leave it alone when the hash still matches        *)
(* (reconcile.go addOrUpdate).                                              *)
LedgerTruthful ==
  \A i \in Indexer \ astray :
    (book[i].hash # 0 /\ book[i].remote \in DOMAIN remote) =>
      remote[book[i].remote] = [slug |-> i, conf |-> book[i].hash]

(* Answers that are lost and runs that are cut off never make harbrr create *)
(* a second row for an indexer: the first is found again by its feed URL.   *)
(* Two runs at once can.                                                    *)
NoDuplicates ==
  ~overlapped => \A i \in Indexer : Cardinality(RowsOf(i)) <= 1

(* The ledger and the application name the same rows: see the two parts     *)
(* (reconcile.go).                                                           *)
LedgerFaithful == LedgerTruthful /\ NoDuplicates

Wanted == profileMembers(instance, selected)
DoneWell(s) == At_(s, "done") /\ ~run[s].bad /\ run[s].clean
Agrees(lvl, except) ==
  /\ \A i \in Wanted \ except :
       \E r \in RowsOf(i) : remote[r].conf = instance[i]
  /\ lvl = "full" => \A i \in Indexer \ Wanted : RowsOf(i) = {}
  /\ RowsOf(Foreign) = {1}

(* A run that reports ok, and that no other run and no change disturbed,    *)
(* leaves the app in agreement with harbrr: every wanted indexer is there   *)
(* in its present version, nothing unwanted harbrr owns is left at level    *)
(* full, and rows of other tools are as they were - whatever failed, was    *)
(* lost or overlapped before, except for an indexer with an unrecorded push.*)
SyncAgrees == \A s \in Sync : DoneWell(s) => Agrees(run[s].level, astray)

(* The same without the exception: what Reconcile's comment and the guide   *)
(* promise of every run that ends well.                                     *)
SyncDrives == \A s \in Sync : DoneWell(s) => Agrees(run[s].level, {})
=============================================================================
