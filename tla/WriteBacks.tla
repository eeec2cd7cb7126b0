----------------------------- MODULE WriteBacks -----------------------------
(***************************************************************************)
(* The settings of one indexer, and who writes them: the operator, in a    *)
(* transaction that reads, merges and writes all of them back              *)
(* (registry/manage.go Update), and the drivers, one at a time and past    *)
(* the engine cache (registry/registry.go persistSetting).  Three drivers  *)
(* do: MyAnonamouse stores the session token the tracker rotates           *)
(* (myanonamouse/auth.go), Newznab the request caps it found unset         *)
(* (newznab/user.go), GazelleGames the passkey it learns                   *)
(* (gazellegames/auth.go).                                                 *)
(*                                                                         *)
(* A value is 0 when it is unset.  Tokens are numbered in the order they   *)
(* come up; of a cap and of the unit, Found is what the account has and    *)
(* Typed what an operator chose.  A row id is reused when its instance is  *)
(* deleted and one is added.  Engines are built and evicted by Resolver's  *)
(* rules; here a build is one step.                                        *)
(***************************************************************************)
EXTENDS SequencesExt

CONSTANTS
  Worker,      \* searches and tests under way at the same time
  MaxToken,    \* bound: tokens
  MaxBuild,    \* bound: engines
  MaxChoice,   \* bound: operator writes
  MaxLoss,     \* bound: restarts
  NoEdit

ASSUME WriteBacksAssumption ==
  MaxToken \in Nat \ {0} /\ MaxBuild \in Nat /\ MaxChoice \in Nat /\ MaxLoss \in Nat

VARIABLES
  driver,      \* whose settings these are
  account,     \* the caps the tracker has for the account
  present,     \* the instance exists
  stored,      \* its settings
  engines,     \* every engine built: what it remembers, and the settings it was built from
  cachedEngine, \* the one requests use, 0 for none
  evicting,    \* an operator write has committed and not evicted yet
  work,        \* each worker's engine and the writes it has left
  edit,        \* the transaction of an operator write: what it read and wants
  lastToken,   \* tokens so far
  losses,
  choices,     \* history: how often the operator chose what drivers write
  newest,      \* history: the token that came up last
  behind,      \* history: why the stored token may be an older one
  wrong        \* history: writes that replaced what the driver had seen the operator choose

writeBackVars == <<driver, account, present, stored, engines, cachedEngine, evicting, work, edit,
                   lastToken, losses, choices, newest, behind, wrong>>

Found == 1
Typed == 2
Cap == {"query", "grab"}
Mark(cap) == IF cap = "query" THEN "querySource" ELSE "grabSource"
Name == {"token", "passkey", "unit"} \cup Cap \cup {Mark(c) : c \in Cap}
Unset == [n \in Name |-> 0]

NoWork == [pc |-> "idle", engine |-> 0, todo |-> <<>>, seeded |-> FALSE]
Write(name, value) == [name |-> name, value |-> value]

(* What a new instance has.                                                *)
NewSettings(token) ==
  [Unset EXCEPT !["token"] = IF driver = "rotating" THEN token ELSE 0]

WriteBacksInit ==
  /\ driver \in {"rotating", "seeding", "learning"}
  /\ account \in IF driver = "seeding" THEN [Cap -> {0, Found}] ELSE {[c \in Cap |-> 0]}
  /\ present = TRUE /\ stored = NewSettings(1)
  /\ engines = <<>> /\ cachedEngine = 0 /\ evicting = FALSE
  /\ work = [w \in Worker |-> NoWork] /\ edit = NoEdit
  /\ lastToken = 1 /\ losses = 0
  /\ choices = 0 /\ newest = stored["token"] /\ behind = {} /\ wrong = {}

tokenVars == <<lastToken, newest, behind>>
instanceVars == <<driver, account, present, edit, losses, choices, evicting>>

-----------------------------------------------------------------------------
(* Engines.                                                                *)

Credential == stored[IF driver = "rotating" THEN "token" ELSE "passkey"]
readBudgetLimits == IF driver = "seeding" THEN stored ELSE Unset
BuildEngine == Append(engines, [mem |-> Credential, limits |-> readBudgetLimits, built |-> choices])

(* A driver that has its passkey does not ask for it, one whose caps are    *)
(* both set has nothing to find.                                            *)
seedable(limits) == \E c \in Cap : limits[c] = 0

AskTracker(w, e) == work' = [work EXCEPT ![w] = [NoWork EXCEPT !.pc = "asked", !.engine = e]]

Search(w) ==
  /\ present /\ work[w] = NoWork /\ driver \in {"rotating", "learning"}
  /\ IF cachedEngine = 0
       THEN /\ Len(engines) < MaxBuild
            /\ engines' = BuildEngine /\ cachedEngine' = Len(engines')
       ELSE UNCHANGED <<engines, cachedEngine>>
  /\ driver = "learning" => engines'[cachedEngine'].mem = 0
  /\ AskTracker(w, cachedEngine')
  /\ UNCHANGED <<instanceVars, stored, tokenVars, wrong>>

(* A test runs on an engine of its own, and asks for the passkey again.     *)
Test(w) ==
  /\ present /\ work[w] = NoWork /\ Len(engines) < MaxBuild
  /\ driver = "seeding" => seedable(readBudgetLimits)
  /\ engines' = BuildEngine /\ AskTracker(w, Len(engines'))
  /\ UNCHANGED <<instanceVars, stored, cachedEngine, tokenVars, wrong>>

-----------------------------------------------------------------------------
(* What a driver learns from an answer, and the writes that follow.        *)

Pending(w) == \E i \in DOMAIN work[w].todo : work[w].todo[i].name = "token"
Quiet == \A w \in Worker : ~Pending(w)

Continue(w, writes) ==
  work' = [work EXCEPT ![w] = IF writes = <<>> THEN NoWork
                              ELSE [@ EXCEPT !.pc = "persist", !.todo = writes]]

(* Credential under the driver's mutex, stored after it was released.       *)
captureRotatedMamID(w) ==
  /\ driver = "rotating" /\ work[w].pc = "asked" /\ lastToken < MaxToken
  /\ lastToken' = lastToken + 1 /\ newest' = lastToken'
  /\ engines' = [engines EXCEPT ![work[w].engine].mem = lastToken']
  /\ Continue(w, <<Write("token", lastToken')>>)
  /\ behind' = behind \cup IF Quiet THEN {} ELSE {"overlapping"}
  /\ UNCHANGED <<instanceVars, stored, cachedEngine, wrong>>

(* storePasskey: an account has one passkey.                                *)
LearnPasskey(w) ==
  /\ driver = "learning" /\ work[w].pc = "asked"
  /\ Continue(w, <<Write("passkey", Found)>>)
  /\ UNCHANGED <<instanceVars, stored, engines, cachedEngine, tokenVars, wrong>>

shouldSeed(current, discovered) == discovered > 0 /\ current = 0

(* The mark goes first, then the cap; the unit when the operator chose none. *)
seedLimit(limits, cap) ==
  IF shouldSeed(limits[cap], account[cap])
    THEN <<Write(Mark(cap), Found), Write(cap, account[cap])>> ELSE <<>>
seedBudget(limits) ==
  LET seeds == seedLimit(limits, "query") \o seedLimit(limits, "grab")
  IN IF seeds = <<>> \/ limits["unit"] # 0 THEN seeds ELSE Append(seeds, Write("unit", Found))

SeedBudget(w) ==
  /\ driver = "seeding" /\ work[w].pc = "asked"
  /\ Continue(w, seedBudget(engines[work[w].engine].limits))
  /\ UNCHANGED <<instanceVars, stored, engines, cachedEngine, tokenVars, wrong>>

(* The request failed, or there was nothing new in the answer.              *)
NothingLearned(w) ==
  /\ work[w].pc = "asked" /\ Continue(w, <<>>)
  /\ UNCHANGED <<instanceVars, stored, engines, cachedEngine, tokenVars, wrong>>

-----------------------------------------------------------------------------
(* persistSetting: one upsert on the only connection.                      *)

DbFreeAlways == edit = edit         \* mutant: the update reads outside its transaction
DbFree == edit = NoEdit

Outdated(w) == engines[work[w].engine].built < choices

PersistSetting(w) ==
  /\ work[w].pc = "persist" /\ DbFree /\ present
  /\ LET write == Head(work[w].todo)
         rest == Tail(work[w].todo)
     IN /\ stored' = [stored EXCEPT ![write.name] = write.value]
        /\ work' = [work EXCEPT ![w] =
             IF rest = <<>> THEN NoWork
             ELSE [work[w] EXCEPT !.todo = rest, !.seeded = @ \/ write.name \in Cap]]
        /\ engines' = IF write.name = "passkey"
                        THEN [engines EXCEPT ![work[w].engine].mem = write.value] ELSE engines
        /\ wrong' = IF write.name \in Cap \cup {"unit"} /\ stored[write.name] = Typed
                       /\ ~Outdated(w)
                      THEN wrong \cup {write.name} ELSE wrong
        /\ behind' = IF Outdated(w) THEN behind \cup {"superseded"}
                     ELSE IF write.name = "token" /\ write.value = newest
                             /\ \A v \in Worker \ {w} : ~Pending(v)
                       THEN {} ELSE behind
  /\ UNCHANGED <<instanceVars, cachedEngine, lastToken, newest>>

(* A cap whose mark was not written is not written either; without a cap,   *)
(* neither is the unit.                                                     *)
AfterFailure(w) ==
  LET write == Head(work[w].todo)
      marks == {Mark(c) : c \in Cap}
      rest == IF write.name \in marks THEN Tail(Tail(work[w].todo)) ELSE Tail(work[w].todo)
  IN IF ~work[w].seeded /\ rest # <<>> /\ Head(rest).name = "unit" THEN <<>> ELSE rest

(* Best-effort; the instance may be gone, or the caller's context over.     *)
PersistFails(w) ==
  /\ work[w].pc = "persist" /\ DbFree
  /\ Continue(w, AfterFailure(w))
  /\ behind' = IF Pending(w) THEN behind \cup {"failed"} ELSE behind
  /\ UNCHANGED <<instanceVars, stored, engines, cachedEngine, lastToken, newest, wrong>>

-----------------------------------------------------------------------------
(* The operator.                                                           *)

(* A field that is masked or left out is not in the patch; none of these is *)
(* required.                                                                *)
Patched(names, value) == [n \in names |-> value]
UpdateParams ==
  {Patched({}, 0)} \cup
  CASE driver = "rotating" -> {Patched({"token"}, t) : t \in {0, lastToken + 1}}
    [] driver = "seeding" -> {Patched({n}, v) : n \in {"query", "unit"}, v \in {0, Typed}}
    [] OTHER -> {}

mergeSettings(existing, incoming) ==
  [n \in DOMAIN existing |-> IF n \in DOMAIN incoming THEN incoming[n] ELSE existing[n]]

UpdateBegins(patch) ==
  /\ present /\ edit = NoEdit /\ ~evicting /\ choices < MaxChoice
  /\ "token" \in DOMAIN patch => lastToken < MaxToken
  /\ edit' = [read |-> stored, patch |-> patch]
  /\ UNCHANGED <<driver, account, present, losses, choices, evicting, stored, engines, cachedEngine,
                 work, tokenVars, wrong>>

Chosen(token) ==
  /\ newest' = token /\ behind' = {}
  /\ lastToken' = IF token > lastToken THEN token ELSE lastToken

UpdateCommits ==
  LET merged == mergeSettings(edit.read, edit.patch) IN
  /\ edit # NoEdit /\ edit' = NoEdit
  /\ stored' = merged /\ evicting' = TRUE
  /\ choices' = IF DOMAIN edit.patch = {} THEN choices ELSE choices + 1
  /\ IF "token" \in DOMAIN edit.patch THEN Chosen(merged["token"]) ELSE UNCHANGED tokenVars
  /\ UNCHANGED <<driver, account, present, losses, engines, cachedEngine, work, wrong>>

(* A read or a write of the transaction failed.                             *)
UpdateRollsBack ==
  /\ edit # NoEdit /\ edit' = NoEdit
  /\ UNCHANGED <<driver, account, present, losses, choices, evicting, stored, engines, cachedEngine,
                 work, tokenVars, wrong>>

EvictEngine ==
  /\ evicting /\ evicting' = FALSE /\ cachedEngine' = 0
  /\ UNCHANGED <<driver, account, present, losses, choices, edit, stored, engines, work, tokenVars,
                 wrong>>

RemoveInstance ==
  /\ present /\ DbFree /\ ~evicting /\ choices < MaxChoice
  /\ present' = FALSE /\ stored' = Unset /\ evicting' = TRUE
  /\ UNCHANGED <<driver, account, losses, choices, edit, engines, cachedEngine, work, tokenVars,
                 wrong>>

(* The next instance, under the id of the one that is gone.                 *)
AddInstance ==
  /\ ~present /\ ~evicting /\ lastToken < MaxToken
  /\ present' = TRUE /\ choices' = choices + 1
  /\ stored' = NewSettings(lastToken + 1) /\ Chosen(stored'["token"])
  /\ UNCHANGED <<driver, account, losses, edit, evicting, engines, cachedEngine, work, wrong>>

(* A crash: what was captured and not stored yet is lost.                   *)
Restart ==
  /\ losses < MaxLoss /\ losses' = losses + 1
  /\ engines' = <<>> /\ cachedEngine' = 0 /\ evicting' = FALSE /\ edit' = NoEdit
  /\ work' = [w \in Worker |-> NoWork]
  /\ behind' = IF Quiet THEN behind ELSE behind \cup {"lost"}
  /\ UNCHANGED <<driver, account, present, choices, stored, lastToken, newest, wrong>>

WriteBacksNext ==
  \/ \E w \in Worker :
       \/ Search(w) \/ Test(w) \/ captureRotatedMamID(w) \/ LearnPasskey(w) \/ SeedBudget(w)
       \/ NothingLearned(w) \/ PersistSetting(w) \/ PersistFails(w)
  \/ \E patch \in UpdateParams : UpdateBegins(patch)
  \/ UpdateCommits \/ UpdateRollsBack \/ EvictEngine \/ RemoveInstance \/ AddInstance \/ Restart

WriteBacksSpec == WriteBacksInit /\ [][WriteBacksNext]_writeBackVars

-----------------------------------------------------------------------------
WriteBacksTypeOK ==
  /\ driver \in {"rotating", "seeding", "learning"} /\ account \in [Cap -> {0, Found}]
  /\ present \in BOOLEAN /\ stored \in [Name -> Nat] /\ evicting \in BOOLEAN
  /\ engines \in Seq([mem : Nat, limits : [Name -> Nat], built : 0 .. MaxChoice])
  /\ cachedEngine \in 0 .. Len(engines)
  /\ work \in [Worker -> [pc : {"idle", "asked", "persist"}, engine : 0 .. Len(engines),
                          todo : Seq([name : Name, value : Nat]), seeded : BOOLEAN]]
  /\ edit = NoEdit \/ (edit.read \in [Name -> Nat] /\ DOMAIN edit.patch \subseteq Name)
  /\ {lastToken, losses, choices, newest} \subseteq Nat
  /\ behind \subseteq {"overlapping", "superseded", "failed", "lost"}
  /\ wrong \subseteq Cap \cup {"unit"}

(* Once no write is under way, the stored token is the one that came up last, *)
(* whatever updates, tests and restarts came in between: only two answers    *)
(* captured at the same time, an engine the operator has replaced the token  *)
(* under, a write that failed and a crash before one leave an older token    *)
(* there.                                                                    *)
TokenKept ==
  driver = "rotating" /\ present /\ Quiet /\ behind = {} => stored["token"] = newest

(* A cap that was found has its mark, also when the writes were cut off      *)
(* between the two, so that a cap without one was typed.                     *)
SeedMarked ==
  \A c \in Cap : stored[c] = Found /\ "superseded" \notin behind => stored[Mark(c)] = Found

(* What a live engine has learned survives a restart.                       *)
LearnedIsStored ==
  driver = "learning" /\ present /\ cachedEngine # 0 /\ engines[cachedEngine].built = choices
    /\ engines[cachedEngine].mem # 0 => stored["passkey"] # 0

(* The two writers of the settings do not undo each other (Manager.Update,   *)
(* persistSetting): the token that came up last stays, no seed replaces what *)
(* the operator had chosen when the test began, a found cap is marked, and a *)
(* learned passkey is stored.                                                *)
WriteBacksKept == TokenKept /\ wrong = {} /\ SeedMarked /\ LearnedIsStored
=============================================================================
