------------------------------ MODULE MCLedgers ------------------------------
(***************************************************************************)
(* Instance for TLC of the components that keep a ledger next to what they *)
(* account for: request budgets, cache counters, health, application sync, *)
(* connections and their keys, announcements, backups.  They share no       *)
(* state: one of them moves in each behaviour and the others stay where     *)
(* they start.  The same two processes are the calls, lookups, attempts,    *)
(* syncs, operations and write-backs.                                      *)
(***************************************************************************)
EXTENDS Budget, CacheCounters, Health, AppSync, Connections, Announce, Backup, TLC

VARIABLE moving

ledgersVars == <<moving, vars, counterVars, healthVars, appSyncVars, connVars,
                 announceVars, backupVars>>

(* A daily or an hourly cap, and a day of one hour. *)
Plans == {[unit |-> "day", limit |-> 2], [unit |-> "hour", limit |-> 1]}
Symmetry == Permutations(Call) \cup Permutations(Guid)

Component == {"budget", "counters", "health", "appsync", "connections", "announce",
              "backup"}

(* A component that does not move starts in one state. *)
CountersRest == countersRehydrated /\ misses = 0
AppSyncRests == level = "full"
BackupRests ==
  /\ indexers = Empty /\ profiles[1].kept /\ keys[1] # 0 /\ keys[MaxId] = 0 /\ ~bundle.ready
  /\ \A l \in Link : links[l] = [profile |-> 0, key |-> 1]

LedgersInit ==
  /\ moving \in Component
  /\ Init /\ CountersInit /\ HealthInit /\ AppSyncInit /\ ConnectionsInit
  /\ AnnounceInit /\ BackupInit
  /\ moving # "counters" => CountersRest
  /\ moving # "appsync" => AppSyncRests
  /\ moving # "backup" => BackupRests

LedgersNext ==
  /\ UNCHANGED moving
  /\ \/ /\ moving = "budget" /\ Next
        /\ UNCHANGED <<counterVars, healthVars, appSyncVars, connVars, announceVars,
                       backupVars>>
     \/ /\ moving = "counters" /\ CountersNext
        /\ UNCHANGED <<vars, healthVars, appSyncVars, connVars, announceVars,
                       backupVars>>
     \/ /\ moving = "health" /\ HealthNext
        /\ UNCHANGED <<vars, counterVars, appSyncVars, connVars, announceVars,
                       backupVars>>
     \/ /\ moving = "appsync" /\ AppSyncNext
        /\ UNCHANGED <<vars, counterVars, healthVars, connVars, announceVars,
                       backupVars>>
     \/ /\ moving = "connections" /\ ConnectionsNext
        /\ UNCHANGED <<vars, counterVars, healthVars, appSyncVars, announceVars,
                       backupVars>>
     \/ /\ moving = "announce" /\ AnnounceNext
        /\ UNCHANGED <<vars, counterVars, healthVars, appSyncVars, connVars,
                       backupVars>>
     \/ /\ moving = "backup" /\ BackupNext
        /\ UNCHANGED <<vars, counterVars, healthVars, appSyncVars, connVars,
                       announceVars>>

LedgersSpec == LedgersInit /\ [][LedgersNext]_ledgersVars

(* The type of the state of the component that moves. *)
LedgersTypeOK ==
  /\ moving = "budget" => TypeOK
  /\ moving = "counters" => CountersTypeOK
  /\ moving = "health" => HealthTypeOK
  /\ moving = "appsync" => AppSyncTypeOK
  /\ moving = "connections" => ConnectionsTypeOK
  /\ moving = "announce" => AnnounceTypeOK
  /\ moving = "backup" => BackupTypeOK

(* What tells two states apart: a component at rest is as it started. *)
Differing ==
  <<moving,
    CASE moving = "budget" -> vars
      [] moving = "counters" -> counterVars
      [] moving = "health" -> healthVars
      [] moving = "appsync" -> appSyncVars
      [] moving = "connections" -> connVars
      [] moving = "announce" -> announceVars
      [] moving = "backup" -> backupVars>>

(* The properties of Budget say nothing once something was excused, those of  *)
(* Health once the answer of an attempt was masked: no need to go on.         *)
Telling == excused = {} /\ ~masked
=============================================================================
