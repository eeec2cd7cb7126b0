---------------------------- MODULE AdapterCache ----------------------------
(***************************************************************************)
(* What the engine cache of the registry promises, without saying how: an   *)
(* instance's configuration is a vector of committed versions, and at most  *)
(* one built engine is installed for it.  A mutation commits first and is   *)
(* SETTLED later, by the eviction that follows it.  Whatever is installed   *)
(* has read every part of the configuration that was settled when it was    *)
(* installed, and an eviction always removes what it supersedes.            *)
(***************************************************************************)
EXTENDS Naturals

CONSTANTS Part,     \* the parts of a configuration a build reads one by one
          None      \* no engine

VARIABLES
  config,    \* config[p]: the committed version of part p
  commits,   \* how many commits there have been; the source of versions
  settled,   \* settled[p]: the version of p at the last eviction
  installed  \* None, or the versions the installed engine was built from

vars == <<config, commits, settled, installed>>

Init == /\ config = [p \in Part |-> 0]
        /\ commits = 0
        /\ settled = [p \in Part |-> 0]
        /\ installed = None

(* A durable write of some parts of the configuration. *)
Commit == /\ commits' = commits + 1
          /\ \E S \in SUBSET Part :
               config' = [p \in Part |-> IF p \in S THEN commits + 1 ELSE config[p]]
          /\ UNCHANGED <<settled, installed>>

(* An eviction: everything committed so far is settled. *)
Evict == /\ settled' = config
         /\ installed' = None
         /\ UNCHANGED <<config, commits>>

(* Versions an engine may be installed with: nothing settled is missed. *)
Entitled == { v \in [Part -> 0 .. commits] :
                \A p \in Part : settled[p] <= v[p] /\ v[p] <= config[p] }

Install == /\ installed = None
           /\ installed' \in Entitled
           /\ UNCHANGED <<config, commits, settled>>

Next == Commit \/ Evict \/ Install

Spec == Init /\ [][Next]_vars
=============================================================================
