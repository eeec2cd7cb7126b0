------------------------------ MODULE MCDaemon ------------------------------
(***************************************************************************)
(* Instance for TLC of the three components whose progress is checked: the *)
(* circuit breaker, the shutdown and the expiry warnings. They share no    *)
(* state; one of them moves in each behaviour, and the others stay where   *)
(* they start, where no fair action of theirs is enabled.                  *)
(***************************************************************************)
EXTENDS MCCircuit, Shutdown, Expiry

CONSTANTS c1, c2, r1, r2  \* the two calls, and the two units of work

VARIABLE moving

daemonVars == <<moving, vars, shutdownVars, expiryVars>>

Lists == {{}, {1}, {2}}

DaemonInit ==
  /\ moving \in {"circuit", "shutdown", "expiry"}
  /\ Init /\ ShutdownInit /\ ExpiryInit

DaemonNext ==
  /\ UNCHANGED moving
  /\ \/ moving = "circuit" /\ Next /\ UNCHANGED <<shutdownVars, expiryVars>>
     \/ moving = "shutdown" /\ ShutdownNext /\ UNCHANGED <<vars, expiryVars>>
     \/ moving = "expiry" /\ ExpiryNext /\ UNCHANGED <<vars, shutdownVars>>

OfCircuit(A) == moving = "circuit" /\ A /\ UNCHANGED <<moving, shutdownVars, expiryVars>>
OfShutdown(A) == moving = "shutdown" /\ A /\ UNCHANGED <<moving, vars, expiryVars>>
OfExpiry(A) == moving = "expiry" /\ A /\ UNCHANGED <<moving, vars, shutdownVars>>

(* The fairness of the three: Fairness, ShutdownFairness, ExpiryFairness.  As   *)
(* only one of them moves, strong fairness to one action or another is strong *)
(* fairness to each, and the conjuncts that TLC splits are two instead of five. *)
DaemonFairness ==
  /\ \A c \in Call : WF_vars(Finish(c))
  /\ WeakShutdownFairness /\ WeakExpiryFairness
  /\ SF_daemonVars(OfCircuit(Take(c1)) \/ OfShutdown(FlushFinal) \/ OfExpiry(MarkExpiryNotified))
  /\ SF_daemonVars(OfCircuit(Take(c2)) \/ OfShutdown(ScanStops))

DaemonSpec ==
  /\ DaemonInit /\ [][DaemonNext]_daemonVars
  /\ DaemonFairness

(* The two units of work are alike: only behaviours in which r1 begins first   *)
(* are looked at, as a request.                                             *)
InOrder == work[r2] # "new" => work[r1] # "new" /\ origin[r1] = "request"
Bounds == NotRecycled /\ InOrder

DaemonTypeOK == TypeOK /\ ShutdownTypeOK /\ ExpiryTypeOK
=============================================================================
