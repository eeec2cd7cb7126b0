------------------------------- MODULE Expiry -------------------------------
(***************************************************************************)
(* The countdown of one indexer's membership (notify/expiry.go): a periodic  *)
(* scan compares the date an operator entered with the lead times, and keeps  *)
(* on the indexer's row which lead time fired, and for which date.  It marks  *)
(* before it sends, so that a crash costs a warning and never repeats one.   *)
(*                                                                          *)
(* A date is a day; NoDate is the empty column or a lifetime membership.      *)
(***************************************************************************)
EXTENDS Integers, FiniteSets

CONSTANTS
  Date,        \* the days an operator enters
  LeadTimes,   \* the lists of lead times an operator configures, without the 0
  LastDay,     \* bound on the clock
  MaxEdit,     \* bound on the operator's edits
  MaxCrash     \* bound on restarts

NoDate == -1
ASSUME ExpiryAssumption ==
  /\ Date \subseteq Nat /\ \A list \in LeadTimes : list \subseteq Nat
  /\ {LastDay, MaxEdit, MaxCrash} \subseteq Nat

VARIABLES
  today,
  expiresAt,    \* expires_at of the row
  notified,     \* expiry_notified_for and expiry_notified_days
  thresholds,   \* the effective lead times
  scan,         \* TickOnce: its progress, and the row it read
  edits, crashes,
  warned,       \* history: the last lead time sent since the date was entered
  lapsed,       \* history: the dates whose last warning was sent, or marked and lost
  again         \* history: a warning was sent that was no more urgent than the last

expiryVars == <<today, expiresAt, notified, thresholds, scan, edits, crashes, warned, lapsed, again>>

NotYet == -1
IdleScan == [pc |-> "idle", date |-> NoDate, mark |-> [for |-> NoDate, days |-> 0], due |-> 0]

ExpiryTypeOK ==
  /\ today \in Nat
  /\ expiresAt \in Date \cup {NoDate}
  /\ notified \in [for : Date \cup {NoDate}, days : Nat]
  /\ thresholds \in SUBSET Nat /\ 0 \in thresholds
  /\ scan \in [pc : {"idle", "row", "mark", "send"}, date : Date \cup {NoDate},
               mark : [for : Date \cup {NoDate}, days : Nat], due : Nat]
  /\ edits \in Nat /\ crashes \in Nat /\ warned \in Nat \cup {NotYet}
  /\ lapsed \subseteq Date /\ again \in BOOLEAN

(* ParseExpiryThresholds and its caller append the warning of the day itself. *)
ParseUnamended(list) == IF list = {} THEN {0} ELSE list   \* bug for the mutants
ParseExpiryThresholds(list) == list \cup {0}

ExpiryInit ==
  /\ today = 0
  /\ expiresAt = NoDate /\ notified = [for |-> NoDate, days |-> 0]
  /\ thresholds = ParseExpiryThresholds({})
  /\ scan = IdleScan
  /\ edits = 0 /\ crashes = 0
  /\ warned = NotYet /\ lapsed = {} /\ again = FALSE

-----------------------------------------------------------------------------
(* dueThreshold: the smallest lead time that is reached. *)
Reached(days) == {t \in thresholds : days <= t}
dueThreshold(days) == CHOOSE t \in Reached(days) : \A u \in Reached(days) : t <= u

(* TickOnce reads the rows that have a date ... *)
ScanRows ==
  /\ scan.pc = "idle" /\ expiresAt # NoDate
  /\ scan' = [IdleScan EXCEPT !.pc = "row", !.date = expiresAt, !.mark = notified]
  /\ UNCHANGED <<today, expiresAt, notified, thresholds, edits, crashes, warned, lapsed, again>>

(* ... and then the lead times and the clock, for check to compare. *)
AlreadyLater(due) == scan.mark.for = scan.date /\ scan.mark.days < due   \* bug for the mutants
AlreadyWarned(due) == scan.mark.for = scan.date /\ scan.mark.days <= due
CheckRow ==
  LET days == scan.date - today
      due == dueThreshold(days) IN
  /\ scan.pc = "row"
  /\ scan' = IF Reached(days) = {} \/ AlreadyWarned(due) THEN IdleScan
             ELSE [scan EXCEPT !.pc = "mark", !.due = due]
  /\ UNCHANGED <<today, expiresAt, notified, thresholds, edits, crashes, warned, lapsed, again>>

(* MarkExpiryNotified comes first; when it fails nothing is sent. *)
MarkExpiryNotified ==
  /\ scan.pc = "mark"
  /\ notified' = [for |-> scan.date, days |-> scan.due]
  /\ scan' = [scan EXCEPT !.pc = "send"]
  /\ UNCHANGED <<today, expiresAt, thresholds, edits, crashes, warned, lapsed, again>>
MarkFails ==
  /\ scan.pc = "mark"
  /\ scan' = IdleScan
  /\ UNCHANGED <<today, expiresAt, notified, thresholds, edits, crashes, warned, lapsed, again>>

(* dispatch, in line, whatever became of the date; the read of the targets    *)
(* may fail, and the warning is gone.                                        *)
Spent == lapsed' = IF scan.pc = "send" /\ scan.due = 0 THEN lapsed \cup {scan.date} ELSE lapsed
SendWarning ==
  /\ scan.pc = "send"
  /\ scan' = IdleScan
  /\ Spent
  /\ \/ UNCHANGED <<warned, again>>
     \/ IF scan.date = expiresAt
        THEN /\ warned' = scan.due
             /\ again' = (again \/ (warned # NotYet /\ scan.due >= warned))
        ELSE UNCHANGED <<warned, again>>
  /\ UNCHANGED <<today, expiresAt, notified, thresholds, edits, crashes>>

-----------------------------------------------------------------------------
NextDay ==
  /\ today < LastDay /\ today' = today + 1
  /\ UNCHANGED <<expiresAt, notified, thresholds, scan, edits, crashes, warned, lapsed, again>>

(* UpdateMeta leaves the ledger alone: another date re-arms it by itself.    *)
EditDate(d) ==
  /\ edits < MaxEdit /\ edits' = edits + 1
  /\ d # expiresAt /\ expiresAt' = d
  /\ warned' = NotYet
  /\ UNCHANGED <<today, notified, thresholds, scan, crashes, lapsed, again>>

SetExpiryThresholds(list) ==
  /\ edits < MaxEdit /\ edits' = edits + 1
  /\ thresholds' = ParseExpiryThresholds(list)
  /\ UNCHANGED <<today, expiresAt, notified, scan, crashes, warned, lapsed, again>>

ExpiryRestart ==
  /\ crashes < MaxCrash /\ crashes' = crashes + 1
  /\ scan' = IdleScan
  /\ Spent
  /\ UNCHANGED <<today, expiresAt, notified, thresholds, edits, warned, again>>

ExpiryNext ==
  \/ ScanRows \/ CheckRow \/ MarkExpiryNotified \/ MarkFails \/ SendWarning
  \/ NextDay \/ ExpiryRestart
  \/ \E d \in Date \cup {NoDate} : EditDate(d)
  \/ \E list \in LeadTimes : SetExpiryThresholds(list)

(* The scan runs every hour (reap), and its write succeeds now and then.     *)
WeakExpiryFairness ==
  /\ WF_expiryVars(ScanRows) /\ WF_expiryVars(CheckRow) /\ WF_expiryVars(SendWarning)
ExpiryFairness == WeakExpiryFairness /\ SF_expiryVars(MarkExpiryNotified)

ExpirySpec == ExpiryInit /\ [][ExpiryNext]_expiryVars
FairExpirySpec == ExpirySpec /\ ExpiryFairness

-----------------------------------------------------------------------------
(* As long as a date stands, every warning sent for it is more urgent than the *)
(* one before: none is repeated, by an hourly scan, a restart, other lead     *)
(* times, or a scan that read the row before an edit (check, and "exactly-once *)
(* ... comes from the persisted ledger").                                     *)
NeverWarnedAgain == ~again

(* A date that has passed is announced, unless its announcement was attempted *)
(* and lost; a renewal re-arms every warning by itself                        *)
(* (ParseExpiryThresholds: 0 "is ALWAYS present"; MarkExpiryNotified).         *)
LapseAnnounced == \A d \in Date :
  (expiresAt = d /\ today >= d) ~> (d \in lapsed \/ expiresAt # d)
=============================================================================
