------------------------------ MODULE Announce ------------------------------
(***************************************************************************)
(* The announce tap: every write-back of an indexer's RSS page compares the  *)
(* page with the row it is about to overwrite and with a window of releases  *)
(* observed lately, and hands what is new to a bounded queue in front of a   *)
(* pool of workers (registry/searchcache_announce.go, storeBestEffort,       *)
(* app.newAnnounceSink).  A miss and a background refresh of the same page   *)
(* can write back at once; the row outlives a restart, the window does not.  *)
(*                                                                          *)
(* A release is its GUID and tapClock counts windows in steps; how a worker     *)
(* talks to its targets is left out, since nothing comes back from it.  The   *)
(* epoch of storeBestEffort is SearchCache's: here a purge is a row that is   *)
(* lost, and a write-back the first gate refuses never starts.               *)
(***************************************************************************)
EXTENDS Integers, FiniteSets

CONSTANTS
  Fill,        \* write-backs of the page that can be in progress at once
  Guid,        \* releases
  Window,      \* announceDedupWindow
  MaxSeen,     \* announceDedupMax
  QueueCap,    \* announcePushQueueCapacity
  MaxTapClock,    \* bound on the clock
  MaxAnnFault  \* bound on failing statements and restarts

ASSUME AnnounceAssumption ==
  /\ IsFiniteSet(Guid)
  /\ Window \in Nat \ {0} /\ MaxSeen \in Nat
  /\ {QueueCap, MaxTapClock, MaxAnnFault} \subseteq Nat

NoFill == [pc |-> "none", page |-> {}, todo |-> {}, prior |-> {}, out |-> {}]

VARIABLES
  tapClock,
  row,        \* the cached page, empty when there is none
  seenAt,     \* announceWindow: when a release was observed last
  fill,       \* the write-backs
  queued,     \* jobs that wait for a worker
  annFaults,
  observed,   \* history: when a release was observed last, since the start of the process
  chosen,     \* history: releases found new
  dropped,    \* history: releases found new and dropped for backpressure
  repeated,   \* history: releases found new again although they were remembered
  silenced,   \* history: releases suppressed although they never were new
  missed      \* history: dropped releases that a later page showed, and that were suppressed

annHistory == <<observed, chosen, dropped, repeated, silenced, missed>>
announceVars == <<tapClock, row, seenAt, fill, queued, annFaults, annHistory>>

AnnounceInit ==
  /\ tapClock = 0 /\ row = {}
  /\ seenAt = << >>
  /\ fill = [f \in Fill |-> NoFill]
  /\ queued = 0 /\ annFaults = 0
  /\ observed = << >>
  /\ chosen = {} /\ dropped = {} /\ repeated = {} /\ silenced = {} /\ missed = {}

FillAt(f, pc) == fill[f].pc = pc
AnnFault == annFaults < MaxAnnFault /\ annFaults' = annFaults + 1
Marked(at, g) == [h \in DOMAIN at \cup {g} |-> IF h = g THEN tapClock ELSE at[h]]
Within(at, g) == g \in DOMAIN at /\ tapClock - at[g] < Window
Only(at, S) == [g \in DOMAIN at \cap S |-> at[g]]

-----------------------------------------------------------------------------
(* storeBestEffort has a page: an empty one is not tapped, for another one the *)
(* prior row is read, or taken for empty when the read fails.                *)
PriorOverwritten(page) == row \cup page               \* bug for the mutants
priorGUIDs(page) == row

TapReads(f, page) ==
  /\ FillAt(f, "none")
  /\ \E prior \in {priorGUIDs(page), {}} :
       /\ IF prior = priorGUIDs(page) THEN UNCHANGED annFaults ELSE AnnFault
       /\ fill' = [fill EXCEPT ![f] =
            IF page = {} THEN [NoFill EXCEPT !.pc = "store"]
            ELSE [pc |-> "mark", page |-> page, todo |-> page, prior |-> prior, out |-> {}]]
  /\ UNCHANGED <<tapClock, row, seenAt, queued, annHistory>>

(* pruneLocked: what is older than the window goes first, then the oldest,   *)
(* whichever the sort puts first when their times are equal.                *)
pruneLocked(at, kept) ==
  LET live == {g \in DOMAIN at : tapClock - at[g] < Window} IN
  IF Cardinality(DOMAIN at) <= MaxSeen THEN kept = DOMAIN at
  ELSE IF Cardinality(live) <= MaxSeen THEN kept = live
  ELSE /\ kept \subseteq live /\ Cardinality(kept) = MaxSeen
       /\ \A g \in kept, h \in live \ kept : at[h] <= at[g]

(* tapAnnounce, one release: seenAndMark is one critical section, and marks   *)
(* the releases that the prior row suppressed, too.                         *)
MarkedUnlessPrior(at, g, prior) ==                    \* bug for the mutants
  IF g \in prior THEN at ELSE Marked(at, g)
seenAndMark(at, g, prior) == Marked(at, g)

Suppressed(f, g) == g \in fill[f].prior \/ Within(seenAt, g)

TapRelease(f, g) ==
  LET marked == seenAndMark(seenAt, g, fill[f].prior)
      new == ~Suppressed(f, g)
      todo == fill[f].todo \ {g}
      out == fill[f].out \cup (IF new THEN {g} ELSE {})
      pc == IF todo # {} THEN "mark" ELSE IF out # {} THEN "hand" ELSE "store" IN
  /\ FillAt(f, "mark") /\ g \in fill[f].todo
  /\ fill' = [fill EXCEPT ![f] = [pc |-> pc, page |-> @.page, todo |-> todo, out |-> out,
                                 prior |-> IF pc = "mark" THEN @.prior ELSE {}]]
  /\ \E kept \in SUBSET DOMAIN marked :
       /\ pruneLocked(marked, kept)
       /\ seenAt' = Only(marked, kept)
       /\ observed' = IF kept = DOMAIN marked THEN Marked(observed, g)
                      ELSE Only(Marked(observed, g), kept)
  /\ chosen' = IF new THEN chosen \cup {g} ELSE chosen
  /\ repeated' = IF new /\ g \in chosen /\ Within(observed, g) THEN repeated \cup {g}
                 ELSE repeated
  /\ silenced' = IF ~new /\ g \notin chosen THEN silenced \cup {g} ELSE silenced
  /\ missed' = IF ~new /\ g \in dropped THEN missed \cup {g} ELSE missed
  /\ dropped' = IF new THEN dropped \ {g} ELSE dropped
  /\ UNCHANGED <<tapClock, row, queued, annFaults>>

(* The sink: the batch waits for a slot of the queue when there is none, and  *)
(* is dropped when the wait is over.                                        *)
Handed(f) == fill' = [fill EXCEPT ![f].pc = "store", ![f].out = {}]
Enqueue(f) ==
  /\ fill[f].pc \in {"hand", "wait"} /\ queued < QueueCap
  /\ queued' = queued + 1
  /\ Handed(f)
  /\ UNCHANGED <<tapClock, row, seenAt, annFaults, annHistory>>

QueueFull(f) ==
  /\ FillAt(f, "hand") /\ queued = QueueCap
  /\ fill' = [fill EXCEPT ![f].pc = "wait"]
  /\ UNCHANGED <<tapClock, row, seenAt, queued, annFaults, annHistory>>

DropBatch(f) ==
  /\ FillAt(f, "wait")
  /\ dropped' = dropped \cup fill[f].out
  /\ Handed(f)
  /\ UNCHANGED <<tapClock, row, seenAt, queued, annFaults, observed, chosen, repeated, silenced,
                 missed>>

(* The upsert, which may fail. *)
StorePage(f) ==
  /\ FillAt(f, "store")
  /\ \/ row' = fill[f].page /\ UNCHANGED annFaults
     \/ AnnFault /\ UNCHANGED row
  /\ fill' = [fill EXCEPT ![f] = NoFill]
  /\ UNCHANGED <<tapClock, seenAt, queued, annHistory>>

-----------------------------------------------------------------------------
(* A worker takes the next job when it is done with the last one. *)
WorkerTakes ==
  /\ queued > 0 /\ queued' = queued - 1
  /\ UNCHANGED <<tapClock, row, seenAt, fill, annFaults, annHistory>>

(* A purge, a flush, a compensated store, or the reaper once the grace of an  *)
(* expired row is over.                                                      *)
LoseRow ==
  /\ row # {} /\ row' = {}
  /\ UNCHANGED <<tapClock, seenAt, fill, queued, annFaults, annHistory>>

(* A write-back is short against a step of the clock. *)
AnnTick ==
  /\ tapClock < MaxTapClock /\ \A f \in Fill : FillAt(f, "none")
  /\ tapClock' = tapClock + 1
  /\ UNCHANGED <<row, seenAt, fill, queued, annFaults, annHistory>>

AnnRestart ==
  /\ AnnFault
  /\ seenAt' = << >> /\ observed' = << >>
  /\ fill' = [f \in Fill |-> NoFill]
  /\ queued' = 0
  /\ UNCHANGED <<tapClock, row, chosen, dropped, repeated, silenced, missed>>

AnnounceNext ==
  \/ \E f \in Fill :
       \/ \E page \in SUBSET Guid : TapReads(f, page)
       \/ Enqueue(f) \/ QueueFull(f) \/ DropBatch(f) \/ StorePage(f)
       \/ \E g \in Guid : TapRelease(f, g)
  \/ WorkerTakes \/ LoseRow \/ AnnTick \/ AnnRestart

AnnounceSpec == AnnounceInit /\ [][AnnounceNext]_announceVars

-----------------------------------------------------------------------------
Time == 0 .. MaxTapClock
FillPc == {"none", "mark", "hand", "wait", "store"}

(* The type of the state of the tap, with the bounds it keeps. *)
AnnounceTypeOK ==
  /\ tapClock \in Time /\ row \subseteq Guid
  /\ DOMAIN seenAt \subseteq Guid /\ \A g \in DOMAIN seenAt : seenAt[g] \in Time
  /\ Cardinality(DOMAIN seenAt) <= MaxSeen
  /\ DOMAIN observed \subseteq Guid /\ \A g \in DOMAIN observed : observed[g] \in Time
  /\ fill \in [Fill -> [pc : FillPc, page : SUBSET Guid, todo : SUBSET Guid,
                        prior : SUBSET Guid, out : SUBSET Guid]]
  /\ queued \in 0 .. QueueCap /\ annFaults \in 0 .. MaxAnnFault
  /\ {chosen, dropped, repeated, silenced, missed} \subseteq SUBSET Guid

(* A release is found new once: not by two write-backs at once, and not again *)
(* as long as it is observed within every window, even when the row that     *)
(* showed it is lost, and also after a restart once a page showed it from the *)
(* row.  And none is suppressed that never was new (tapAnnounce: marks what   *)
(* the prior row suppresses, reads the row before it is overwritten).        *)
AnnouncedOnce == repeated = {} /\ silenced = {}

(* app/adapters.go:156 of a batch dropped for backpressure: "dropping (next   *)
(* RSS poll re-derives)".                                                   *)
DroppedIsRederived == missed = {}
=============================================================================
