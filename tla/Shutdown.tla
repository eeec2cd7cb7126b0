------------------------------ MODULE Shutdown ------------------------------
(***************************************************************************)
(* The daemon from the signal to its exit (app.App.Run, app/lifecycle.go,    *)
(* server.Server.Serve) with what it joins on the way - the handlers of the  *)
(* HTTP server, the maintenance goroutines (reap), the detached notifications *)
(* (notify.Service: dispatchHealthAsync, the drain gate and Drain) - and what *)
(* nobody joins: the refreshes of a stale cache entry (SearchCache.triggerSWR) *)
(* and the pool of announce workers (newAnnounceSink).                       *)
(*                                                                          *)
(* What a search counts is kept in memory; one maintenance goroutine takes   *)
(* the counts out and adds them to the database (IndexerStats.FlushCounters  *)
(* with its category deltas).  Those without a last flush are one here: a     *)
(* tick of it is an expiry scan, which dispatches in line, or a warm search.  *)
(***************************************************************************)
EXTENDS Naturals, FiniteSets

CONSTANTS
  Work,      \* searches, ticks of the scanner, announcements of what was found
  Subject    \* what a message is about: an indexer and a kind of event

ASSUME WorkAssumption == IsFiniteSet(Work)

VARIABLES
  ctxDone,    \* the context of Run is cancelled: a signal came
  main,       \* how far Run is
  bgCancel,   \* the context of the maintenance goroutines is cancelled by Run itself
  work,       \* work[r]: the progress of unit r
  origin,     \* origin[r]: whose r is
  subject,    \* subject[r]: what the message of r is about
  readers,    \* holders of drainMu's read lock
  draining,   \* the gate of dispatchHealthAsync
  dispatchWG, \* units whose message has a goroutine that the WaitGroup counts
  waiter,     \* Drain's goroutine in dispatchWG.Wait
  told,       \* lastHealthNotify: subjects within their cooldown
  flusher, scanner,     \* the maintenance goroutines
  pending, taken, stored,   \* counts in memory, in the flusher's hands, and in the database
  counted,    \* history: counts made
  early,      \* history: counts made before the signal
  unwritten,  \* history: a final flush failed
  gaveUp,     \* history: what was abandoned, of handlers and sends
  stray,      \* history: searches whose message was accepted after Drain returned
  messages    \* history: messages accepted in the current window, of each subject

bornVars == <<origin, subject>>
drainVars == <<readers, draining, dispatchWG, waiter>>
countVars == <<flusher, pending, taken, stored, unwritten>>
shutdownVars == <<ctxDone, main, bgCancel, work, bornVars, drainVars, told, scanner,
                  countVars, counted, early, gaveUp, stray, messages>>

WorkPc == {"new", "working", "reporting", "gate", "adding", "pushing", "done"}

ShutdownTypeOK ==
  /\ ctxDone \in BOOLEAN /\ bgCancel \in BOOLEAN
  /\ draining \in BOOLEAN /\ unwritten \in BOOLEAN
  /\ main \in {"serving", "stopping", "join", "drain", "wait", "reopen", "close", "closed"}
  /\ work \in [Work -> WorkPc]
  /\ origin \in [Work -> {"request", "tick", "refresh", "job"}]
  /\ subject \in [Work -> Subject]
  /\ readers \subseteq Work
  /\ dispatchWG \subseteq Work
  /\ waiter \in {"none", "waiting", "done"}
  /\ told \subseteq Subject
  /\ flusher \in {"wait", "write", "final", "done"}
  /\ scanner \in {"run", "done"}
  /\ pending \in Nat /\ taken \in Nat /\ stored \in Nat
  /\ counted \in Nat /\ early \in Nat
  /\ messages \in [Subject -> Nat]
  /\ gaveUp \subseteq {"handlers", "sends"}
  /\ stray \subseteq Work

ShutdownInit ==
  /\ ctxDone = FALSE /\ main = "serving" /\ bgCancel = FALSE
  /\ work = [r \in Work |-> "new"]
  /\ origin = [r \in Work |-> "request"]
  /\ subject = [r \in Work |-> CHOOSE s \in Subject : TRUE]
  /\ readers = {} /\ draining = FALSE /\ dispatchWG = {}
  /\ waiter = "none"
  /\ told = {}
  /\ flusher = "wait" /\ scanner = "run"
  /\ pending = 0 /\ taken = 0 /\ stored = 0 /\ counted = 0 /\ early = 0
  /\ unwritten = FALSE /\ gaveUp = {} /\ stray = {}
  /\ messages = [s \in Subject |-> 0]

bgDoneBySignal == ctxDone                          \* bug for the mutants
bgDone == ctxDone \/ bgCancel
dbOpen == main # "closed"
Busy == {r \in Work : work[r] \notin {"new", "done"}}
Of(kind) == {r \in Busy : origin[r] = kind}

-----------------------------------------------------------------------------
(* A search begins.  The context of a request is not the one of Run: a signal *)
(* does not end it.                                                         *)
Go(r, pc) == work' = [work EXCEPT ![r] = pc]

Begin(r, kind) ==
  /\ work[r] = "new"
  /\ Go(r, "working")
  /\ origin' = [origin EXCEPT ![r] = kind]
  /\ \E s \in Subject : subject' = [subject EXCEPT ![r] = s]
  /\ UNCHANGED <<ctxDone, main, bgCancel, drainVars, told, scanner, countVars, counted, early,
                 gaveUp, stray, messages>>

Serve(r) == main = "serving" /\ Begin(r, "request")

(* Warmer.TickOnce, one feed after the other, or ExpiryScanner.TickOnce.       *)
ReaperTicks(r) == scanner = "run" /\ Of("tick") = {} /\ Begin(r, "tick")

(* triggerSWR: a request served from the cache leaves a goroutine behind that *)
(* is free of its context; a warm search passes the cache by.                *)
Refresh(r) == (\E w \in Of("request") : work[w] = "working") /\ Begin(r, "refresh")

(* A search ends.  What storeBestEffort announces is queued for the workers of *)
(* newAnnounceSink, unless there is nothing new or the queue stays full.     *)
End(r) ==
  \/ Go(r, "done") /\ UNCHANGED origin
  \/ \E j \in Work : /\ work[j] = "new"
                     /\ work' = [work EXCEPT ![r] = "done", ![j] = "pushing"]
                     /\ origin' = [origin EXCEPT ![j] = "job"]

(* A tick that found nothing to warm, or was cut off; an expiry scan is over. *)
Quit(r) ==
  /\ work[r] = "working" /\ origin[r] = "tick"
  /\ Go(r, "done")
  /\ UNCHANGED <<ctxDone, main, bgCancel, bornVars, drainVars, told, scanner, countVars, counted,
                 early, gaveUp, stray, messages>>

(* RecordQuery and its like; a failing or a recovering search has more to say. *)
Count(r) ==
  /\ work[r] = "working"
  /\ pending' = pending + 1 /\ counted' = counted + 1
  /\ early' = IF bgDone THEN early ELSE early + 1
  /\ End(r) \/ (Go(r, "reporting") /\ UNCHANGED origin)
  /\ UNCHANGED <<ctxDone, main, bgCancel, subject, drainVars, told, scanner, flusher, taken,
                 stored, unwritten, gaveUp, stray, messages>>

(* A worker of newAnnounceSink is done: its reads of the database, closed or  *)
(* not, and its pushes are over.                                            *)
JobEnds(r) ==
  /\ work[r] = "pushing"
  /\ Go(r, "done")
  /\ UNCHANGED <<ctxDone, main, bgCancel, bornVars, drainVars, told, scanner, countVars,
                 counted, early, gaveUp, stray, messages>>

(* OnHealthEvent and OnRecoveryEvent: healthSuppressed checks and sets at once. *)
healthSuppressed(s) == s \in told /\ told' = told
PassUnset(s) == s \notin told /\ told' = told      \* bug for the mutants
Pass(s) == s \notin told /\ told' = told \cup {s}
Report(r) ==
  LET s == subject[r] IN
  /\ work[r] = "reporting"
  /\ \/ healthSuppressed(s) /\ End(r) /\ UNCHANGED messages
     \/ /\ Pass(s) /\ Go(r, "gate") /\ UNCHANGED origin
        /\ messages' = [messages EXCEPT ![s] = @ + 1]
  /\ UNCHANGED <<ctxDone, main, bgCancel, subject, drainVars, scanner, countVars, counted, early,
                 gaveUp, stray>>

(* The hour of healthNotifyCooldown is over. *)
CooldownLapses(s) ==
  /\ s \in told
  /\ told' = told \ {s}
  /\ messages' = [messages EXCEPT ![s] = 0]
  /\ UNCHANGED <<ctxDone, main, bgCancel, work, bornVars, drainVars, scanner, countVars, counted,
                 early, gaveUp, stray>>

(* dispatchHealthAsync: the gate is read and the goroutine counted under the *)
(* read lock; a message born while Drain joins is dropped.                   *)
GateRLock(r) ==
  /\ work[r] = "gate" /\ r \notin readers
  /\ readers' = readers \cup {r}
  /\ IF draining THEN UNCHANGED work ELSE Go(r, "adding")
  /\ UNCHANGED <<ctxDone, main, bgCancel, bornVars, draining, waiter, dispatchWG, told, scanner,
                 countVars, counted, early, gaveUp, stray, messages>>

GateLeave(r) ==
  LET added == work[r] = "adding" IN
  /\ r \in readers
  /\ readers' = readers \ {r}
  /\ End(r)
  /\ dispatchWG' = IF added THEN dispatchWG \cup {r} ELSE dispatchWG
  /\ stray' = IF added /\ main \in {"close", "closed"} THEN stray \cup {r} ELSE stray
  /\ UNCHANGED <<ctxDone, main, bgCancel, subject, draining, waiter, told, scanner, countVars,
                 counted, early, gaveUp, messages>>

(* dispatch: one read of the database, closed or not, then sends that may hang. *)
DispatchEnds(r) ==
  /\ r \in dispatchWG
  /\ dispatchWG' = dispatchWG \ {r}
  /\ UNCHANGED <<ctxDone, main, bgCancel, work, bornVars, readers, draining, waiter, told,
                 scanner, countVars, counted, early, gaveUp, stray, messages>>

-----------------------------------------------------------------------------
(* reap: a tick, or the last flush once the context is done.                *)
TakeOut == taken' = taken + pending /\ pending' = 0
FoldBack == pending' = pending + taken /\ taken' = 0 /\ UNCHANGED stored

FlushTick ==
  /\ flusher = "wait"
  /\ flusher' = "write" /\ TakeOut
  /\ UNCHANGED <<ctxDone, main, bgCancel, work, bornVars, drainVars, told, scanner, stored,
                 counted, early, unwritten, gaveUp, stray, messages>>

NoFinal == flusher' = "done" /\ UNCHANGED <<pending, taken>>       \* bug for the mutants
Final == flusher' = "final" /\ TakeOut
FlushFinal ==
  /\ flusher = "wait" /\ bgDone
  /\ Final
  /\ UNCHANGED <<ctxDone, main, bgCancel, work, bornVars, drainVars, told, scanner, stored,
                 counted, early, unwritten, gaveUp, stray, messages>>

(* takeCategoryDeltas took them; what AddDeltas could not write is folded back. *)
FlushWrite ==
  /\ flusher \in {"write", "final"}
  /\ flusher' = IF flusher = "write" THEN "wait" ELSE "done"
  /\ \/ /\ dbOpen
        /\ stored' = stored + taken /\ taken' = 0
        /\ UNCHANGED <<pending, unwritten>>
     \/ /\ FoldBack
        /\ unwritten' = (unwritten \/ flusher = "final")
  /\ UNCHANGED <<ctxDone, main, bgCancel, work, bornVars, drainVars, told, scanner, counted,
                 early, gaveUp, stray, messages>>

(* The sends of a scan end with the context, and so do the searches of the   *)
(* warmer; there is no final.                                               *)
ScanStops ==
  /\ scanner = "run" /\ Of("tick") = {} /\ bgDone
  /\ scanner' = "done"
  /\ UNCHANGED <<ctxDone, main, bgCancel, work, bornVars, drainVars, told, countVars, counted,
                 early, gaveUp, stray, messages>>

-----------------------------------------------------------------------------
(* App.Run.                                                                 *)
MainTo(pc) ==
  /\ main' = pc
  /\ UNCHANGED <<work, bornVars, dispatchWG, told, scanner, countVars, counted, early, stray,
                 messages>>

Signal ==
  /\ ~ctxDone /\ ctxDone' = TRUE
  /\ UNCHANGED <<main, bgCancel, work, bornVars, drainVars, told, scanner, countVars, counted,
                 early, gaveUp, stray, messages>>

(* Serve: http.Server.Shutdown closes the listener and waits for handlers,    *)
(* which is not to wait for what a handler left behind.                      *)
ShutdownBegins ==
  /\ main = "serving" /\ ctxDone
  /\ MainTo("stopping")
  /\ UNCHANGED <<ctxDone, bgCancel, readers, draining, waiter, gaveUp>>

(* bgCancel follows, whether Shutdown saw the last handler off, gave up on    *)
(* them after shutdownTimeout, or the listener failed by itself.             *)
ServeReturns ==
  /\ main = "stopping"
  /\ gaveUp' = IF Of("request") = {} THEN gaveUp ELSE gaveUp \cup {"handlers"}
  /\ bgCancel' = TRUE
  /\ MainTo("join")
  /\ UNCHANGED <<ctxDone, readers, draining, waiter>>

ServeFails ==
  /\ main = "serving" /\ ~ctxDone
  /\ gaveUp' = gaveUp \cup {"handlers"}
  /\ bgCancel' = TRUE
  /\ MainTo("join")
  /\ UNCHANGED <<ctxDone, readers, draining, waiter>>

JoinAnyway == main = "join"                                        \* bug for the mutants
Joined == main = "join" /\ flusher = "done" /\ scanner = "done"
JoinReapers ==
  /\ Joined
  /\ MainTo("drain")
  /\ UNCHANGED <<ctxDone, bgCancel, readers, draining, waiter, gaveUp>>

(* Drain takes the write lock, which waits for the readers ... *)
DrainUnlocked == main = "drain"                                    \* bug for the mutants
DrainLock == main = "drain" /\ readers = {}
DrainCloses ==
  /\ DrainLock
  /\ draining' = TRUE /\ waiter' = "waiting"
  /\ MainTo("wait")
  /\ UNCHANGED <<ctxDone, bgCancel, readers, gaveUp>>

(* ... has a goroutine join the dispatches ...                               *)
WaitReturns ==
  /\ waiter = "waiting" /\ dispatchWG = {}
  /\ waiter' = "done"
  /\ MainTo(main)
  /\ UNCHANGED <<ctxDone, bgCancel, readers, draining, gaveUp>>

(* ... and leaves it there after five seconds ...                            *)
DrainJoins ==
  /\ main = "wait"
  /\ gaveUp' = IF waiter = "done" THEN gaveUp ELSE gaveUp \cup {"sends"}
  /\ MainTo("reopen")
  /\ UNCHANGED <<ctxDone, bgCancel, readers, draining, waiter>>

(* ... and opens the gate again. *)
DrainReopens ==
  /\ main = "reopen" /\ readers = {}
  /\ draining' = FALSE
  /\ MainTo("close")
  /\ UNCHANGED <<ctxDone, bgCancel, readers, waiter, gaveUp>>

CloseDB ==
  /\ main = "close"
  /\ MainTo("closed")
  /\ UNCHANGED <<ctxDone, bgCancel, readers, draining, waiter, gaveUp>>

Run == ShutdownBegins \/ ServeReturns \/ ServeFails \/ JoinReapers \/ DrainCloses \/ WaitReturns
       \/ DrainJoins \/ DrainReopens \/ CloseDB
Reap == FlushTick \/ FlushFinal \/ FlushWrite \/ ScanStops

ShutdownNext ==
  \/ Signal \/ Run \/ Reap
  \/ \E r \in Work : \/ Serve(r) \/ ReaperTicks(r) \/ Refresh(r) \/ Quit(r) \/ JobEnds(r)
                     \/ Count(r) \/ Report(r) \/ GateRLock(r) \/ GateLeave(r)
                     \/ DispatchEnds(r)
  \/ \E s \in Subject : CooldownLapses(s)

(* The timers behind each step of Run are fair, and a lock is always given    *)
(* back; a handler, a refresh, a job and a send may hang.  A tick does not: its *)
(* context ends it.  A reaper whose context is done meets at most one more    *)
(* tick of its timer.                                                       *)
TickGoesOn(r) == r \in Of("tick") /\ (Quit(r) \/ Count(r) \/ Report(r) \/ GateRLock(r))
WeakShutdownFairness ==
  /\ WF_shutdownVars(ShutdownBegins) /\ WF_shutdownVars(ServeReturns)
  /\ WF_shutdownVars(JoinReapers) /\ WF_shutdownVars(DrainCloses) /\ WF_shutdownVars(DrainJoins)
  /\ WF_shutdownVars(DrainReopens) /\ WF_shutdownVars(CloseDB)
  /\ \A r \in Work : WF_shutdownVars(GateLeave(r)) /\ WF_shutdownVars(TickGoesOn(r))
  /\ WF_shutdownVars(FlushWrite)
ShutdownFairness ==
  /\ WeakShutdownFairness
  /\ SF_shutdownVars(FlushFinal) /\ SF_shutdownVars(ScanStops)

ShutdownSpec == ShutdownInit /\ [][ShutdownNext]_shutdownVars
FairShutdownSpec == ShutdownSpec /\ ShutdownFairness

-----------------------------------------------------------------------------
(* dispatchWG never grows under a Wait, "an Add racing Wait, which            *)
(* sync.WaitGroup forbids" (notify/service.go: dispatchHealthAsync) - but for  *)
(* the Wait that Drain left behind at its deadline, which its gate, open       *)
(* again, no longer keeps an Add from.                                      *)
AddNeverRacesWait ==
  [][waiter = "waiting" /\ "sends" \notin gaveUp => dispatchWG' \subseteq dispatchWG]_shutdownVars

(* What may outlive the database: a refresh, an announcement, and a request    *)
(* that Shutdown gave up on; with what they dispatch once Drain is over.     *)
Unjoined(r) ==
  origin[r] \in {"refresh", "job"} \/ (origin[r] = "request" /\ "handlers" \in gaveUp)

(* When the database closes no maintenance goroutine is left, and no search of *)
(* one; every message accepted before the drain is out, unless its deadline    *)
(* passed; and all the work that still goes on, and every message accepted    *)
(* after the drain, is of a kind that nobody joins (App.Run, Drain,           *)
(* SearchCache.triggerSWR, newAnnounceSink).                                *)
CleanExit ==
  main = "closed" =>
    /\ flusher = "done" /\ scanner = "done"
    /\ "sends" \in gaveUp \/ dispatchWG \subseteq stray
    /\ \A r \in Busy \cup stray : Unjoined(r)

(* Concurrent searches send one message about a subject within its cooldown   *)
(* (notify/service.go: healthSuppressed).                                    *)
OneMessagePerWindow == \A s \in Subject : messages[s] <= 1

(* The counts taken out for a write and folded back when it fails are neither *)
(* lost nor doubled, whatever is counted meanwhile (indexerstats.go:         *)
(* takeCategoryDeltas, flushCategories); and what was counted before the       *)
(* signal is in the database at the exit, unless the last write failed        *)
(* (app/lifecycle.go: reap, final).                                          *)
CountsKept ==
  /\ counted = pending + taken + stored
  /\ main = "closed" /\ ~unwritten => stored >= early

(* Whatever hangs, the process ends after a signal or a failed listener.     *)
ShutdownEnds == (ctxDone \/ main # "serving") ~> main = "closed"
=============================================================================
