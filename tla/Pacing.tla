------------------------------- MODULE Pacing -------------------------------
(***************************************************************************)
(* The paced HTTP client of a tracker host (registry/pacedclient.go): the  *)
(* requests of every indexer on the host share one rate limiter, whose     *)
(* interval is the strictest any of them asked for; every attempt takes a  *)
(* token from it; an answer of 429 or 503 is tried again, after what it    *)
(* asks for, up to three attempts; and the pauses of one request together  *)
(* are kept within a budget.  The live calls are not: they run under the   *)
(* caller's context and the client's own timeout.                          *)
(*                                                                         *)
(* The limiter is golang.org/x/time/rate with a burst of one: free is when *)
(* its next token is there.  Timers fire when they are due.                *)
(***************************************************************************)
EXTENDS Integers, FiniteSetsExt

CONSTANTS
  Doer,         \* requests to the host under way at the same time
  Spacing,      \* intervals an indexer may ask for
  Retry,        \* Retry-After of an answer, 0 for none
  Backoff,      \* the pause when there is none (retryBackoff)
  PaceBudget,   \* bound on the pauses of a request (maxPacingBudget)
  LastInstant   \* bound of a run

ASSUME PacingAssumption ==
  /\ Spacing \subseteq Nat \ {0} /\ Retry \subseteq Nat /\ 0 \in Retry
  /\ Backoff \in Nat \ {0} /\ PaceBudget \in Nat /\ LastInstant \in Nat

maxRetryAttempts == 3

VARIABLES
  instant,   \* the clock
  limiter,   \* the limiter's interval, 0 before its first use
  free,      \* when its next token is there
  pace,      \* the requests
  notUntil,  \* history: when the interval the last call was granted under ends
  hurried    \* history: requests sent before a gap or a Retry-After was over

pacingVars == <<instant, limiter, free, pace, notUntil, hurried>>

NewRequest(want) == [pc |-> "lookup", want |-> want, attempt |-> 0, remaining |-> PaceBudget,
                 since |-> 0, wake |-> 0, limit |-> 0, capped |-> FALSE,
                 paused |-> 0, notBefore |-> 0]

PacingInit ==
  /\ instant = 0
  /\ limiter \in {0} \cup Spacing
  /\ free = 0
  /\ pace \in [Doer -> {NewRequest(want) : want \in Spacing}]
  /\ notUntil = 0
  /\ hurried = {}

PaceAt(d, pc) == pace[d].pc = pc
Over(d) == [NewRequest(pace[d].want) EXCEPT !.pc = "over", !.paused = pace[d].paused]
Ends(d) == pace' = [pace EXCEPT ![d] = Over(d)]

-----------------------------------------------------------------------------
(* limiterFor.                                                              *)

(* The first request of a host stores the limiter; a later one that wants a *)
(* slower pace than it reads goes on to tighten it.                         *)
LimiterFor(d) ==
  /\ PaceAt(d, "lookup")
  /\ limiter' = IF limiter = 0 THEN pace[d].want ELSE limiter
  /\ pace' = [pace EXCEPT ![d].pc =
                IF pace[d].want > limiter' THEN "tighten" ELSE "issue"]
  /\ UNCHANGED <<instant, free, notUntil, hurried>>

(* Under limiterTightenMu the limit is compared once more.                  *)
StillStricterAlways(want) == want = want      \* mutant
StillStricter(want) == want > limiter

(* SetLimit keeps the tokens: what is missing of the next one takes longer. *)
Tighten(d) ==
  /\ PaceAt(d, "tighten")
  /\ IF StillStricter(pace[d].want)
       THEN /\ limiter' = pace[d].want
            /\ free' = IF free <= instant THEN free
                       ELSE instant + ((free - instant) * pace[d].want) \div limiter
       ELSE UNCHANGED <<limiter, free>>
  /\ pace' = [pace EXCEPT ![d].pc = "issue"]
  /\ UNCHANGED <<instant, notUntil, hurried>>

-----------------------------------------------------------------------------
(* issue.                                                                   *)

(* pacedWait: a token that comes later than the budget lasts is refused at  *)
(* once, and so is any when nothing is left of it.                          *)
Granted == Max({instant, free})
Patient(d) == pace[d].remaining > 0 /\ Granted - instant <= pace[d].remaining

AwaitToken(d) ==
  /\ PaceAt(d, "issue")
  /\ IF Patient(d)
       THEN /\ free' = Granted + limiter
            /\ pace' = [pace EXCEPT ![d].pc = "wait", ![d].since = instant,
                                    ![d].wake = Granted, ![d].limit = limiter]
       ELSE Ends(d) /\ UNCHANGED free
  /\ UNCHANGED <<instant, limiter, notUntil, hurried>>

(* What a wait or a sleep has taken is taken off the budget.                *)
Elapsed(d) == instant - pace[d].since

LeftUndebited(d) == pace[d].remaining + 0 * Elapsed(d)      \* mutant
Left(d) == pace[d].remaining - Elapsed(d)

IssueLive(d) ==
  /\ PaceAt(d, "wait") /\ pace[d].wake <= instant
  /\ pace' = [pace EXCEPT ![d].pc = "live", ![d].remaining = Left(d),
                          ![d].since = 0, ![d].wake = 0, ![d].notBefore = 0,
                          ![d].paused = @ + Elapsed(d)]
  /\ hurried' = IF instant < notUntil \/ instant < pace[d].notBefore
                  THEN hurried \cup {d} ELSE hurried
  /\ notUntil' = instant + pace[d].limit
  /\ UNCHANGED <<instant, limiter, free>>

(* An answer to keep, or a transport failure.                               *)
AnswerFinal(d) ==
  /\ PaceAt(d, "live")
  /\ Ends(d)
  /\ UNCHANGED <<instant, limiter, free, notUntil, hurried>>

(* 429 or 503: after the last attempt, or with nothing left of the budget,  *)
(* it is the answer; else the request sleeps, no longer than the budget.    *)
AnswerLimited(d) ==
  /\ PaceAt(d, "live")
  /\ \E after \in Retry :
       LET delay == IF after > 0 THEN after ELSE Backoff
           left == pace[d].remaining
       IN IF pace[d].attempt + 1 >= maxRetryAttempts \/ left <= 0
            THEN Ends(d)
            ELSE \E capped \in BOOLEAN :
                   /\ capped => delay >= left
                   /\ ~capped => delay <= left
                   /\ pace' = [pace EXCEPT ![d].pc = "sleep", ![d].since = instant,
                                           ![d].wake = instant + Min({delay, left}),
                                           ![d].capped = capped,
                                           ![d].notBefore = instant + after]
  /\ UNCHANGED <<instant, limiter, free, notUntil, hurried>>

(* backoffSleep, and the next attempt with a token of its own.              *)
WakeUp(d) ==
  /\ PaceAt(d, "sleep") /\ pace[d].wake <= instant
  /\ pace' = [pace EXCEPT ![d] =
       [(IF pace[d].capped THEN Over(d) ELSE [@ EXCEPT !.pc = "issue"])
          EXCEPT !.attempt = pace[d].attempt + 1, !.remaining = Left(d), !.wake = 0, !.since = 0,
                 !.paused = pace[d].paused + Elapsed(d)]]
  /\ UNCHANGED <<instant, limiter, free, notUntil, hurried>>

(* The caller goes away in a pause.  Its token is given back if nobody took *)
(* a later one.                                                             *)
AbortPause(d) ==
  /\ pace[d].pc \in {"wait", "sleep"} /\ instant < pace[d].wake
  /\ Ends(d)
  /\ free' = IF PaceAt(d, "wait") /\ limiter = pace[d].limit
                  /\ free = pace[d].wake + limiter
               THEN pace[d].wake ELSE free
  /\ UNCHANGED <<instant, limiter, notUntil, hurried>>

(* Time passes, unless a timer is due.                                  *)
InstantPasses ==
  /\ instant < LastInstant /\ instant' = instant + 1
  /\ \A d \in Doer : pace[d].pc \in {"wait", "sleep"} => pace[d].wake > instant
  /\ UNCHANGED <<limiter, free, pace, notUntil, hurried>>

PacingNext ==
  \/ \E d \in Doer :
       \/ LimiterFor(d) \/ Tighten(d) \/ AwaitToken(d) \/ IssueLive(d)
       \/ AnswerFinal(d) \/ AnswerLimited(d) \/ WakeUp(d) \/ AbortPause(d)
  \/ InstantPasses

PacingSpec == PacingInit /\ [][PacingNext]_pacingVars

-----------------------------------------------------------------------------
PaceState ==
  [pc : {"lookup", "tighten", "issue", "wait", "live", "sleep", "over"}, want : Spacing,
   attempt : 0 .. maxRetryAttempts - 1, remaining : 0 .. PaceBudget, since : Nat, wake : Nat,
   limit : Nat, capped : BOOLEAN, paused : Nat, notBefore : Nat]

PacingTypeOK ==
  /\ instant \in 0 .. LastInstant
  /\ limiter \in Spacing \cup {0} /\ free \in Nat /\ notUntil \in Nat
  /\ pace \in [Doer -> PaceState]
  /\ hurried \subseteq Doer

(* Whichever requests meet on a host, in whatever order they find and       *)
(* tighten its limiter: it ends with the strictest interval, no two calls   *)
(* are closer than the interval the first was granted under, a retry never  *)
(* comes before its Retry-After is over, and no request pauses for longer   *)
(* than its budget.                                                         *)
HostIsSpared ==
  /\ hurried = {}
  /\ \A d \in Doer : pace[d].pc \notin {"lookup", "tighten"} => limiter >= pace[d].want
  /\ \A d \in Doer : pace[d].paused <= PaceBudget
=============================================================================
