------------------------------- MODULE Logins -------------------------------
(***************************************************************************)
(* The login of a Cardigann engine (cardigann/engine.go, login/login.go):  *)
(* searches, grabs and tests of one engine share a cookie jar; the first   *)
(* search or grab logs in, and the engine remembers that it did; a search  *)
(* whose answer looks logged out logs in again and is sent once more.      *)
(* Logins run under one mutex, except those of a test, and a login leaves  *)
(* the jar alone until its answer brings a new cookie.                     *)
(*                                                                         *)
(* A cookie is the number of the login that brought it; 0 is no cookie.    *)
(***************************************************************************)
EXTENDS Integers

CONSTANTS
  Query,         \* searches, grabs and tests under way at the same time
  MaxCookie,     \* bound: logins the tracker accepts
  MaxRefusal,    \* bound: logins that fail
  MaxForget,     \* bound: times the tracker forgets its sessions
  NoQuery        \* the mutex is free

ASSUME LoginsAssumption == NoQuery \notin Query /\ MaxCookie \in Nat

VARIABLES
  probes,     \* the definition has a login.test block
  loggedIn,   \* the engine remembers a login
  loginMu,    \* who holds it
  jarCookie,  \* the cookie every request of the engine carries
  query,      \* the searches, grabs and tests
  accepted,   \* cookies the tracker accepts
  cookies,    \* logins it has accepted
  forgets,
  sequences,  \* history: login sequences that ended
  failures,   \* history: those that failed
  refusals,   \* history: answers that looked logged out to a search
  tests       \* history: tests begun

loginVars == <<probes, loggedIn, loginMu, jarCookie, query, accepted, cookies,
               forgets, sequences, failures, refusals, tests>>
siteVars == <<accepted, cookies, forgets>>
tallyVars == <<sequences, failures, refusals, tests>>

IdleQuery == [kind |-> "none", pc |-> "idle", retried |-> FALSE, sent |-> 0, lost |-> FALSE]

LoginsInit ==
  /\ probes \in BOOLEAN
  /\ loggedIn = FALSE /\ loginMu = NoQuery /\ jarCookie = 0
  /\ query = [c \in Query |-> IdleQuery]
  /\ accepted = {} /\ cookies = 0 /\ forgets = 0
  /\ sequences = 0 /\ failures = 0 /\ refusals = 0 /\ tests = 0

QueryAt(c, pc) == query[c].pc = pc
To(c, pc) == query' = [query EXCEPT ![c].pc = pc]
Tests(c) == query[c].kind = "test"

(* A test probes at once; a search or a grab goes through ensureSession.    *)
Begin(c, kind) ==
  /\ query[c].pc \in {"idle", "ok", "failed", "loggedOut"}
  /\ query' = [query EXCEPT ![c] = [IdleQuery EXCEPT
                 !.kind = kind, !.pc = IF kind = "test" THEN "probe" ELSE "ensure"]]
  /\ kind = "test" => tests < 1
  /\ tests' = IF kind = "test" THEN tests + 1 ELSE tests
  /\ UNCHANGED <<probes, loggedIn, loginMu, jarCookie, siteVars, sequences, failures, refusals>>

EnsureSession(c) ==
  /\ QueryAt(c, "ensure") /\ loginMu = NoQuery
  /\ IF loggedIn THEN To(c, "send") /\ UNCHANGED loginMu
                 ELSE To(c, "probe") /\ loginMu' = c
  /\ UNCHANGED <<probes, loggedIn, jarCookie, siteVars, tallyVars>>

(* What a caller does once its session stands: it remembers so and lets the *)
(* mutex go, and a test is over.                                            *)
Established(c) ==
  IF Tests(c) THEN To(c, "ok") /\ UNCHANGED <<loggedIn, loginMu>>
  ELSE To(c, "send") /\ loggedIn' = TRUE /\ loginMu' = NoQuery

(* CheckTest: without a test block the answer is no.  The probe may fail.   *)
Probe(c) ==
  /\ QueryAt(c, "probe")
  /\ IF probes /\ jarCookie \in accepted
       THEN Established(c)
       ELSE To(c, "login") /\ UNCHANGED <<loggedIn, loginMu>>
  /\ UNCHANGED <<probes, jarCookie, siteVars, tallyVars>>

LoginAccepted(c) ==
  /\ QueryAt(c, "login") /\ cookies < MaxCookie
  /\ cookies' = cookies + 1
  /\ jarCookie' = cookies' /\ accepted' = accepted \cup {cookies'}
  /\ Established(c)
  /\ sequences' = sequences + 1
  /\ UNCHANGED <<probes, forgets, failures, refusals, tests>>

(* Refused, in need of a captcha or a solver, or lost on the way.           *)
LoginFails(c) ==
  /\ query[c].pc \in {"probe", "login"} /\ failures < MaxRefusal
  /\ To(c, "failed")
  /\ loginMu' = IF Tests(c) THEN loginMu ELSE NoQuery
  /\ sequences' = sequences + 1 /\ failures' = failures + 1
  /\ UNCHANGED <<probes, loggedIn, jarCookie, siteVars, refusals, tests>>

Ask(c) ==
  /\ QueryAt(c, "send")
  /\ query' = [query EXCEPT ![c].pc = "sent", ![c].sent = jarCookie]
  /\ UNCHANGED <<probes, loggedIn, loginMu, jarCookie, siteVars, tallyVars>>

(* An answer to a cookie the tracker does not accept is taken for what it   *)
(* says, or recognised: by a redirect, or by the absence of the selector.   *)
(* A grab has no second attempt, and a search has one.                      *)
Answer(c) ==
  /\ QueryAt(c, "sent")
  /\ \/ To(c, "ok") /\ UNCHANGED refusals
     \/ /\ query[c].sent \notin accepted
        /\ IF query[c].kind = "search" /\ ~query[c].retried
             THEN To(c, "relogin") /\ refusals' = refusals + 1
             ELSE To(c, "loggedOut") /\ UNCHANGED refusals
  /\ UNCHANGED <<probes, loggedIn, loginMu, jarCookie, siteVars, sequences, failures, tests>>

(* relogin logs in whatever the engine remembers: the answer told it that   *)
(* the session is gone.                                                     *)
ForcedIfForgotten == ~loggedIn      \* mutant
Forced == TRUE

Relogin(c) ==
  /\ QueryAt(c, "relogin") /\ loginMu = NoQuery
  /\ query' = [query EXCEPT ![c].pc = IF Forced THEN "login" ELSE "send",
                            ![c].retried = TRUE, ![c].lost = FALSE]
  /\ loginMu' = IF Forced THEN c ELSE loginMu
  /\ loggedIn' = ~Forced
  /\ UNCHANGED <<probes, jarCookie, siteVars, tallyVars>>

(* The tracker forgets its sessions: they expire, or it restarts.           *)
Forget ==
  /\ forgets < MaxForget /\ forgets' = forgets + 1
  /\ accepted # {} /\ accepted' = {}
  /\ query' = [c \in Query |-> [query[c] EXCEPT !.lost = TRUE]]
  /\ UNCHANGED <<probes, loggedIn, loginMu, jarCookie, cookies, tallyVars>>

LoginsNext ==
  \/ \E c \in Query :
       \/ \E kind \in {"search", "grab", "test"} : Begin(c, kind)
       \/ EnsureSession(c) \/ Probe(c) \/ LoginAccepted(c) \/ LoginFails(c)
       \/ Ask(c) \/ Answer(c) \/ Relogin(c)
  \/ Forget

LoginsSpec == LoginsInit /\ [][LoginsNext]_loginVars

-----------------------------------------------------------------------------
QueryState ==
  [kind : {"none", "search", "grab", "test"},
   pc : {"idle", "ensure", "probe", "login", "send", "sent", "relogin",
         "ok", "failed", "loggedOut"},
   retried : BOOLEAN, sent : 0 .. MaxCookie, lost : BOOLEAN]

LoginsTypeOK ==
  /\ probes \in BOOLEAN /\ loggedIn \in BOOLEAN
  /\ loginMu \in Query \cup {NoQuery}
  /\ jarCookie \in 0 .. cookies /\ accepted \subseteq 1 .. cookies
  /\ query \in [Query -> QueryState]
  /\ sequences \in Nat /\ failures \in Nat /\ refusals \in Nat /\ tests \in Nat

(* One login is enough and no more are made than needed: a search is failed *)
(* as logged out only when the tracker forgot its session again after the   *)
(* search had logged in, whatever the others logged in or were refused      *)
(* meanwhile; and beyond the first, every login sequence answers a failed   *)
(* one, a refused search or a test.                                         *)
LoginsSuffice ==
  /\ \A c \in Query :
       query[c].kind = "search" /\ QueryAt(c, "loggedOut") => query[c].lost
  /\ sequences <= 1 + failures + refusals + tests
=============================================================================
