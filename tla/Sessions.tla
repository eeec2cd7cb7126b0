------------------------------ MODULE Sessions ------------------------------
(***************************************************************************)
(* The cookie session of a form-login driver (native/cookiesession.go,     *)
(* native/xspeeds/auth.go): requests share one cookie jar and one session, *)
(* a request that is refused renews the session once and tries again, and  *)
(* one login runs at a time, under a gate, with the jar emptied while it   *)
(* runs.  A login the tracker refuses is remembered against the generation *)
(* it was for, so that nobody repeats it.                                  *)
(*                                                                         *)
(* A cookie is the number of the login that brought it; 0 is no cookie.    *)
(***************************************************************************)
EXTENDS Integers, FiniteSets

CONSTANTS
  Request,   \* requests of one driver at the same time
  MaxLogin,  \* logins the tracker accepts
  MaxFault,  \* transport failures, refused logins, cancelled waits
  MaxExpire, \* times the tracker forgets its sessions
  NoHolder

ASSUME SessionsAssumption == NoHolder \notin Request /\ MaxLogin \in Nat

Cookie == 0 .. MaxLogin
NoFailure == [generation |-> 0, set |-> FALSE]

VARIABLES
  session,  \* the current session: cookie and generation
  failure,  \* the login failure remembered, and the generation it is about
  jar,      \* the cookie every request of the driver carries
  saved,    \* the cookie in the indexer's settings
  gate,     \* who holds the login gate
  caller,   \* the requests
  good,     \* cookies the tracker accepts
  issued,   \* logins the tracker has accepted
  verdicts, \* history: conclusive logins per generation they were for
  refused,  \* history: generations whose cookie or login the tracker refused
  loginFaults, expiries

sessionVars == <<session, failure, jar, saved, gate, caller, good, issued,
                 verdicts, refused, loginFaults, expiries>>
trackerVars == <<good, issued, expiries>>

Resting == [pc |-> "idle", gen |-> 0, second |-> FALSE, sent |-> 0,
            previous |-> [cookie |-> 0, generation |-> 0], got |-> "none"]

(* The driver starts with the cookie its settings hold, or with none. *)
SessionsInit ==
  /\ saved \in Cookie \cap {0, 1}
  /\ issued = saved
  /\ good \in SUBSET ({saved} \ {0})
  /\ session = [cookie |-> saved, generation |-> saved]
  /\ failure = NoFailure
  /\ jar = saved
  /\ gate = NoHolder
  /\ caller = [r \in Request |-> Resting]
  /\ verdicts = [g \in 0 .. MaxLogin |-> 0]
  /\ refused = {}
  /\ loginFaults = 0 /\ expiries = 0

ReqAt(r, pc) == caller[r].pc = pc
Becomes(r, x) == caller' = [caller EXCEPT ![r] = x]
Goes(r, pc) == Becomes(r, [caller[r] EXCEPT !.pc = pc])
Failing == loginFaults < MaxFault /\ loginFaults' = loginFaults + 1

(* The failure remembered is about the current session. *)
KnownBad == failure.set /\ failure.generation = session.generation

-----------------------------------------------------------------------------
(* Ensure: the current session, or a login under the gate.                  *)

Ensure(r) ==
  /\ ReqAt(r, "idle")
  /\ ~KnownBad
  /\ Becomes(r, [Resting EXCEPT !.gen = session.generation,
                                !.pc = IF session.cookie # 0 THEN "send" ELSE "ensure"])
  /\ UNCHANGED <<session, failure, jar, saved, gate, verdicts, refused,
                 loginFaults, trackerVars>>

(* The session is looked at again once the gate is held. *)
EnsureAtGate(r) ==
  /\ ReqAt(r, "ensure") /\ gate = NoHolder
  /\ IF KnownBad THEN Becomes(r, Resting) /\ UNCHANGED gate
     ELSE IF session.cookie # 0
       THEN /\ Becomes(r, [caller[r] EXCEPT !.pc = "send", !.gen = session.generation])
            /\ UNCHANGED gate
       ELSE /\ Becomes(r, [caller[r] EXCEPT !.pc = "clear", !.gen = session.generation])
            /\ gate' = r
  /\ UNCHANGED <<session, failure, jar, saved, verdicts, refused,
                 loginFaults, trackerVars>>

(* Renew: a generation newer than the one that was refused needs no login,  *)
(* and a generation whose login failed gets none.                          *)
SupersededNever(gen) == FALSE /\ gen = 0                      \* mutant
Superseded(gen) == session.cookie # 0 /\ session.generation # gen

Renew(r) ==
  /\ ReqAt(r, "renew") /\ gate = NoHolder
  /\ IF Superseded(caller[r].gen)
       THEN Goes(r, "renewed") /\ UNCHANGED gate
       ELSE IF KnownBad THEN Becomes(r, Resting) /\ UNCHANGED gate
       ELSE Becomes(r, [caller[r] EXCEPT !.pc = "clear", !.second = TRUE]) /\ gate' = r
  /\ UNCHANGED <<session, failure, jar, saved, verdicts, refused,
                 loginFaults, trackerVars>>

(* The session is read again once the gate has been let go. *)
Renewed(r) ==
  /\ ReqAt(r, "renewed")
  /\ Becomes(r, [caller[r] EXCEPT !.pc = "send", !.second = TRUE, !.gen = session.generation])
  /\ UNCHANGED <<session, failure, jar, saved, gate, verdicts, refused,
                 loginFaults, trackerVars>>

(* A caller that goes away while it waits for the gate. *)
GiveUp(r) ==
  /\ caller[r].pc \in {"ensure", "renew"}
  /\ Failing
  /\ Becomes(r, Resting)
  /\ UNCHANGED <<session, failure, jar, saved, gate, verdicts, refused,
                 trackerVars>>

-----------------------------------------------------------------------------
(* The login, by the holder of the gate.                                    *)

ClearJar(r) ==
  /\ ReqAt(r, "clear")
  /\ jar' = 0
  /\ Becomes(r, [caller[r] EXCEPT !.pc = "login", !.previous = session])
  /\ UNCHANGED <<session, failure, saved, gate, verdicts, refused,
                 loginFaults, trackerVars>>

(* The form is accepted, refused, or lost on the way.                       *)
performLogin(r) ==
  /\ ReqAt(r, "login")
  /\ \/ /\ issued < MaxLogin
        /\ issued' = issued + 1 /\ good' = good \cup {issued + 1}
        /\ jar' = issued + 1
        /\ Goes(r, "persist")
        /\ UNCHANGED <<loginFaults, expiries>>
     \/ /\ Failing
        /\ \E how \in {"refused", "lost"} :
             Becomes(r, [caller[r] EXCEPT !.pc = "failed", !.got = how])
        /\ UNCHANGED <<jar, trackerVars>>
  /\ UNCHANGED <<session, failure, saved, gate, verdicts, refused>>

(* The replacement is stored before it is published.                        *)
CompleteLogin(r) ==
  /\ ReqAt(r, "persist")
  /\ \/ /\ saved' = jar
        /\ session' = [cookie |-> jar,
                       generation |-> caller[r].previous.generation + 1]
        /\ failure' = NoFailure
        /\ verdicts' = [verdicts EXCEPT ![caller[r].gen] = @ + 1]
        /\ IF caller[r].second THEN Goes(r, "renewed")
           ELSE Becomes(r, [caller[r] EXCEPT !.pc = "send", !.gen = session'.generation])
        /\ gate' = NoHolder
        /\ UNCHANGED loginFaults
     \/ /\ Failing
        /\ Becomes(r, [caller[r] EXCEPT !.pc = "failed", !.got = "lost"])
        /\ UNCHANGED <<saved, session, failure, verdicts, gate>>
  /\ UNCHANGED <<jar, refused, trackerVars>>

(* A failed login puts the previous cookies back; only a refusal is         *)
(* remembered.                                                              *)
Restored(r) == caller[r].previous.cookie

LoginFailed(r) ==
  LET told == caller[r].got = "refused" IN
  /\ ReqAt(r, "failed")
  /\ jar' = Restored(r)
  /\ failure' = IF told THEN [generation |-> caller[r].gen, set |-> TRUE] ELSE NoFailure
  /\ verdicts' = IF told THEN [verdicts EXCEPT ![caller[r].gen] = @ + 1] ELSE verdicts
  /\ refused' = IF told THEN refused \cup {caller[r].gen} ELSE refused
  /\ gate' = NoHolder
  /\ Becomes(r, Resting)
  /\ UNCHANGED <<session, saved, loginFaults, trackerVars>>

-----------------------------------------------------------------------------
(* The request itself, with whatever the jar holds when it is sent.         *)

Send(r) ==
  /\ ReqAt(r, "send")
  /\ Becomes(r, [caller[r] EXCEPT !.pc = "sent", !.sent = jar])
  /\ UNCHANGED <<session, failure, jar, saved, gate, verdicts, refused,
                 loginFaults, trackerVars>>

GoesThrough(r) ==
  /\ ReqAt(r, "sent")
  /\ \/ caller[r].sent \in good /\ UNCHANGED loginFaults
     \/ Failing
  /\ Becomes(r, Resting)
  /\ UNCHANGED <<session, failure, jar, saved, gate, verdicts, refused,
                 trackerVars>>

(* RememberLoginError, on the second refusal: only while the generation is  *)
(* still the current one.                                                   *)
RememberedAgainstCurrent(gen) ==                              \* mutant
  IF gen >= 0 THEN [generation |-> session.generation, set |-> TRUE]
  ELSE failure
Remembered(gen) ==
  IF session.generation = gen THEN [generation |-> gen, set |-> TRUE]
  ELSE failure

Refused(r) ==
  /\ ReqAt(r, "sent") /\ caller[r].sent \notin good
  /\ refused' = IF caller[r].sent = 0 THEN refused ELSE refused \cup {caller[r].gen}
  /\ IF caller[r].second
       THEN /\ failure' = Remembered(caller[r].gen)
            /\ Becomes(r, Resting)
       ELSE /\ Goes(r, "renew") /\ UNCHANGED failure
  /\ UNCHANGED <<session, jar, saved, gate, verdicts, loginFaults,
                 trackerVars>>

(* The tracker forgets its sessions. *)
Expire ==
  /\ good # {} /\ expiries < MaxExpire
  /\ good' = {} /\ expiries' = expiries + 1
  /\ UNCHANGED <<session, failure, jar, saved, gate, caller, issued, verdicts,
                 refused, loginFaults>>

SessionsNext ==
  \/ \E r \in Request :
       \/ Ensure(r) \/ EnsureAtGate(r) \/ Renew(r) \/ Renewed(r) \/ GiveUp(r)
       \/ ClearJar(r) \/ performLogin(r) \/ CompleteLogin(r) \/ LoginFailed(r)
       \/ Send(r) \/ GoesThrough(r) \/ Refused(r)
  \/ Expire

SessionsSpec == SessionsInit /\ [][SessionsNext]_sessionVars

-----------------------------------------------------------------------------
PCs == {"idle", "ensure", "renew", "clear", "login", "persist", "failed",
        "renewed", "send", "sent"}
SessionState == [cookie : Cookie, generation : Cookie]
RequestState == [pc : PCs, gen : Cookie, second : BOOLEAN, sent : Cookie,
                 previous : SessionState, got : {"none", "refused", "lost"}]

(* The type of the state of a cookie session. *)
SessionsTypeOK ==
  /\ session \in SessionState
  /\ failure \in [generation : Cookie, set : BOOLEAN]
  /\ jar \in Cookie /\ saved \in Cookie
  /\ gate \in Request \cup {NoHolder}
  /\ caller \in [Request -> RequestState]
  /\ good \subseteq 1 .. issued /\ issued \in Cookie
  /\ verdicts \in [Cookie -> Nat] /\ refused \subseteq Cookie
  /\ loginFaults \in Nat /\ expiries \in Nat

(* The tracker is asked to log in at most once for each generation, as long *)
(* as it answers: requests refused together share one login, and one that   *)
(* was refused is not repeated for the others.                              *)
RenewedOnce == \A g \in 0 .. MaxLogin : verdicts[g] <= 1

(* A session is given up only on what the tracker said of that session: a   *)
(* refusal of an older one that is learnt late never poisons a new one.     *)
NotPoisoned == KnownBad => session.generation \in refused

(* The tracker's patience is not spent twice, nor a session given up that   *)
(* it did not refuse: see the two parts (cookiesession.go: Renew).          *)
LoginsAreSpared == RenewedOnce /\ NotPoisoned

(* While nobody logs in the jar holds the session's cookie, and so do the   *)
(* settings, whatever failed before.                                        *)
JarMatches == gate = NoHolder => jar = session.cookie /\ saved = session.cookie
=============================================================================
