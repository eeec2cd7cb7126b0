--------------------------- MODULE EnginesProofs ---------------------------
(***************************************************************************)
(* Proofs about the engines that talk to a tracker and what is served from *)
(* them: the logins of a driver that keeps a cookie session, those of a     *)
(* Cardigann engine, its search and its grabs, and the feeds.               *)
(***************************************************************************)
EXTENDS Sessions, Logins, Scrape, Downloads, Feeds, OrdersProofs, FiniteSetTheorems, SequenceTheorems, TLAPS

---------------------------------------------------------------------------
(***************************************************************************)
(* Sessions, for any number of requests and logins: one login for each      *)
(* generation, no new session condemned for an old one, and a jar that      *)
(* matches the session and the settings when nobody logs in.                *)
(***************************************************************************)

Holding == {"clear", "login", "persist", "failed"}
Sending == {"renew", "renewed", "send", "sent"}

(* What a request may rely on while it has the gate: the session is the one   *)
(* it replaces, the settings still hold that session, and its login is the    *)
(* first of the generation.  A session with a cookie is only replaced once    *)
(* the tracker has refused it.                                               *)
HolderOk(r) ==
  caller[r].pc \in Holding =>
    /\ caller[r].gen = session.generation
    /\ saved = session.cookie
    /\ caller[r].pc = "clear" => jar = session.cookie
    /\ caller[r].pc # "clear" => caller[r].previous = session
    /\ caller[r].pc = "persist" => jar # 0 /\ session.generation < issued
    /\ session.cookie # 0 => session.generation \in refused
    /\ verdicts[session.generation] = 0

(* A request that was sent without a cookie met somebody else's login, so that *)
(* its session had been refused already.                                      *)
SenderOk(r) ==
  caller[r].pc \in Sending =>
    /\ session.cookie # 0 /\ caller[r].gen <= session.generation
    /\ (caller[r].pc = "sent" /\ caller[r].sent = 0) \/ caller[r].pc = "renew"
         => (caller[r].gen = session.generation => caller[r].gen \in refused)

VerdictsOk ==
  /\ \A g \in Cookie : verdicts[g] <= 1
  /\ \A g \in Cookie : g > session.generation => verdicts[g] = 0
  /\ gate = NoHolder /\ verdicts[session.generation] # 0 => KnownBad

SessionInv ==
  /\ SessionsTypeOK
  /\ session.generation <= issued /\ failure.generation <= session.generation
  /\ \A r \in Request : caller[r].pc \in Holding <=> gate = r
  /\ \A r \in Request : HolderOk(r)
  /\ \A r \in Request : SenderOk(r)
  /\ VerdictsOk /\ NotPoisoned /\ JarMatches

-----------------------------------------------------------------------------
LEMMA SessionInit == SessionsInit => SessionInv
<1> SUFFICES ASSUME SessionsInit PROVE SessionInv
  OBVIOUS
<1> USE SessionsAssumption DEF SessionsInit, Resting, NoFailure
<1>1. SessionsTypeOK
  BY DEF SessionsTypeOK, SessionState, RequestState, PCs, Cookie
<1>2. \A r \in Request : /\ caller[r].pc \in Holding <=> gate = r
                         /\ HolderOk(r) /\ SenderOk(r)
  BY DEF HolderOk, SenderOk, Holding, Sending
<1>3. VerdictsOk /\ NotPoisoned /\ JarMatches
  BY DEF VerdictsOk, NotPoisoned, JarMatches, KnownBad, Cookie
<1> QED BY <1>1, <1>2, <1>3 DEF SessionInv, Cookie

LEMMA RestingType == Resting \in RequestState /\ Resting.pc = "idle"
  BY SessionsAssumption DEF RequestState, Resting, PCs, Cookie, SessionState

LEMMA BecomesFacts ==
  ASSUME SessionsTypeOK, NEW r \in Request, NEW x \in RequestState, Becomes(r, x)
  PROVE  /\ caller' \in [Request -> RequestState]
         /\ caller'[r] = x
         /\ \A q \in Request \ {r} : caller'[q] = caller[q]
  BY DEF Becomes, SessionsTypeOK

LEMMA TypeFacts ==
  ASSUME SessionsTypeOK, NEW r \in Request
  PROVE  /\ caller[r] \in RequestState
         /\ caller[r].pc \in PCs /\ caller[r].gen \in Cookie /\ caller[r].sent \in Cookie
         /\ caller[r].previous \in SessionState
         /\ session.generation \in Cookie /\ session.cookie \in Cookie
         /\ failure.generation \in Cookie /\ failure.set \in BOOLEAN
         /\ MaxLogin \in Nat /\ 0 \in Cookie
<1>1. MaxLogin \in Nat /\ 0 \in Cookie
  BY SessionsAssumption DEF Cookie
<1>2. caller[r] \in RequestState /\ session \in SessionState
      /\ failure \in [generation : Cookie, set : BOOLEAN]
  BY DEF SessionsTypeOK
<1>3. caller[r].pc \in PCs /\ caller[r].gen \in Cookie /\ caller[r].sent \in Cookie
      /\ caller[r].previous \in SessionState
  BY <1>2, Zenon DEF RequestState
<1> QED BY <1>1, <1>2, <1>3 DEF SessionState

(* A step that only lets a request leave for a state where nothing is asked of *)
(* it, or of which everything is known already.                               *)
LEMMA OnlyMoves ==
  ASSUME SessionInv, NEW r \in Request, NEW x \in RequestState, Becomes(r, x),
         UNCHANGED <<session, failure, jar, saved, gate, good, issued, verdicts, refused>>,
         loginFaults' \in Nat, expiries' \in Nat,
         x.pc \in Holding <=> caller[r].pc \in Holding,
         HolderOk(r)', SenderOk(r)'
  PROVE  SessionInv'
<1>1. /\ caller' \in [Request -> RequestState]
      /\ \A q \in Request \ {r} : caller'[q] = caller[q]
      /\ caller'[r] = x
  BY BecomesFacts DEF SessionInv
<1>2. SessionsTypeOK'
  BY <1>1 DEF SessionInv, SessionsTypeOK
<1>3. \A q \in Request : HolderOk(q)' /\ SenderOk(q)' /\ (caller'[q].pc \in Holding <=> gate' = q)
  BY <1>1 DEF SessionInv, HolderOk, SenderOk
<1>4. VerdictsOk' /\ NotPoisoned' /\ JarMatches'
  BY DEF SessionInv, VerdictsOk, NotPoisoned, JarMatches, KnownBad
<1> QED BY <1>2, <1>3, <1>4 DEF SessionInv

LEMMA EnsureStep == ASSUME SessionInv, NEW r \in Request, Ensure(r) PROVE SessionInv'
<1> DEFINE x == [Resting EXCEPT !.gen = session.generation,
                                !.pc = IF session.cookie # 0 THEN "send" ELSE "ensure"]
<1>1. x \in RequestState /\ x.gen = session.generation
      /\ x.pc = IF session.cookie # 0 THEN "send" ELSE "ensure"
  BY TypeFacts, RestingType DEF SessionInv, RequestState, PCs
<1>2. Becomes(r, x)
  BY DEF Ensure
<1> HIDE DEF x
<1>3. caller'[r] = x /\ SessionsTypeOK
  BY <1>1, <1>2, BecomesFacts DEF SessionInv
<1>4. HolderOk(r)' /\ SenderOk(r)'
  BY <1>1, <1>3, TypeFacts DEF Ensure, HolderOk, SenderOk, Holding, Sending, Cookie
<1> QED BY <1>1, <1>2, <1>3, <1>4, OnlyMoves DEF Ensure, trackerVars, Holding, ReqAt, SessionsTypeOK

(* Whoever gets the gate finds that its login would be the first. *)
LEMMA TakesGate ==
  ASSUME SessionInv, NEW r \in Request, NEW x \in RequestState, Becomes(r, x),
         gate = NoHolder, gate' = r, ~KnownBad,
         x.pc = "clear", x.gen = session.generation,
         session.cookie # 0 => session.generation \in refused,
         UNCHANGED <<session, failure, jar, saved, verdicts, refused, loginFaults, trackerVars>>
  PROVE  SessionInv'
<1> USE DEF trackerVars
<1>1. /\ caller' \in [Request -> RequestState]
      /\ \A q \in Request \ {r} : caller'[q] = caller[q]
      /\ caller'[r] = x
  BY BecomesFacts DEF SessionInv
<1>2. SessionsTypeOK'
  BY <1>1 DEF SessionInv, SessionsTypeOK
<1>3. \A q \in Request : caller[q].pc \notin Holding
  BY SessionsAssumption DEF SessionInv
<1>4. \A q \in Request \ {r} : HolderOk(q)' /\ SenderOk(q)' /\ (caller'[q].pc \in Holding <=> gate' = q)
  BY <1>1, <1>3 DEF SessionInv, HolderOk, SenderOk
<1>5. session.generation \in Cookie /\ verdicts[session.generation] = 0
  BY TypeFacts DEF SessionInv, VerdictsOk
<1>6. HolderOk(r)' /\ SenderOk(r)' /\ (caller'[r].pc \in Holding <=> gate' = r)
  BY <1>1, <1>5 DEF SessionInv, HolderOk, SenderOk, JarMatches, Holding, Sending
<1>7. VerdictsOk' /\ NotPoisoned' /\ JarMatches'
  BY SessionsAssumption DEF SessionInv, VerdictsOk, NotPoisoned, JarMatches, KnownBad
<1> QED BY <1>2, <1>4, <1>6, <1>7 DEF SessionInv

LEMMA EnsureAtGateStep == ASSUME SessionInv, NEW r \in Request, EnsureAtGate(r) PROVE SessionInv'
<1> USE DEF EnsureAtGate, ReqAt
<1>1. caller[r].pc = "ensure" /\ caller[r] \in RequestState /\ session.generation \in Cookie
      /\ session.cookie \in Cookie
  BY TypeFacts DEF SessionInv
<1>2. CASE KnownBad
  <2>1. Becomes(r, Resting)
    BY <1>2
  <2>2. HolderOk(r)' /\ SenderOk(r)'
    BY <2>1, RestingType, BecomesFacts DEF SessionInv, HolderOk, SenderOk, Holding, Sending
  <2> QED BY <1>1, <1>2, <2>1, <2>2, RestingType, OnlyMoves
          DEF trackerVars, Holding, SessionInv, SessionsTypeOK
<1>3. CASE ~KnownBad /\ session.cookie # 0
  <2> DEFINE x == [caller[r] EXCEPT !.pc = "send", !.gen = session.generation]
  <2>1. x \in RequestState /\ x.pc = "send" /\ x.gen = session.generation
    BY <1>1 DEF PCs, RequestState
  <2>2. Becomes(r, x)
    BY <1>3
  <2> HIDE DEF x
  <2>3. HolderOk(r)' /\ SenderOk(r)'
    BY <1>1, <1>3, <2>1, <2>2, BecomesFacts
       DEF SessionInv, HolderOk, SenderOk, Holding, Sending, Cookie
  <2> QED BY <1>1, <1>3, <2>1, <2>2, <2>3, OnlyMoves
          DEF trackerVars, Holding, SessionInv, SessionsTypeOK
<1>4. CASE ~KnownBad /\ session.cookie = 0
  <2> DEFINE x == [caller[r] EXCEPT !.pc = "clear", !.gen = session.generation]
  <2>1. x \in RequestState /\ x.pc = "clear" /\ x.gen = session.generation
    BY <1>1 DEF PCs, RequestState
  <2>2. Becomes(r, x)
    BY <1>4
  <2> HIDE DEF x
  <2> QED BY <1>4, <2>1, <2>2, TakesGate
<1> QED BY <1>2, <1>3, <1>4

LEMMA RenewStep == ASSUME SessionInv, NEW r \in Request, Renew(r) PROVE SessionInv'
<1> USE DEF Renew, ReqAt
<1>1. /\ caller[r].pc = "renew" /\ caller[r] \in RequestState /\ SenderOk(r)
      /\ session.cookie # 0 /\ session.generation \in Cookie
      /\ caller[r].gen <= session.generation
      /\ caller[r].gen = session.generation => caller[r].gen \in refused
  BY TypeFacts DEF SessionInv, SenderOk, Sending
<1>2. CASE Superseded(caller[r].gen)
  <2> DEFINE x == [caller[r] EXCEPT !.pc = "renewed"]
  <2>1. x \in RequestState /\ x.pc = "renewed" /\ x.gen = caller[r].gen
    BY <1>1 DEF PCs, RequestState
  <2>2. Becomes(r, x)
    BY <1>2 DEF Goes
  <2> HIDE DEF x
  <2>3. HolderOk(r)' /\ SenderOk(r)'
    BY <1>1, <1>2, <2>1, <2>2, BecomesFacts
       DEF SessionInv, HolderOk, SenderOk, Holding, Sending, Cookie
  <2> QED BY <1>1, <1>2, <2>1, <2>2, <2>3, OnlyMoves
          DEF trackerVars, Holding, SessionInv, SessionsTypeOK
<1>3. CASE ~Superseded(caller[r].gen) /\ KnownBad
  <2>1. Becomes(r, Resting)
    BY <1>3
  <2>2. HolderOk(r)' /\ SenderOk(r)'
    BY <2>1, RestingType, BecomesFacts DEF SessionInv, HolderOk, SenderOk, Holding, Sending
  <2> QED BY <1>1, <1>3, <2>1, <2>2, RestingType, OnlyMoves
          DEF trackerVars, Holding, SessionInv, SessionsTypeOK
<1>4. CASE ~Superseded(caller[r].gen) /\ ~KnownBad
  <2> DEFINE x == [caller[r] EXCEPT !.pc = "clear", !.second = TRUE]
  <2>1. x \in RequestState /\ x.pc = "clear" /\ x.gen = caller[r].gen
    BY <1>1 DEF PCs, RequestState
  <2>2. Becomes(r, x)
    BY <1>4
  <2>3. x.gen = session.generation /\ session.generation \in refused
    BY <1>1, <1>4, <2>1 DEF Superseded
  <2> HIDE DEF x
  <2> QED BY <1>4, <2>1, <2>2, <2>3, TakesGate
<1> QED BY <1>2, <1>3, <1>4

LEMMA SendingStep ==
  ASSUME SessionInv, NEW r \in Request, Renewed(r) \/ Send(r) \/ GoesThrough(r) \/ GiveUp(r)
  PROVE  SessionInv'
<1>1. /\ caller[r].pc \in PCs /\ caller[r] \in RequestState /\ SenderOk(r)
      /\ session.generation \in Cookie /\ jar \in Cookie
  BY TypeFacts DEF SessionInv, SessionsTypeOK
<1>2. CASE Renewed(r)
  <2> DEFINE x == [caller[r] EXCEPT !.pc = "send", !.second = TRUE, !.gen = session.generation]
  <2>1. x \in RequestState /\ x.pc = "send" /\ x.gen = session.generation
    BY <1>1 DEF PCs, RequestState
  <2>2. Becomes(r, x)
    BY <1>2 DEF Renewed
  <2> HIDE DEF x
  <2>3. HolderOk(r)' /\ SenderOk(r)'
    BY <1>1, <1>2, <2>1, <2>2, BecomesFacts
       DEF Renewed, ReqAt, SessionInv, HolderOk, SenderOk, Holding, Sending, Cookie
  <2> QED BY <1>1, <1>2, <2>1, <2>2, <2>3, OnlyMoves
          DEF Renewed, ReqAt, trackerVars, Holding, SessionInv, SessionsTypeOK
<1>3. CASE Send(r)
  <2> DEFINE x == [caller[r] EXCEPT !.pc = "sent", !.sent = jar]
  <2>1. x \in RequestState /\ x.pc = "sent" /\ x.gen = caller[r].gen /\ x.sent = jar
    BY <1>1 DEF PCs, RequestState
  <2>2. Becomes(r, x)
    BY <1>3 DEF Send
  <2> HIDE DEF x
  <2>3. jar = 0 /\ session.cookie # 0 => session.generation \in refused
    BY DEF SessionInv, SessionsTypeOK, JarMatches, HolderOk
  <2>4. HolderOk(r)' /\ SenderOk(r)'
    BY <1>1, <1>3, <2>1, <2>2, <2>3, BecomesFacts
       DEF Send, ReqAt, SessionInv, HolderOk, SenderOk, Holding, Sending, Cookie
  <2> QED BY <1>1, <1>3, <2>1, <2>2, <2>4, OnlyMoves
          DEF Send, ReqAt, trackerVars, Holding, SessionInv, SessionsTypeOK
<1>4. CASE GoesThrough(r) \/ GiveUp(r)
  <2>1. Becomes(r, Resting) /\ caller[r].pc \notin Holding
    BY <1>4 DEF GoesThrough, GiveUp, ReqAt, Holding
  <2>2. HolderOk(r)' /\ SenderOk(r)'
    BY <2>1, RestingType, BecomesFacts DEF SessionInv, HolderOk, SenderOk, Holding, Sending
  <2>3. loginFaults' \in Nat
    BY <1>4 DEF GoesThrough, GiveUp, Failing, SessionInv, SessionsTypeOK
  <2> QED BY <1>4, <2>1, <2>2, <2>3, RestingType, OnlyMoves
          DEF GoesThrough, GiveUp, trackerVars, Holding, SessionInv, SessionsTypeOK
<1> QED BY <1>2, <1>3, <1>4

-----------------------------------------------------------------------------
(* The steps of the one request that has the gate. *)
LEMMA HolderFacts ==
  ASSUME SessionInv, NEW r \in Request, caller[r].pc \in Holding
  PROVE  /\ gate = r /\ gate # NoHolder
         /\ \A q \in Request \ {r} : caller[q].pc \notin Holding
         /\ caller[r] \in RequestState /\ HolderOk(r)
         /\ session \in SessionState /\ session.generation \in Cookie
         /\ session.cookie \in Cookie /\ jar \in Cookie /\ saved \in Cookie
  BY SessionsAssumption, TypeFacts DEF SessionInv, SessionsTypeOK

LEMMA ClearJarStep == ASSUME SessionInv, NEW r \in Request, ClearJar(r) PROVE SessionInv'
<1> DEFINE x == [caller[r] EXCEPT !.pc = "login", !.previous = session]
<1> USE DEF ClearJar, ReqAt, trackerVars
<1>1. caller[r].pc \in Holding
  BY DEF Holding
<1>2. x \in RequestState /\ x.pc = "login" /\ x.gen = caller[r].gen /\ x.previous = session
  BY <1>1, HolderFacts DEF PCs, RequestState
<1> HIDE DEF x
<1>3. /\ caller' \in [Request -> RequestState]
      /\ \A q \in Request \ {r} : caller'[q] = caller[q]
      /\ caller'[r] = x
  BY <1>2, BecomesFacts DEF x, SessionInv
<1>4. SessionsTypeOK'
  BY <1>3, SessionsAssumption DEF SessionInv, SessionsTypeOK, Cookie
<1>5. \A q \in Request \ {r} : HolderOk(q)' /\ SenderOk(q)' /\ (caller'[q].pc \in Holding <=> gate' = q)
  BY <1>1, <1>3, HolderFacts DEF SessionInv, HolderOk, SenderOk
<1>6. HolderOk(r)' /\ SenderOk(r)' /\ (caller'[r].pc \in Holding <=> gate' = r)
  BY <1>1, <1>2, <1>3, HolderFacts DEF HolderOk, SenderOk, Holding, Sending
<1>7. VerdictsOk' /\ NotPoisoned' /\ JarMatches'
  BY <1>1, HolderFacts DEF SessionInv, VerdictsOk, NotPoisoned, JarMatches, KnownBad
<1> QED BY <1>4, <1>5, <1>6, <1>7 DEF SessionInv

(* A login that is lost or refused, before anything is put back. *)
LEMMA FailsStep ==
  ASSUME SessionInv, NEW r \in Request, NEW got \in {"refused", "lost"},
         caller[r].pc \in {"login", "persist"},
         Becomes(r, [caller[r] EXCEPT !.pc = "failed", !.got = got]), Failing,
         UNCHANGED <<session, failure, jar, saved, gate, verdicts, refused, trackerVars>>
  PROVE  SessionInv'
<1> DEFINE x == [caller[r] EXCEPT !.pc = "failed", !.got = got]
<1>1. caller[r].pc \in Holding
  BY DEF Holding
<1>2. x \in RequestState /\ x.pc = "failed" /\ x.gen = caller[r].gen /\ x.previous = caller[r].previous
  BY <1>1, HolderFacts DEF PCs, RequestState
<1> HIDE DEF x
<1>3. HolderOk(r)' /\ SenderOk(r)'
  BY <1>1, <1>2, HolderFacts, BecomesFacts
     DEF x, trackerVars, SessionInv, HolderOk, SenderOk, Holding, Sending
<1>4. loginFaults' \in Nat /\ x.pc \in Holding
  BY <1>2 DEF Failing, Holding, SessionInv, SessionsTypeOK
<1> QED BY <1>1, <1>2, <1>3, <1>4, OnlyMoves DEF x, trackerVars, SessionInv, SessionsTypeOK

LEMMA LoginStep == ASSUME SessionInv, NEW r \in Request, performLogin(r) PROVE SessionInv'
<1> USE DEF ReqAt
<1>1. caller[r].pc = "login" /\ caller[r].pc \in Holding
  BY DEF performLogin, Holding
<1>2. CASE issued' = issued + 1
  <2> DEFINE x == [caller[r] EXCEPT !.pc = "persist"]
  <2>1. x \in RequestState /\ x.pc = "persist" /\ x.gen = caller[r].gen
        /\ x.previous = caller[r].previous
    BY <1>1, HolderFacts DEF PCs, RequestState
  <2>2. issued < MaxLogin /\ issued \in Nat /\ jar' = issued + 1 /\ good' = good \cup {issued + 1}
        /\ Becomes(r, x)
        /\ UNCHANGED <<session, failure, saved, gate, verdicts, refused, loginFaults, expiries>>
    BY <1>2, SessionsAssumption
       DEF performLogin, Goes, SessionInv, SessionsTypeOK, Cookie, trackerVars
  <2> HIDE DEF x
  <2>3. /\ caller' \in [Request -> RequestState]
        /\ \A q \in Request \ {r} : caller'[q] = caller[q]
        /\ caller'[r] = x
    BY <2>1, <2>2, BecomesFacts DEF SessionInv
  <2>4. SessionsTypeOK'
    BY <1>2, <2>2, <2>3, SessionsAssumption DEF SessionInv, SessionsTypeOK, Cookie
  <2>5. \A q \in Request \ {r} : HolderOk(q)' /\ SenderOk(q)' /\ (caller'[q].pc \in Holding <=> gate' = q)
    BY <1>1, <2>2, <2>3, HolderFacts DEF SessionInv, HolderOk, SenderOk
  <2>6. HolderOk(r)' /\ SenderOk(r)' /\ (caller'[r].pc \in Holding <=> gate' = r)
    BY <1>1, <1>2, <2>1, <2>2, <2>3, HolderFacts
       DEF HolderOk, SenderOk, Holding, Sending, SessionInv, Cookie
  <2>7. VerdictsOk' /\ NotPoisoned' /\ JarMatches'
    BY <1>1, <2>2, HolderFacts DEF SessionInv, VerdictsOk, NotPoisoned, JarMatches, KnownBad
  <2>8. session'.generation <= issued' /\ failure'.generation <= session'.generation
    BY <1>1, <1>2, <2>2, HolderFacts DEF SessionInv, Cookie
  <2> QED BY <2>4, <2>5, <2>6, <2>7, <2>8 DEF SessionInv
<1>3. CASE UNCHANGED <<jar, trackerVars>>
  <2>1. issued' # issued + 1
    BY <1>3, SessionsAssumption DEF SessionInv, SessionsTypeOK, Cookie, trackerVars
  <2>2. PICK how \in {"refused", "lost"} :
          Becomes(r, [caller[r] EXCEPT !.pc = "failed", !.got = how])
    BY <2>1 DEF performLogin
  <2> QED BY <1>1, <1>3, <2>1, <2>2, FailsStep DEF performLogin
<1> QED BY <1>2, <1>3 DEF performLogin

(* The new generation has no verdict yet, and nobody has been refused in it. *)
LEMMA CompleteStep == ASSUME SessionInv, NEW r \in Request, CompleteLogin(r) PROVE SessionInv'
<1> USE DEF ReqAt
<1> DEFINE new == caller[r].previous.generation + 1
           x == IF caller[r].second THEN [caller[r] EXCEPT !.pc = "renewed"]
                ELSE [caller[r] EXCEPT !.pc = "send", !.gen = session'.generation]
<1>1. caller[r].pc = "persist" /\ caller[r].pc \in Holding
  BY DEF CompleteLogin, Holding
<1>2. CASE gate' = NoHolder
  <2>1. /\ saved' = jar /\ session' = [cookie |-> jar, generation |-> new] /\ failure' = NoFailure
        /\ verdicts' = [verdicts EXCEPT ![caller[r].gen] = @ + 1]
        /\ Becomes(r, x)
        /\ UNCHANGED <<jar, refused, loginFaults, good, issued, expiries>>
    BY <1>1, <1>2, HolderFacts DEF CompleteLogin, Goes, trackerVars
  <2>2. /\ caller[r].gen = session.generation /\ new = session.generation + 1
        /\ session.generation \in Nat /\ new \in Cookie /\ new <= issued
        /\ jar # 0 /\ jar \in Cookie /\ verdicts[session.generation] = 0
    <3>1. HolderOk(r) /\ session.generation \in Cookie /\ jar \in Cookie
      BY <1>1, HolderFacts
    <3>2. caller[r].previous = session /\ session.generation < issued
      BY <1>1, <3>1 DEF HolderOk
    <3>3. issued \in Cookie
      BY DEF SessionInv, SessionsTypeOK
    <3> QED BY <1>1, <3>1, <3>2, <3>3, SessionsAssumption DEF HolderOk, Cookie
  <2>3. session' \in SessionState /\ session'.generation = new /\ session'.cookie = jar
    BY <2>1, <2>2 DEF SessionState
  <2>4. x \in RequestState /\ x.pc \in {"renewed", "send"} /\ x.gen <= new
    <3>1. x \in RequestState
      BY <1>1, <2>2, <2>3, HolderFacts DEF RequestState, PCs
    <3>2. caller[r].second => x.gen = session.generation /\ x.pc = "renewed"
      BY <1>1, <2>2, HolderFacts DEF RequestState
    <3>3. ~caller[r].second => x.gen = new /\ x.pc = "send"
      BY <1>1, <2>2, <2>3, HolderFacts DEF RequestState
    <3> HIDE DEF x, new
    <3> QED BY <2>2, <3>1, <3>2, <3>3
  <2> HIDE DEF x, new
  <2>5. /\ caller' \in [Request -> RequestState]
        /\ \A q \in Request \ {r} : caller'[q] = caller[q]
        /\ caller'[r] = x
    BY <2>1, <2>4, BecomesFacts DEF SessionInv
  <2>6. verdicts' \in [Cookie -> Nat] /\ verdicts'[session.generation] = 1
        /\ \A g \in Cookie \ {session.generation} : verdicts'[g] = verdicts[g]
    BY <1>1, <2>1, <2>2, HolderFacts DEF SessionInv, SessionsTypeOK
  <2>7. SessionsTypeOK'
    BY <1>2, <2>1, <2>2, <2>3, <2>5, <2>6, SessionsAssumption
       DEF SessionInv, SessionsTypeOK, NoFailure, Cookie
  <2>8. \A q \in Request : caller'[q].pc \notin Holding /\ HolderOk(q)'
    BY <1>1, <2>4, <2>5, HolderFacts DEF HolderOk, Holding
  <2>9. SenderOk(r)'
    BY <2>2, <2>3, <2>4, <2>5 DEF SenderOk, Sending
  <2>10. ASSUME NEW q \in Request \ {r} PROVE SenderOk(q)'
    <3>1. caller'[q] = caller[q] /\ caller[q].gen \in Cookie /\ SenderOk(q)
      BY <2>5, TypeFacts DEF SessionInv
    <3> QED BY <2>2, <2>3, <3>1 DEF SenderOk, Cookie
  <2>11. VerdictsOk'
    BY <1>2, <2>1, <2>2, <2>3, <2>6, SessionsAssumption
       DEF SessionInv, VerdictsOk, Cookie
  <2>12. NotPoisoned' /\ JarMatches' /\ failure'.generation <= session'.generation
    BY <2>1, <2>2, <2>3 DEF NotPoisoned, JarMatches, KnownBad, NoFailure
  <2> QED BY <1>2, <2>1, <2>2, <2>3, <2>7, <2>8, <2>9, <2>10, <2>11, <2>12, SessionsAssumption
          DEF SessionInv
<1>3. CASE UNCHANGED gate
  <2>1. gate # NoHolder
    BY <1>1, HolderFacts
  <2> QED BY <1>1, <1>3, <2>1, FailsStep DEF CompleteLogin, trackerVars
<1> QED BY <1>2, <1>3 DEF CompleteLogin

LEMMA LoginFailedStep == ASSUME SessionInv, NEW r \in Request, LoginFailed(r) PROVE SessionInv'
<1> USE DEF ReqAt, LoginFailed, trackerVars
<1> DEFINE told == caller[r].got = "refused"
<1>1. caller[r].pc = "failed" /\ caller[r].pc \in Holding
  BY DEF Holding
<1>2. /\ caller[r].gen = session.generation /\ session.generation \in Cookie
      /\ verdicts[session.generation] = 0 /\ saved = session.cookie
      /\ caller[r].previous.cookie = session.cookie /\ session.cookie \in Cookie
  BY <1>1, HolderFacts DEF HolderOk
<1>3. jar' = session.cookie /\ gate' = NoHolder
  BY <1>2 DEF Restored
<1>4. /\ caller' \in [Request -> RequestState]
      /\ \A q \in Request \ {r} : caller'[q] = caller[q]
      /\ caller'[r] = Resting
  BY RestingType, BecomesFacts DEF SessionInv
<1>5. /\ verdicts' \in [Cookie -> Nat]
      /\ verdicts'[session.generation] = IF told THEN 1 ELSE 0
      /\ \A g \in Cookie \ {session.generation} : verdicts'[g] = verdicts[g]
  BY <1>2 DEF SessionInv, SessionsTypeOK
<1>6. /\ failure' \in [generation : Cookie, set : BOOLEAN]
      /\ told => failure'.set = TRUE /\ failure'.generation = session.generation
      /\ ~told => failure'.set = FALSE
      /\ failure'.generation <= session.generation
  BY <1>2, SessionsAssumption DEF NoFailure, Cookie
<1>7. /\ refused' \subseteq Cookie /\ refused \subseteq refused'
      /\ told => session.generation \in refused'
  BY <1>2 DEF SessionInv, SessionsTypeOK
<1>8. SessionsTypeOK'
  BY <1>2, <1>3, <1>4, <1>5, <1>6, <1>7 DEF SessionInv, SessionsTypeOK
<1>9. \A q \in Request : caller'[q].pc \notin Holding /\ HolderOk(q)'
  BY <1>1, <1>4, HolderFacts, RestingType DEF HolderOk, Holding
<1>10. \A q \in Request : SenderOk(q)'
  BY <1>4, <1>7, RestingType DEF SessionInv, SenderOk, Sending
<1>11. VerdictsOk'
  <2>1. told => KnownBad'
    BY <1>6 DEF KnownBad
  <2>2. \A g \in Cookie : /\ verdicts'[g] <= 1
                          /\ g > session.generation => verdicts'[g] = 0
    BY <1>2, <1>5 DEF SessionInv, VerdictsOk, Cookie
  <2>3. verdicts'[session'.generation] # 0 => KnownBad'
    BY <1>5, <2>1
  <2> QED BY <2>2, <2>3 DEF VerdictsOk
<1>12. NotPoisoned' /\ JarMatches'
  BY <1>2, <1>3, <1>6, <1>7 DEF NotPoisoned, JarMatches, KnownBad
<1> QED BY <1>3, <1>6, <1>8, <1>9, <1>10, <1>11, <1>12, SessionsAssumption DEF SessionInv

LEMMA RefusedStep == ASSUME SessionInv, NEW r \in Request, Refused(r) PROVE SessionInv'
<1> USE DEF ReqAt, Refused, trackerVars
<1>1. /\ caller[r].pc = "sent" /\ caller[r].pc \notin Holding /\ caller[r] \in RequestState
      /\ caller[r].gen \in Cookie /\ session.generation \in Cookie
      /\ session.cookie # 0 /\ caller[r].gen <= session.generation
      /\ caller[r].sent = 0 /\ caller[r].gen = session.generation => caller[r].gen \in refused
  BY TypeFacts DEF SessionInv, SenderOk, Sending, Holding
<1>2. /\ refused' \subseteq Cookie /\ refused \subseteq refused'
      /\ caller[r].gen = session.generation => caller[r].gen \in refused'
  BY <1>1 DEF SessionInv, SessionsTypeOK
<1>3. PICK x \in RequestState : /\ Becomes(r, x) /\ x.pc \in {"idle", "renew"}
                                /\ x.pc = "renew" => x.gen = caller[r].gen
  <2>1. [caller[r] EXCEPT !.pc = "renew"] \in RequestState
        /\ [caller[r] EXCEPT !.pc = "renew"].pc = "renew"
        /\ [caller[r] EXCEPT !.pc = "renew"].gen = caller[r].gen
    BY <1>1 DEF PCs, RequestState
  <2>2. CASE caller[r].second BY <2>2, RestingType
  <2>3. CASE ~caller[r].second BY <2>1, <2>3 DEF Goes
  <2> QED BY <2>2, <2>3
<1>4. /\ caller' \in [Request -> RequestState]
      /\ \A q \in Request \ {r} : caller'[q] = caller[q]
      /\ caller'[r] = x
  BY <1>3, BecomesFacts DEF SessionInv
<1>5. \/ UNCHANGED failure
      \/ /\ failure' = [generation |-> session.generation, set |-> TRUE]
         /\ caller[r].gen = session.generation
  BY DEF Remembered
<1>6. /\ failure' \in [generation : Cookie, set : BOOLEAN]
      /\ failure'.generation <= session.generation
      /\ KnownBad => KnownBad'
      /\ KnownBad' => session.generation \in refused'
  <2>1. CASE UNCHANGED failure
    BY <1>2, <2>1 DEF SessionInv, SessionsTypeOK, NotPoisoned, KnownBad
  <2>2. CASE /\ failure' = [generation |-> session.generation, set |-> TRUE]
             /\ caller[r].gen = session.generation
    <3>1. failure'.set = TRUE /\ failure'.generation = session.generation
      BY <2>2
    <3> QED BY <1>1, <1>2, <2>2, <3>1 DEF KnownBad, Cookie
  <2> QED BY <1>5, <2>1, <2>2
<1>7. SessionsTypeOK'
  BY <1>2, <1>4, <1>6 DEF SessionInv, SessionsTypeOK
<1>8. \A q \in Request : HolderOk(q)' /\ (caller'[q].pc \in Holding <=> gate' = q)
  BY <1>1, <1>2, <1>3, <1>4 DEF SessionInv, HolderOk, Holding
<1>9. SenderOk(r)'
  BY <1>1, <1>2, <1>3, <1>4 DEF SenderOk, Sending
<1>10. \A q \in Request \ {r} : SenderOk(q)'
  BY <1>2, <1>4 DEF SessionInv, SenderOk
<1>11. VerdictsOk' /\ NotPoisoned' /\ JarMatches'
  BY <1>6 DEF SessionInv, VerdictsOk, NotPoisoned, JarMatches
<1> QED BY <1>6, <1>7, <1>8, <1>9, <1>10, <1>11 DEF SessionInv

LEMMA ExpireStep == ASSUME SessionInv, Expire PROVE SessionInv'
<1> USE DEF Expire
<1>1. SessionsTypeOK'
  BY DEF SessionInv, SessionsTypeOK
<1>2. \A q \in Request : HolderOk(q)' /\ SenderOk(q)'
  BY DEF SessionInv, HolderOk, SenderOk
<1>3. VerdictsOk' /\ NotPoisoned' /\ JarMatches'
  BY Zenon DEF SessionInv, VerdictsOk, NotPoisoned, JarMatches, KnownBad
<1> QED BY <1>1, <1>2, <1>3 DEF SessionInv

LEMMA SessionStep == SessionInv /\ [SessionsNext]_sessionVars => SessionInv'
<1> SUFFICES ASSUME SessionInv, [SessionsNext]_sessionVars PROVE SessionInv'
  OBVIOUS
<1>1. ASSUME NEW r \in Request, Ensure(r) PROVE SessionInv'
  BY <1>1, EnsureStep
<1>2. ASSUME NEW r \in Request, EnsureAtGate(r) PROVE SessionInv'
  BY <1>2, EnsureAtGateStep
<1>3. ASSUME NEW r \in Request, Renew(r) PROVE SessionInv'
  BY <1>3, RenewStep
<1>4. ASSUME NEW r \in Request, Renewed(r) \/ Send(r) \/ GoesThrough(r) \/ GiveUp(r)
      PROVE  SessionInv'
  BY <1>4, SendingStep
<1>5. ASSUME NEW r \in Request, ClearJar(r) PROVE SessionInv'
  BY <1>5, ClearJarStep
<1>6. ASSUME NEW r \in Request, performLogin(r) PROVE SessionInv'
  BY <1>6, LoginStep
<1>7. ASSUME NEW r \in Request, CompleteLogin(r) PROVE SessionInv'
  BY <1>7, CompleteStep
<1>8. ASSUME NEW r \in Request, LoginFailed(r) PROVE SessionInv'
  BY <1>8, LoginFailedStep
<1>9. ASSUME NEW r \in Request, Refused(r) PROVE SessionInv'
  BY <1>9, RefusedStep
<1>10. CASE Expire
  BY <1>10, ExpireStep
<1>11. CASE UNCHANGED sessionVars
  <2> USE <1>11 DEF sessionVars
  <2>1. SessionsTypeOK'
    BY DEF SessionInv, SessionsTypeOK
  <2>2. \A q \in Request : HolderOk(q)' /\ SenderOk(q)'
    BY DEF SessionInv, HolderOk, SenderOk
  <2>3. VerdictsOk' /\ NotPoisoned' /\ JarMatches'
    BY Zenon DEF SessionInv, VerdictsOk, NotPoisoned, JarMatches, KnownBad
  <2> QED BY <2>1, <2>2, <2>3 DEF SessionInv
<1> QED BY <1>1, <1>2, <1>3, <1>4, <1>5, <1>6, <1>7, <1>8, <1>9, <1>10, <1>11 DEF SessionsNext

LEMMA SessionInvariant == SessionsSpec => []SessionInv
<1> QED BY SessionInit, SessionStep, PTL DEF SessionsSpec

-----------------------------------------------------------------------------
(* The types of a driver's session (native/cookiesession.go). *)
THEOREM SessionTypeCorrect == SessionsSpec => []SessionsTypeOK
<1>1. SessionInv => SessionsTypeOK
  BY DEF SessionInv
<1> QED BY <1>1, SessionInvariant, PTL

(* However many requests are refused together, the tracker answers one login  *)
(* for each generation of the session (Renew, RememberLoginError).            *)
THEOREM OneLoginEach == SessionsSpec => []RenewedOnce
<1>1. SessionInv => RenewedOnce
  BY DEF SessionInv, VerdictsOk, RenewedOnce, Cookie
<1> QED BY <1>1, SessionInvariant, PTL

(* A session is given up only on what the tracker said of it, whatever is      *)
(* learnt late of an older one (RememberLoginError).                          *)
THEOREM LateRefusalHarmless == SessionsSpec => []NotPoisoned
<1>1. SessionInv => NotPoisoned
  BY DEF SessionInv
<1> QED BY <1>1, SessionInvariant, PTL

(* Both together, the property the run checks (Renew, RememberLoginError).    *)
THEOREM LoginsSpared == SessionsSpec => []LoginsAreSpared
<1>1. SessionInv => LoginsAreSpared
  BY DEF SessionInv, VerdictsOk, LoginsAreSpared, RenewedOnce, Cookie
<1> QED BY <1>1, SessionInvariant, PTL

(* A failed login leaves the cookies and the settings as it found them         *)
(* (CompleteLogin, the rollback of the jar).                                  *)
THEOREM JarIsSession == SessionsSpec => []JarMatches
<1>1. SessionInv => JarMatches
  BY DEF SessionInv
<1> QED BY <1>1, SessionInvariant, PTL

---------------------------------------------------------------------------
(***************************************************************************)
(* Logins, for any number of searches, grabs and tests: beyond the first,   *)
(* every login answers a failed one, a refused search or a test, and a      *)
(* search is failed as logged out only when the tracker forgot its session  *)
(* after it had logged in.                                                  *)
(***************************************************************************)

(* Who is inside a login, and what is known of a query at each stage. *)
StageOk(c) ==
  /\ loginMu = c <=> query[c].pc \in {"probe", "login"} /\ ~Tests(c)
  /\ query[c].pc \in {"ensure", "send", "sent", "relogin"} => query[c].kind \in {"search", "grab"}
  /\ query[c].pc \in {"probe", "login"} => query[c].kind # "none"
  /\ query[c].pc \in {"ensure", "relogin"} => ~query[c].retried
  /\ query[c].pc = "relogin" => query[c].kind = "search"
  /\ query[c].pc = "probe" => ~query[c].retried

(* A search that has logged in again carries a cookie the tracker accepts,   *)
(* unless the tracker has forgotten it since.                                *)
FreshOk(c) ==
  query[c].kind = "search" /\ query[c].retried /\ ~query[c].lost =>
    /\ query[c].pc = "send" => jarCookie \in accepted
    /\ query[c].pc = "sent" => query[c].sent \in accepted
    /\ query[c].pc # "loggedOut"

(* The queries that may still log in although nothing failed: a test, and a  *)
(* search that was refused.                                                  *)
Entitled == {c \in Query : QueryAt(c, "relogin") \/ (Tests(c) /\ query[c].pc \in {"probe", "login"})}

(* An engine that remembers no login has one to make, unless it has failed.   *)
TallyOk ==
  /\ IsFiniteSet(Entitled)
  /\ sequences + Cardinality(Entitled) + (IF loggedIn THEN 0 ELSE 1)
       <= 1 + failures + refusals + tests

LoginsInv ==
  /\ LoginsTypeOK /\ cookies \in 0 .. MaxCookie
  /\ loginMu # NoQuery => ~loggedIn
  /\ \A c \in Query : StageOk(c) /\ FreshOk(c)
  /\ \A c \in Query : query[c].kind = "search" /\ QueryAt(c, "loggedOut") => query[c].retried
  /\ TallyOk

-----------------------------------------------------------------------------
LEMMA LoginsStart == LoginsInit => LoginsInv
<1> SUFFICES ASSUME LoginsInit PROVE LoginsInv
  OBVIOUS
<1> USE LoginsAssumption DEF LoginsAssumption, LoginsInit
<1>1. IdleQuery \in QueryState
  BY DEF IdleQuery, QueryState
<1>2. LoginsTypeOK /\ cookies \in 0 .. MaxCookie
  <2>1. query \in [Query -> QueryState]
    BY <1>1
  <2>2. probes \in BOOLEAN
    OBVIOUS
  <2>3. jarCookie \in 0 .. cookies /\ accepted \subseteq 1 .. cookies
    OBVIOUS
  <2>4. cookies \in 0 .. MaxCookie
    OBVIOUS
  <2> QED BY <2>1, <2>2, <2>3, <2>4 DEF LoginsTypeOK
<1>3. \A c \in Query : StageOk(c) /\ FreshOk(c)
  BY DEF StageOk, FreshOk, Tests, IdleQuery
<1>4. Entitled = {}
  BY DEF Entitled, QueryAt, Tests, IdleQuery
<1>5. IsFiniteSet(Entitled) /\ Cardinality(Entitled) = 0
  BY <1>4, FS_EmptySet
<1>6. TallyOk
  BY <1>5 DEF TallyOk
<1> QED BY <1>2, <1>3, <1>6 DEF LoginsInv, QueryAt, IdleQuery

(* What a step does to the set of entitled queries, when it moves one query. *)
LEMMA EntitledGrows ==
  ASSUME IsFiniteSet(Entitled), NEW c, Entitled' = Entitled \cup {c}, c \notin Entitled
  PROVE  IsFiniteSet(Entitled)' /\ Cardinality(Entitled)' = Cardinality(Entitled) + 1
<1> QED BY FS_AddElement

LEMMA EntitledShrinks ==
  ASSUME IsFiniteSet(Entitled), NEW c, Entitled' = Entitled \ {c}, c \in Entitled
  PROVE  IsFiniteSet(Entitled)' /\ Cardinality(Entitled)' = Cardinality(Entitled) - 1
<1> QED BY FS_RemoveElement

LEMMA EntitledCounted ==
  ASSUME TallyOk PROVE Cardinality(Entitled) \in Nat
<1> QED BY FS_CardinalityType DEF TallyOk

LEMMA SessionMoved ==
  ASSUME NEW q \in QueryState, NEW pc \in {"ok", "relogin", "loggedOut"}
  PROVE  [q EXCEPT !.pc = pc] \in QueryState
<1> QED BY DEF QueryState

LEMMA AskedOnce ==
  ASSUME NEW q \in QueryState, NEW carried \in 0 .. MaxCookie
  PROVE  [q EXCEPT !.pc = "sent", !.sent = carried] \in QueryState
<1> QED BY DEF QueryState

LEMMA BeginStep ==
  ASSUME LoginsInv, NEW c \in Query, NEW kind \in {"search", "grab", "test"}, Begin(c, kind)
  PROVE  LoginsInv'
<1> USE LoginsAssumption DEF LoginsAssumption, LoginsInv, LoginsTypeOK, Begin, siteVars
<1> DEFINE began == [IdleQuery EXCEPT !.kind = kind,
                                      !.pc = IF kind = "test" THEN "probe" ELSE "ensure"]
<1>1. began \in QueryState /\ query'[c] = began
  <2>1. began \in QueryState
    <3>1. IdleQuery \in QueryState
      BY DEF IdleQuery, QueryState
    <3> QED BY <3>1 DEF QueryState
  <2>2. query'[c] = began
    OBVIOUS
  <2> QED BY <2>1, <2>2
<1>2. LoginsTypeOK' /\ (cookies \in 0 .. MaxCookie)'
  BY <1>1
<1>3. \A d \in Query : StageOk(d)' /\ FreshOk(d)'
  BY DEF StageOk, FreshOk, Tests, IdleQuery
<1>4. TallyOk'
  <2>1. c \notin Entitled
    BY DEF Entitled, QueryAt, Tests
  <2>2. CASE kind = "test"
    <3>1. Entitled' = Entitled \cup {c}
      BY <2>2 DEF Entitled, QueryAt, Tests, IdleQuery
    <3> QED BY <2>1, <2>2, <3>1, EntitledCounted, EntitledGrows DEF TallyOk
  <2>3. CASE kind # "test"
    <3>1. Entitled' = Entitled
      BY <2>1, <2>3 DEF Entitled, QueryAt, Tests, IdleQuery
    <3> QED BY <2>3, <3>1, EntitledCounted DEF TallyOk
  <2> QED BY <2>2, <2>3
<1> QED BY <1>2, <1>3, <1>4 DEF QueryAt, IdleQuery

LEMMA EnsureSessionStep ==
  ASSUME LoginsInv, NEW c \in Query, EnsureSession(c)
  PROVE  LoginsInv'
<1> USE LoginsAssumption DEF LoginsAssumption, LoginsInv, LoginsTypeOK, EnsureSession, siteVars,
                            tallyVars, QueryAt, To
<1>1. LoginsTypeOK' /\ (cookies \in 0 .. MaxCookie)'
  BY DEF QueryState
<1>2. \A d \in Query : StageOk(d)' /\ FreshOk(d)'
  BY DEF StageOk, FreshOk, Tests, QueryState
<1>3. Entitled' = Entitled
  BY DEF Entitled, Tests, StageOk, QueryState
<1> QED BY <1>1, <1>2, <1>3 DEF TallyOk, QueryState

LEMMA ProbeStep ==
  ASSUME LoginsInv, NEW c \in Query, Probe(c)
  PROVE  LoginsInv'
<1> USE LoginsAssumption DEF LoginsAssumption, LoginsInv, LoginsTypeOK, Probe, siteVars,
                            tallyVars, QueryAt, To, Established
<1>1. CASE ~(probes /\ jarCookie \in accepted)
  <2>1. LoginsTypeOK' /\ (cookies \in 0 .. MaxCookie)'
    BY <1>1 DEF QueryState
  <2>2. \A d \in Query : StageOk(d)' /\ FreshOk(d)'
    BY <1>1 DEF StageOk, FreshOk, Tests, QueryState
  <2>3. Entitled' = Entitled
    BY <1>1 DEF Entitled, Tests, StageOk, QueryState
  <2> QED BY <1>1, <2>1, <2>2, <2>3 DEF TallyOk, QueryState
<1>2. CASE Tests(c) /\ probes /\ jarCookie \in accepted
  <2>1. LoginsTypeOK' /\ (cookies \in 0 .. MaxCookie)'
    BY <1>2 DEF QueryState
  <2>2. \A d \in Query : StageOk(d)' /\ FreshOk(d)'
    BY <1>2 DEF StageOk, FreshOk, Tests, QueryState
  <2>3. Entitled' = Entitled \ {c} /\ c \in Entitled
    BY <1>2 DEF Entitled, Tests, QueryState
  <2>4. IsFiniteSet(Entitled)' /\ Cardinality(Entitled)' = Cardinality(Entitled) - 1
    BY <2>3, EntitledShrinks DEF TallyOk
  <2> QED BY <1>2, <2>1, <2>2, <2>4, EntitledCounted DEF TallyOk, QueryState
<1>3. CASE ~Tests(c) /\ probes /\ jarCookie \in accepted
  <2>1. LoginsTypeOK' /\ (cookies \in 0 .. MaxCookie)'
    BY <1>3 DEF QueryState
  <2>2. \A d \in Query : StageOk(d)' /\ FreshOk(d)'
    <3> SUFFICES ASSUME NEW d \in Query PROVE StageOk(d)' /\ FreshOk(d)'
      OBVIOUS
    <3>1. loginMu = c /\ loginMu' = NoQuery
      BY <1>3 DEF StageOk
    <3>2. CASE d = c
      BY <1>3, <3>1, <3>2 DEF StageOk, FreshOk, Tests, QueryState
    <3>3. CASE d # c
      <4>1. query'[d] = query[d]
        BY <1>3, <3>3
      <4> QED BY <1>3, <3>1, <3>3, <4>1 DEF StageOk, FreshOk, Tests
    <3> QED BY <3>2, <3>3
  <2>3. Entitled' = Entitled
    BY <1>3 DEF Entitled, Tests, StageOk, QueryState
  <2> QED BY <1>3, <2>1, <2>2, <2>3, EntitledCounted DEF TallyOk, QueryState
<1> QED BY <1>1, <1>2, <1>3

LEMMA LoginAcceptedStep ==
  ASSUME LoginsInv, NEW c \in Query, LoginAccepted(c)
  PROVE  LoginsInv'
<1> USE LoginsAssumption DEF LoginsAssumption, LoginsInv, LoginsTypeOK, LoginAccepted,
                            QueryAt, To, Established
<1>1. /\ cookies' \in 0 .. MaxCookie /\ jarCookie' \in 0 .. cookies'
      /\ accepted' \subseteq 1 .. cookies' /\ sequences' \in Nat
  OBVIOUS
<1>2. CASE Tests(c)
  <2>1. LoginsTypeOK'
    BY <1>1, <1>2 DEF QueryState
  <2>2. \A d \in Query : StageOk(d)' /\ FreshOk(d)'
    BY <1>2 DEF StageOk, FreshOk, Tests, QueryState
  <2>3. Entitled' = Entitled \ {c} /\ c \in Entitled
    BY <1>2 DEF Entitled, Tests, QueryState
  <2>4. IsFiniteSet(Entitled)' /\ Cardinality(Entitled)' = Cardinality(Entitled) - 1
    BY <2>3, EntitledShrinks DEF TallyOk
  <2>5. TallyOk'
    BY <1>2, <2>4, EntitledCounted DEF TallyOk
  <2> QED BY <1>1, <1>2, <2>1, <2>2, <2>5 DEF QueryState
<1>3. CASE ~Tests(c)
  <2>1. LoginsTypeOK'
    BY <1>1, <1>3 DEF QueryState
  <2>2. \A d \in Query : StageOk(d)' /\ FreshOk(d)'
    <3> SUFFICES ASSUME NEW d \in Query PROVE StageOk(d)' /\ FreshOk(d)'
      OBVIOUS
    <3>1. loginMu = c /\ loginMu' = NoQuery
      BY <1>3 DEF StageOk
    <3>2. CASE d = c
      BY <1>3, <3>1, <3>2 DEF StageOk, FreshOk, Tests, QueryState
    <3>3. CASE d # c
      <4>1. query'[d] = query[d]
        BY <1>3, <3>3
      <4> QED BY <1>3, <3>1, <3>3, <4>1 DEF StageOk, FreshOk, Tests
    <3> QED BY <3>2, <3>3
  <2>3. Entitled' = Entitled
    BY <1>3 DEF Entitled, Tests, StageOk, QueryState
  <2>4. ~loggedIn /\ loggedIn'
    BY <1>3, LoginsAssumption DEF StageOk
  <2>5. TallyOk'
    BY <1>3, <2>3, <2>4, EntitledCounted DEF TallyOk
  <2> QED BY <1>1, <1>3, <2>1, <2>2, <2>5 DEF QueryState
<1> QED BY <1>2, <1>3

LEMMA LoginFailsStep ==
  ASSUME LoginsInv, NEW c \in Query, LoginFails(c)
  PROVE  LoginsInv'
<1> USE LoginsAssumption DEF LoginsAssumption, LoginsInv, LoginsTypeOK, LoginFails,
                            QueryAt, To, siteVars
<1>1. LoginsTypeOK' /\ (cookies \in 0 .. MaxCookie)'
  BY DEF QueryState, Tests
<1>2. \A d \in Query : StageOk(d)' /\ FreshOk(d)'
  BY DEF StageOk, FreshOk, Tests, QueryState
<1>3. CASE Tests(c)
  <2>1. Entitled' = Entitled \ {c} /\ c \in Entitled
    BY <1>3 DEF Entitled, Tests, QueryState
  <2>2. IsFiniteSet(Entitled)' /\ Cardinality(Entitled)' = Cardinality(Entitled) - 1
    BY <2>1, EntitledShrinks DEF TallyOk
  <2>3. TallyOk'
    BY <1>3, <2>2, EntitledCounted DEF TallyOk
  <2> QED BY <1>1, <1>2, <1>3, <2>3 DEF QueryState
<1>4. CASE ~Tests(c)
  <2>1. Entitled' = Entitled
    BY <1>4 DEF Entitled, Tests, StageOk, QueryState
  <2> QED BY <1>1, <1>2, <1>4, <2>1, EntitledCounted DEF TallyOk, QueryState
<1> QED BY <1>3, <1>4

LEMMA AskStep ==
  ASSUME LoginsInv, NEW c \in Query, Ask(c)
  PROVE  LoginsInv'
<1> USE LoginsAssumption DEF LoginsAssumption, LoginsInv, LoginsTypeOK, Ask,
                            QueryAt, siteVars, tallyVars
<1>1. LoginsTypeOK' /\ (cookies \in 0 .. MaxCookie)'
  <2>1. jarCookie \in 0 .. MaxCookie
    OBVIOUS
  <2>2. [query[c] EXCEPT !.pc = "sent", !.sent = jarCookie] \in QueryState
    BY <2>1, AskedOnce
  <2> QED BY <2>2
<1>2. \A d \in Query : StageOk(d)' /\ FreshOk(d)'
  BY DEF StageOk, FreshOk, Tests, QueryState
<1>3. Entitled' = Entitled
  BY DEF Entitled, Tests, StageOk, QueryState
<1> QED BY <1>1, <1>2, <1>3 DEF TallyOk, QueryState

(* A search that has logged in again is not told that it is logged out.      *)
LEMMA AnswerStep ==
  ASSUME LoginsInv, NEW c \in Query, Answer(c)
  PROVE  LoginsInv'
<1> USE LoginsAssumption DEF LoginsAssumption, LoginsInv, LoginsTypeOK, Answer,
                            QueryAt, To, siteVars
<1>1. LoginsTypeOK' /\ (cookies \in 0 .. MaxCookie)'
  <2>1. query' \in [Query -> QueryState]
    <3>1. \A pc \in {"ok", "relogin", "loggedOut"} : [query[c] EXCEPT !.pc = pc] \in QueryState
      BY SessionMoved
    <3>2. \E pc \in {"ok", "relogin", "loggedOut"} :
            query' = [query EXCEPT ![c] = [query[c] EXCEPT !.pc = pc]]
      OBVIOUS
    <3> QED BY <3>1, <3>2
  <2>2. refusals' \in Nat
    OBVIOUS
  <2> QED BY <2>1, <2>2
<1>2. \A d \in Query : StageOk(d)' /\ FreshOk(d)'
  BY DEF StageOk, FreshOk, Tests, QueryState
<1>3. CASE query'[c].pc = "relogin"
  <2>1. Entitled' = Entitled \cup {c} /\ c \notin Entitled /\ refusals' = refusals + 1
    BY <1>3 DEF Entitled, Tests, QueryState
  <2>2. IsFiniteSet(Entitled)' /\ Cardinality(Entitled)' = Cardinality(Entitled) + 1
    BY <2>1, EntitledGrows DEF TallyOk
  <2>3. TallyOk'
    BY <1>3, <2>1, <2>2, EntitledCounted DEF TallyOk
  <2> QED BY <1>1, <1>2, <1>3, <2>3 DEF QueryState
<1>4. CASE query'[c].pc # "relogin"
  <2>1. Entitled' = Entitled /\ UNCHANGED refusals
    BY <1>4 DEF Entitled, Tests, StageOk, QueryState
  <2> QED BY <1>1, <1>2, <1>4, <2>1, EntitledCounted DEF TallyOk, QueryState, StageOk
<1> QED BY <1>3, <1>4

(* The refusal pays for the login it causes, even when the engine had        *)
(* remembered another one meanwhile.                                        *)
LEMMA ReloginStep ==
  ASSUME LoginsInv, NEW c \in Query, Relogin(c)
  PROVE  LoginsInv'
<1> USE LoginsAssumption DEF LoginsAssumption, LoginsInv, LoginsTypeOK, Relogin, Forced,
                            QueryAt, siteVars, tallyVars
<1>1. LoginsTypeOK' /\ (cookies \in 0 .. MaxCookie)'
  <2>1. query' = [query EXCEPT ![c] = [query[c] EXCEPT !.pc = "login", !.retried = TRUE,
                                                    !.lost = FALSE]]
    OBVIOUS
  <2>2. [query[c] EXCEPT !.pc = "login", !.retried = TRUE, !.lost = FALSE] \in QueryState
    BY DEF QueryState
  <2> QED BY <2>1, <2>2
<1>2. \A d \in Query : StageOk(d)' /\ FreshOk(d)'
  BY DEF StageOk, FreshOk, Tests, QueryState
<1>3. Entitled' = Entitled \ {c} /\ c \in Entitled
  BY DEF Entitled, Tests, StageOk, QueryState
<1>4. TallyOk'
  <2>1. IsFiniteSet(Entitled)' /\ Cardinality(Entitled)' = Cardinality(Entitled) - 1
    BY <1>3, EntitledShrinks DEF TallyOk
  <2> QED BY <2>1, EntitledCounted DEF TallyOk
<1> QED BY <1>1, <1>2, <1>4 DEF QueryState

LEMMA ForgetStep ==
  ASSUME LoginsInv, Forget
  PROVE  LoginsInv'
<1> USE LoginsAssumption DEF LoginsAssumption, LoginsInv, LoginsTypeOK, Forget,
                            QueryAt, tallyVars
<1>1. LoginsTypeOK' /\ (cookies \in 0 .. MaxCookie)'
  BY DEF QueryState
<1>2. \A d \in Query : StageOk(d)' /\ FreshOk(d)'
  BY DEF StageOk, FreshOk, Tests, QueryState
<1>3. Entitled' = Entitled
  BY DEF Entitled, Tests, QueryState
<1> QED BY <1>1, <1>2, <1>3 DEF TallyOk, QueryState

LEMMA LoginsStep == LoginsInv /\ [LoginsNext]_loginVars => LoginsInv'
<1> SUFFICES ASSUME LoginsInv, [LoginsNext]_loginVars PROVE LoginsInv'
  OBVIOUS
<1>1. CASE UNCHANGED loginVars
  BY <1>1 DEF loginVars, siteVars, tallyVars, LoginsInv, LoginsTypeOK, StageOk, FreshOk, TallyOk,
              Entitled, QueryAt, Tests
<1> QED BY <1>1, BeginStep, EnsureSessionStep, ProbeStep, LoginAcceptedStep, LoginFailsStep,
           AskStep, AnswerStep, ReloginStep, ForgetStep DEF LoginsNext

LEMMA LoginsInvariant == LoginsSpec => []LoginsInv
<1> QED BY LoginsStart, LoginsStep, PTL DEF LoginsSpec

-----------------------------------------------------------------------------
(* The types of a Cardigann engine's login (cardigann/engine.go). *)
THEOREM LoginsTypeCorrect == LoginsSpec => []LoginsTypeOK
<1>1. LoginsInv => LoginsTypeOK
  BY DEF LoginsInv
<1> QED BY <1>1, LoginsInvariant, PTL

(* However many searches, grabs and tests share an engine and in whatever    *)
(* order they are refused, a search is failed as logged out only when the    *)
(* tracker forgot the login it had made again, and every login beyond the    *)
(* first answers a failure, a refusal or a test (engine.go: ensureSession,   *)
(* relogin).                                                                 *)
THEOREM OneLoginSuffices == LoginsSpec => []LoginsSuffice
<1>1. LoginsInv => LoginsSuffice
  <2> SUFFICES ASSUME LoginsInv PROVE LoginsSuffice
    OBVIOUS
  <2>1. sequences <= 1 + failures + refusals + tests
    BY EntitledCounted DEF LoginsInv, LoginsTypeOK, TallyOk
  <2> QED BY <2>1 DEF LoginsInv, LoginsSuffice, FreshOk, QueryAt
<1> QED BY <1>1, LoginsInvariant, PTL

-----------------------------------------------------------------------------
(***************************************************************************)
(* Scrape, for any definition, listing and number of lost sessions: what    *)
(* has been collected is at any time the well-formed and matching rows of   *)
(* the paths that were read, and those are the first ones that serve.       *)
(***************************************************************************)

Served == {p \in DOMAIN definition.paths : narrowToPathCategories(p)}
ReadPaths == Served \ ToSet(todo)
RowsIn(p) == {<<p, i>> : i \in {j \in DOMAIN listing[p] : Belongs(listing[p][j], p)}}
Told(b) ==
  /\ b[2].kind \in {"login", "redirect"} => ~definition.test \/ ~b[2].html
  /\ b[2].kind = "error" => ~definition.error \/ ~Html(b[1])

TodoOk ==
  /\ \A j, k \in DOMAIN todo : j < k => todo[j] < todo[k]
  /\ ToSet(todo) \subseteq Served
  /\ \A p \in ReadPaths, q \in ToSet(todo) : p < q
RowsOk ==
  /\ ToSet(out) = UNION {RowsIn(p) : p \in ReadPaths \ BlindPaths}
  /\ \A j, k \in DOMAIN out : j < k => Precedes(out[j], out[k])
BlindOk == BlindPaths \subseteq ReadPaths /\ \A b \in blind : Told(b)
Collected == TodoOk /\ RowsOk /\ BlindOk

ScrapeInv ==
  /\ ScrapeTypeOK
  /\ stage \in {"ask", "moved", "read"} => todo # <<>> /\ Collected
  /\ stage = "done" => todo = <<>> /\ Collected
  /\ stage = "moved" => response.kind = "redirect"
  /\ stage = "read" /\ response.kind = "listing" => listing[Current] # Unseen

(* The paths of a definition, and what is known of one.                     *)
LEMMA PathFacts ==
  ASSUME ScrapeTypeOK
  PROVE  /\ definition.paths \in Seq(SearchPaths)
         /\ DOMAIN definition.paths = 1 .. Len(definition.paths)
         /\ Len(definition.paths) \in Nat
         /\ \A p \in DOMAIN definition.paths : Asked(p) \in SearchPaths
         /\ {definition.login, definition.test, definition.error, definition.andmatch}
              \subseteq BOOLEAN
<1>1. definition \in [login : BOOLEAN, test : BOOLEAN, error : BOOLEAN, andmatch : BOOLEAN,
                      dated : {"none", "optional", "required"}, paths : Seq(SearchPaths)]
  BY ScrapeAssumption DEF ScrapeAssumption, ScrapeTypeOK
<1>2. definition.paths \in Seq(SearchPaths)
  BY <1>1
<1> QED BY <1>1, <1>2 DEF Asked

LEMMA CurrentFacts ==
  ASSUME ScrapeTypeOK, todo # <<>>
  PROVE  /\ Current \in DOMAIN definition.paths /\ Current = todo[1] /\ 1 \in DOMAIN todo
         /\ Tail(todo) \in Seq(DOMAIN definition.paths)
         /\ Len(Tail(todo)) = Len(todo) - 1 /\ Len(todo) \in Nat
         /\ DOMAIN Tail(todo) = 1 .. Len(todo) - 1 /\ DOMAIN todo = 1 .. Len(todo)
         /\ \A i \in 1 .. Len(todo) - 1 : Tail(todo)[i] = todo[i + 1]
BY DEF ScrapeTypeOK, Current

LEMMA ScrapeStart == ScrapeInit => ScrapeInv
<1> SUFFICES ASSUME ScrapeInit PROVE ScrapeInv
  OBVIOUS
<1>1. ScrapeTypeOK
  <2> USE DEF ScrapeInit
  <2>1. definition \in Definition /\ search \in [cats : SUBSET Cat, byId : BOOLEAN]
    OBVIOUS
  <2>2. /\ stage \in {"session", "build", "ask", "moved", "read", "relogin", "done", "failed"}
        /\ attempt \in 1 .. 2 /\ hops \in 0 .. maxRedirectHops
    BY DEF maxRedirectHops
  <2>3. todo \in Seq(DOMAIN definition.paths) /\ out \in Seq((DOMAIN definition.paths) \X Nat)
    OBVIOUS
  <2>4. response \in Response
    BY DEF NoResponse, Response
  <2>5. alive \in BOOLEAN /\ forgotten \in 0 .. MaxForgotten
    <3>1. MaxForgotten \in Nat
      BY ScrapeAssumption DEF ScrapeAssumption
    <3>2. alive = FALSE /\ forgotten = 0
      OBVIOUS
    <3> HIDE DEF ScrapeInit
    <3>3. forgotten \in 0 .. MaxForgotten
      BY <3>1, <3>2
    <3>4. alive \in BOOLEAN
      BY <3>2, Zenon
    <3> QED BY <3>3, <3>4
  <2>6. listing \in [DOMAIN definition.paths -> SiteRows \cup {Unseen}]
    BY Zenon
  <2>7. blind \subseteq (DOMAIN definition.paths) \X Response
    OBVIOUS
  <2> QED BY <2>1, <2>2, <2>3, <2>4, <2>5, <2>6, <2>7 DEF ScrapeTypeOK
<1> QED BY <1>1 DEF ScrapeInit, ScrapeInv

LEMMA ResponseFacts ==
  ASSUME ScrapeTypeOK, NEW p \in DOMAIN definition.paths, NEW r \in Answers(p)
  PROVE  r \in Response
<1>1. Html(p) \in BOOLEAN
  BY DEF Html
<1>2. r \in Wall \/ r \in Pages(p) \/ r \in Redirects
  BY DEF Answers
<1>3. Wall \subseteq Response
  <2> SUFFICES ASSUME NEW x \in Wall PROVE x \in Response
    OBVIOUS
  <2>1. PICK h \in BOOLEAN : x = [kind |-> "login", html |-> h, leads |-> ""]
    BY DEF Wall
  <2> QED BY <2>1 DEF Response
<1>4. Pages(p) \subseteq Response
  BY <1>1 DEF Pages, Response
<1>5. Redirects \subseteq Response
  <2> SUFFICES ASSUME NEW x \in Redirects PROVE x \in Response
    OBVIOUS
  <2>1. PICK h \in BOOLEAN, l \in {"page", "magnet", "nowhere", "odd"} :
          x = [kind |-> "redirect", html |-> h, leads |-> l]
    BY DEF Redirects
  <2> QED BY <2>1 DEF Response
<1> QED BY <1>2, <1>3, <1>4, <1>5

LEMMA BringsFacts ==
  ASSUME ScrapeTypeOK, NEW p \in DOMAIN definition.paths, NEW r, Brings(p, r)
  PROVE  /\ response' = r
         /\ listing' \in [DOMAIN definition.paths -> SiteRows \cup {Unseen}]
         /\ r.kind = "listing" => listing'[p] # Unseen
         /\ \A q \in DOMAIN definition.paths : q # p => listing'[q] = listing[q]
<1>1. Unseen \notin SiteRows
  <2>1. SiteRows \subseteq Seq(RowKind)
    BY ScrapeAssumption DEF ScrapeAssumption
  <2>2. ASSUME Unseen \in SiteRows PROVE FALSE
    <3>1. Unseen[1] \in RowKind
      BY <2>1, <2>2 DEF Unseen
    <3> QED BY <3>1 DEF Unseen, RowKind
  <2> QED BY <2>2
<1>2. listing \in [DOMAIN definition.paths -> SiteRows \cup {Unseen}]
  BY DEF ScrapeTypeOK
<1>3. CASE r.kind = "listing" /\ listing[p] = Unseen
  <2>1. PICK l \in SiteRows : listing' = [listing EXCEPT ![p] = l]
    BY <1>3 DEF Brings
  <2> QED BY <1>1, <1>2, <2>1 DEF Brings
<1>4. CASE ~(r.kind = "listing" /\ listing[p] = Unseen)
  BY <1>2, <1>4 DEF Brings
<1> QED BY <1>3, <1>4

(* What was collected stays true of listings that change only where nothing *)
(* was read.                                                                *)
LEMMA SameRows ==
  ASSUME UNCHANGED <<definition, search>>, NEW p, listing'[p] = listing[p]
  PROVE  RowsIn(p)' = RowsIn(p)
BY DEF RowsIn, Belongs, Html, Asked

LEMMA SameServed ==
  ASSUME UNCHANGED <<definition, search>>
  PROVE  Served' = Served
BY DEF Served, narrowToPathCategories, Asked

LEMMA CollectedKept ==
  ASSUME ScrapeTypeOK, Collected, UNCHANGED <<definition, search, todo, out, blind>>,
         \A p \in ReadPaths : listing'[p] = listing[p]
  PROVE  Collected'
<1>1. Served' = Served /\ ReadPaths' = ReadPaths
  BY SameServed DEF ReadPaths
<1>2. BlindPaths' = BlindPaths
  BY DEF BlindPaths
<1>3. \A p \in ReadPaths : RowsIn(p)' = RowsIn(p)
  BY SameRows
<1>4. TodoOk'
  BY <1>1 DEF Collected, TodoOk
<1>5. RowsOk'
  <2>1. UNION {RowsIn(p)' : p \in ReadPaths \ BlindPaths} = UNION {RowsIn(p) : p \in ReadPaths \ BlindPaths}
    BY <1>3
  <2> QED BY <1>1, <1>2, <2>1 DEF Collected, RowsOk, Precedes
<1>6. BlindOk'
  BY <1>1, <1>2 DEF Collected, BlindOk, Told, Html, Asked
<1> QED BY <1>4, <1>5, <1>6 DEF Collected

LEMMA TailFacts ==
  ASSUME ScrapeTypeOK, todo # <<>>, TodoOk
  PROVE  /\ ToSet(Tail(todo)) = ToSet(todo) \ {Current}
         /\ Current \in ToSet(todo)
         /\ \A q \in ToSet(Tail(todo)) : Current < q
         /\ \A j, k \in DOMAIN Tail(todo) : j < k => Tail(todo)[j] < Tail(todo)[k]
<1>1. Current = todo[1] /\ 1 \in DOMAIN todo /\ Len(todo) \in Nat \ {0} /\ DOMAIN todo = 1 .. Len(todo)
  BY CurrentFacts
<1>2. /\ DOMAIN Tail(todo) = 1 .. Len(todo) - 1
      /\ \A i \in 1 .. Len(todo) - 1 : Tail(todo)[i] = todo[i + 1]
  BY CurrentFacts
<1>3. \A i \in DOMAIN todo : todo[i] \in Nat
  BY PathFacts DEF ScrapeTypeOK
<1>4. \A i \in 1 .. Len(todo) - 1 : Current < Tail(todo)[i]
  <2> TAKE i \in 1 .. Len(todo) - 1
  <2>1. i + 1 \in DOMAIN todo /\ 1 < i + 1
    BY <1>1
  <2> QED BY <1>1, <1>2, <2>1 DEF TodoOk
<1>5. \A q \in ToSet(Tail(todo)) : q \in ToSet(todo) /\ Current < q
  <2> TAKE q \in ToSet(Tail(todo))
  <2>1. PICK i \in 1 .. Len(todo) - 1 : q = Tail(todo)[i]
    BY <1>2 DEF ToSet
  <2>2. i + 1 \in DOMAIN todo
    BY <1>1
  <2> QED BY <1>2, <1>4, <2>1, <2>2 DEF ToSet
<1>6. \A q \in ToSet(todo) : q # Current => q \in ToSet(Tail(todo))
  <2> TAKE q \in ToSet(todo)
  <2>1. PICK i \in DOMAIN todo : q = todo[i]
    BY DEF ToSet
  <2> HAVE q # Current
  <2>2. i # 1 /\ i - 1 \in 1 .. Len(todo) - 1 /\ (i - 1) + 1 = i
    BY <1>1, <2>1
  <2>3. Tail(todo)[i - 1] = q
    BY <1>2, <2>1, <2>2
  <2> QED BY <1>2, <2>2, <2>3 DEF ToSet
<1>7. Current \in Nat
  BY <1>1, <1>3
<1>8. \A j, k \in DOMAIN Tail(todo) : j < k => Tail(todo)[j] < Tail(todo)[k]
  <2> TAKE j, k \in DOMAIN Tail(todo)
  <2> HAVE j < k
  <2>1. j + 1 \in DOMAIN todo /\ k + 1 \in DOMAIN todo /\ j + 1 < k + 1
    BY <1>1, <1>2
  <2> QED BY <1>2, <2>1 DEF TodoOk
<1>9. Current \in ToSet(todo)
  BY <1>1 DEF ToSet
<1>10. \A q \in ToSet(Tail(todo)) : q # Current
  BY <1>5, <1>7
<1> QED BY <1>5, <1>6, <1>8, <1>9, <1>10

LEMMA CollectedMore ==
  ASSUME ScrapeTypeOK, todo # <<>>, Collected, UNCHANGED <<definition, search, listing>>,
         NEW found \in Seq({Current} \X Nat),
         \A j, k \in DOMAIN found : j < k => found[j][2] < found[k][2],
         todo' = Tail(todo), out' = out \o found,
         \/ blind' = blind /\ ToSet(found) = RowsIn(Current)
         \/ blind' = blind \cup {<<Current, response>>} /\ found = <<>> /\ Told(<<Current, response>>)
  PROVE  Collected'
<1>1. /\ ToSet(Tail(todo)) = ToSet(todo) \ {Current}
      /\ Current \in ToSet(todo)
      /\ \A q \in ToSet(Tail(todo)) : Current < q
      /\ \A j, k \in DOMAIN Tail(todo) : j < k => Tail(todo)[j] < Tail(todo)[k]
  BY TailFacts DEF Collected
<1>2. Served' = Served
  BY SameServed
<1>3. ReadPaths' = ReadPaths \cup {Current} /\ Current \notin ReadPaths
  BY <1>1, <1>2 DEF ReadPaths, Collected, TodoOk
<1>4. TodoOk'
  <2>1. \A p \in ReadPaths', q \in ToSet(todo') : p < q
    BY <1>1, <1>3 DEF Collected, TodoOk
  <2> QED BY <1>1, <1>2, <2>1 DEF Collected, TodoOk
<1>5. \A p : RowsIn(p)' = RowsIn(p)
  BY SameRows
<1>6. BlindOk'
  <2>1. Current \in ReadPaths'
    BY <1>3
  <2>2. \A b : Told(b)' = Told(b)
    BY DEF Told, Html, Asked
  <2>3. \A b \in blind' : Told(b)
    BY DEF Collected, BlindOk
  <2>4. BlindPaths' \subseteq BlindPaths \cup {Current}
    BY DEF BlindPaths
  <2>5. BlindPaths' \subseteq ReadPaths'
    BY <1>3, <2>1, <2>4 DEF Collected, BlindOk
  <2> QED BY <2>2, <2>3, <2>5 DEF BlindOk
<1>7. ToSet(out') = ToSet(out) \cup ToSet(found)
  <2>1. ToSet(out \o found) = ToSet(out) \cup ToSet(found)
    BY ConcatSet DEF ScrapeTypeOK
  <2> QED BY <2>1
<1>8. ToSet(out') = UNION {RowsIn(p) : p \in ReadPaths' \ BlindPaths'}
  <2>1. CASE blind' = blind /\ ToSet(found) = RowsIn(Current)
    <3>1. BlindPaths' = BlindPaths /\ Current \notin BlindPaths
      BY <1>3, <2>1 DEF BlindPaths, Collected, BlindOk
    <3>2. ReadPaths' \ BlindPaths' = (ReadPaths \ BlindPaths) \cup {Current}
      BY <1>3, <3>1
    <3> QED BY <1>7, <2>1, <3>2 DEF Collected, RowsOk
  <2>2. CASE blind' = blind \cup {<<Current, response>>} /\ found = <<>>
    <3>1. BlindPaths' = BlindPaths \cup {Current}
      <4>1. <<Current, response>>[1] = Current
        OBVIOUS
      <4> QED BY <2>2, <4>1 DEF BlindPaths
    <3>2. ReadPaths' \ BlindPaths' = ReadPaths \ BlindPaths
      BY <1>3, <3>1
    <3>3. ToSet(found) = {}
      BY <2>2 DEF ToSet
    <3> QED BY <1>7, <3>2, <3>3 DEF Collected, RowsOk
  <2> QED BY <2>1, <2>2
<1>9. ASSUME NEW j \in DOMAIN out', NEW k \in DOMAIN out', j < k
      PROVE  Precedes(out'[j], out'[k])
  <2>1. /\ Len(out) \in Nat /\ Len(found) \in Nat /\ Len(out') = Len(out) + Len(found)
        /\ DOMAIN out' = 1 .. Len(out) + Len(found)
        /\ DOMAIN out = 1 .. Len(out) /\ DOMAIN found = 1 .. Len(found)
        /\ \A i \in 1 .. Len(out) : out'[i] = out[i]
        /\ \A i \in 1 .. Len(found) : out'[Len(out) + i] = found[i]
    BY DEF ScrapeTypeOK
  <2>2. CASE k <= Len(out)
    <3>1. j \in DOMAIN out /\ k \in DOMAIN out
      BY <1>9, <2>1, <2>2
    <3> QED BY <1>9, <2>1, <3>1 DEF Collected, RowsOk
  <2>3. CASE k > Len(out)
    <3> DEFINE b == k - Len(out)
               a == j - Len(out)
    <3>1. b \in DOMAIN found /\ k = Len(out) + b /\ out'[k] = found[b] /\ found[b] \in {Current} \X Nat
      <4>1. b \in 1 .. Len(found) /\ k = Len(out) + b
        BY <2>1, <2>3
      <4> QED BY <2>1, <4>1
    <3>2. CASE j <= Len(out)
      <4>1. j \in DOMAIN out /\ out'[j] = out[j]
        BY <2>1, <3>2
      <4>2. out[j] \in ToSet(out)
        BY <4>1 DEF ToSet
      <4>3. PICK p \in ReadPaths : out[j] \in RowsIn(p)
        BY <4>2 DEF Collected, RowsOk
      <4>4. out[j][1] = p
        BY <4>3 DEF RowsIn
      <4>5. p < Current
        BY <1>1, <4>3 DEF Collected, TodoOk
      <4>6. found[b][1] = Current
        BY <3>1
      <4> QED BY <3>1, <4>1, <4>4, <4>5, <4>6 DEF Precedes
    <3>3. CASE j > Len(out)
      <4>1. a \in 1 .. Len(found) /\ j = Len(out) + a /\ a < b
        BY <1>9, <2>1, <3>3
      <4>2. out'[j] = found[a] /\ found[a] \in {Current} \X Nat
        BY <2>1, <4>1
      <4>3. found[a][2] < found[b][2] /\ found[a][1] = found[b][1]
        BY <2>1, <3>1, <4>1, <4>2
      <4> QED BY <3>1, <4>2, <4>3 DEF Precedes
    <3> QED BY <2>1, <3>2, <3>3
  <2> QED BY <2>1, <2>2, <2>3
<1>10. RowsOk'
  <2>1. UNION {RowsIn(p)' : p \in ReadPaths' \ BlindPaths'} = UNION {RowsIn(p) : p \in ReadPaths' \ BlindPaths'}
    BY <1>5
  <2>2. ToSet(out)' = UNION {RowsIn(p)' : p \in ReadPaths' \ BlindPaths'}
    BY <1>8, <2>1
  <2> QED BY <1>9, <2>2 DEF RowsOk, Precedes
<1> QED BY <1>4, <1>6, <1>10 DEF Collected

-----------------------------------------------------------------------------
(* A row that does not end the parse is taken when it belongs.              *)
Taken(p) == {i \in DOMAIN listing[p] : /\ ~applyRowFilters(listing[p][i])
                                       /\ ~RowFails(listing[p][i], p)}

LEMMA KindFacts ==
  ASSUME ScrapeTypeOK, NEW p \in DOMAIN definition.paths, NEW kind \in RowKind, ~Aborts(kind, p)
  PROVE  (~applyRowFilters(kind) /\ ~RowFails(kind, p)) <=> Belongs(kind, p)
<1>1. {definition.andmatch, search.byId, Html(p)} \subseteq BOOLEAN
  BY PathFacts DEF ScrapeTypeOK, Html
<1> QED BY <1>1 DEF RowKind, Aborts, applyRowFilters, andMatch, RowFails, parseRowFails,
           resolveFieldFails, isOptional, backfillFails, isSkippableRowError, Belongs

LEMMA ParseFacts ==
  ASSUME ScrapeTypeOK, NEW p \in DOMAIN definition.paths, listing[p] # Unseen,
         \A i \in DOMAIN listing[p] : ~Aborts(listing[p][i], p)
  PROVE  /\ ParseResults(p) \in Seq({p} \X Nat)
         /\ ToSet(ParseResults(p)) = RowsIn(p)
         /\ \A j, k \in DOMAIN ParseResults(p) :
              j < k => ParseResults(p)[j][2] < ParseResults(p)[k][2]
<1>1. listing[p] \in Seq(RowKind)
  BY ScrapeAssumption DEF ScrapeAssumption, ScrapeTypeOK
<1>2. Len(listing[p]) \in Nat /\ DOMAIN listing[p] = 1 .. Len(listing[p])
  BY <1>1
<1> DEFINE T == Taken(p)
           o == Ordered(T)
           n == Cardinality(T)
<1>3. T \in SUBSET Nat /\ IsFiniteSet(T)
  <2>1. T \subseteq 1 .. Len(listing[p])
    BY <1>2 DEF Taken
  <2>2. IsFiniteSet(1 .. Len(listing[p]))
    BY <1>2, FS_Interval
  <2> QED BY <1>2, <2>1, <2>2, FS_Subset
<1> HIDE DEF T
<1>4. /\ n \in Nat /\ o \in Seq(T) /\ Len(o) = n
      /\ \A x \in T : \E k \in 1 .. n : o[k] = x
      /\ \A k \in 1 .. n : o[k] \in T
      /\ \A j, k \in 1 .. n : j < k => o[j] < o[k]
  BY <1>3, OrderedFacts
<1> HIDE DEF o, n
<1>5. DOMAIN o = 1 .. n
  BY <1>4
<1>6. ParseResults(p) = [k \in 1 .. n |-> <<p, o[k]>>]
  BY <1>5 DEF ParseResults, Taken, o, T
<1>7. ParseResults(p) \in Seq({p} \X Nat) /\ DOMAIN ParseResults(p) = 1 .. n
  <2>1. \A k \in 1 .. n : <<p, o[k]>> \in {p} \X Nat
    BY <1>3, <1>4
  <2> QED BY <1>4, <1>6, <2>1
<1>8. T = {i \in DOMAIN listing[p] : Belongs(listing[p][i], p)}
  <2>1. \A i \in DOMAIN listing[p] : listing[p][i] \in RowKind
    BY <1>1
  <2> QED BY <2>1, KindFacts DEF T, Taken
<1>9. ToSet(ParseResults(p)) = {<<p, i>> : i \in T}
  <2>1. ToSet(ParseResults(p)) = {<<p, o[k]>> : k \in 1 .. n}
    BY <1>6, <1>7 DEF ToSet
  <2> QED BY <1>4, <2>1
<1>10. RowsIn(p) = {<<p, i>> : i \in T}
  BY <1>8 DEF RowsIn
<1>11. \A j, k \in 1 .. n : j < k => ParseResults(p)[j][2] < ParseResults(p)[k][2]
  BY <1>4, <1>6
<1> QED BY <1>7, <1>9, <1>10, <1>11

-----------------------------------------------------------------------------
LEMMA ScrapeTyped ==
  ASSUME ScrapeTypeOK, UNCHANGED <<definition, search>>,
         stage' \in {"session", "build", "ask", "moved", "read", "relogin", "done", "failed"},
         attempt' \in 1 .. 2, hops' \in 0 .. maxRedirectHops,
         todo' \in Seq(DOMAIN definition.paths), response' \in Response,
         alive' \in BOOLEAN, forgotten' \in 0 .. MaxForgotten,
         listing' \in [DOMAIN definition.paths -> SiteRows \cup {Unseen}],
         out' \in Seq((DOMAIN definition.paths) \X Nat),
         blind' \subseteq (DOMAIN definition.paths) \X Response
  PROVE  ScrapeTypeOK'
BY DEF ScrapeTypeOK

LEMMA NoResponseTyped == NoResponse \in Response /\ NoResponse.kind = "login"
BY DEF NoResponse, Response

LEMMA OpenStep == ASSUME ScrapeInv, EnsureSearchSession PROVE ScrapeInv'
<1>1. stage' \in {"build", "failed"} /\ alive' \in BOOLEAN /\ response' \in Response
  <2>1. \/ stage' = "build" /\ alive' = TRUE /\ response' = response
        \/ stage' = "failed" /\ response' = NoResponse /\ alive' = alive
    BY DEF EnsureSearchSession, Fail
  <2>2. response \in Response /\ alive \in BOOLEAN
    BY DEF ScrapeInv, ScrapeTypeOK
  <2> QED BY <2>1, <2>2, NoResponseTyped, Zenon
<1>2. ScrapeTypeOK'
  BY <1>1 DEF EnsureSearchSession, ScrapeInv, ScrapeTypeOK
<1> QED BY <1>1, <1>2 DEF ScrapeInv

LEMMA BuildStep == ASSUME ScrapeInv, BuildRequests PROVE ScrapeInv'
<1>1. IsFiniteSet(Served) /\ Served \in SUBSET Nat /\ Served \subseteq DOMAIN definition.paths
  <2>1. Served \subseteq 1 .. Len(definition.paths) /\ Len(definition.paths) \in Nat
    BY PathFacts DEF ScrapeInv, Served
  <2>2. IsFiniteSet(1 .. Len(definition.paths))
    BY <2>1, FS_Interval
  <2> QED BY <2>1, <2>2, FS_Subset DEF Served
<1>2. todo' = Ordered(Served)
  BY DEF BuildRequests, Served
<1>3. /\ todo' \in Seq(Served) /\ DOMAIN todo' = 1 .. Cardinality(Served)
      /\ ToSet(todo') = Served
      /\ \A j, k \in DOMAIN todo' : j < k => todo'[j] < todo'[k]
  <2> DEFINE o == Ordered(Served)
  <2>1. /\ Cardinality(Served) \in Nat /\ o \in Seq(Served) /\ Len(o) = Cardinality(Served)
        /\ \A x \in Served : \E k \in 1 .. Cardinality(Served) : o[k] = x
        /\ \A k \in 1 .. Cardinality(Served) : o[k] \in Served
        /\ \A j, k \in 1 .. Cardinality(Served) : j < k => o[j] < o[k]
    BY <1>1, OrderedFacts
  <2> HIDE DEF o
  <2>2. DOMAIN o = 1 .. Cardinality(Served)
    BY <2>1
  <2>3. ToSet(o) = Served
    BY <2>1, <2>2 DEF ToSet
  <2> QED BY <1>2, <2>1, <2>2, <2>3 DEF o
<1>4. /\ UNCHANGED <<definition, search, attempt, response, alive, forgotten, listing>>
      /\ out' = <<>> /\ hops' = 0 /\ blind' = {}
      /\ stage' = IF todo' = <<>> THEN "done" ELSE "ask"
  BY DEF BuildRequests, FirstOut
<1>5. ScrapeTypeOK'
  <2>1. todo' \in Seq(DOMAIN definition.paths)
    <3> DEFINE t == todo'
               D == DOMAIN definition.paths
    <3>1. t \in Seq(Served) /\ Served \subseteq D
      BY <1>1, <1>3
    <3> HIDE DEF t, D
    <3>2. Len(t) \in Nat /\ t \in [1 .. Len(t) -> Served]
      BY <3>1
    <3>3. t \in [1 .. Len(t) -> D]
      BY <3>1, <3>2
    <3>4. t \in Seq(D)
      BY <3>2, <3>3
    <3> QED BY <3>4 DEF t, D
  <2> QED BY <1>4, <2>1 DEF ScrapeInv, ScrapeTypeOK, maxRedirectHops
<1>6. Collected'
  <2>1. Served' = Served
    BY <1>4, SameServed
  <2>2. ReadPaths' = {}
    BY <1>3, <2>1 DEF ReadPaths
  <2>3. BlindPaths' = {} /\ ToSet(out)' = {} /\ DOMAIN out' = {}
    BY <1>4 DEF BlindPaths, ToSet
  <2> QED BY <1>3, <1>4, <2>1, <2>2, <2>3 DEF Collected, TodoOk, RowsOk, BlindOk
<1> QED BY <1>4, <1>5, <1>6 DEF ScrapeInv

(* An answer comes in; nothing was read of its path yet.                    *)
LEMMA BroughtStep ==
  ASSUME ScrapeInv, stage \in {"ask", "moved"}, NEW r \in Answers(Current), Brings(Current, r),
         stage' = "read" \/ (stage' = "moved" /\ r.kind = "redirect"), hops' \in 0 .. maxRedirectHops,
         UNCHANGED <<definition, search, attempt, todo, out, alive, forgotten, blind>>
  PROVE  ScrapeInv'
<1>1. ScrapeTypeOK /\ todo # <<>> /\ Collected
  BY DEF ScrapeInv
<1>2. Current \in DOMAIN definition.paths /\ Current \in ToSet(todo)
  BY <1>1, CurrentFacts, TailFacts DEF Collected
<1>3. /\ response' = r /\ r \in Response
      /\ listing' \in [DOMAIN definition.paths -> SiteRows \cup {Unseen}]
      /\ r.kind = "listing" => listing'[Current] # Unseen
      /\ \A q \in DOMAIN definition.paths : q # Current => listing'[q] = listing[q]
  BY <1>1, <1>2, BringsFacts, ResponseFacts
<1>4. ScrapeTypeOK'
  BY <1>1, <1>3 DEF ScrapeTypeOK
<1>5. Collected'
  <2>1. \A p \in ReadPaths : listing'[p] = listing[p]
    BY <1>2, <1>3 DEF ReadPaths, Served
  <2> QED BY <1>1, <2>1, CollectedKept
<1>6. Current' = Current
  BY DEF Current
<1> QED BY <1>1, <1>3, <1>4, <1>5, <1>6 DEF ScrapeInv

LEMMA AskPathStep == ASSUME ScrapeInv, AskPath PROVE ScrapeInv'
<1>1. PICK r \in Answers(Current) :
        Brings(Current, r) /\ stage' = IF r.kind = "redirect" THEN "moved" ELSE "read"
  BY DEF AskPath
<1>2. stage' = "read" \/ (stage' = "moved" /\ r.kind = "redirect")
  BY <1>1
<1> QED BY <1>1, <1>2, BroughtStep DEF AskPath, maxRedirectHops

(* A search that ends without a result.                                     *)
LEMMA FailStep ==
  ASSUME ScrapeInv, Fail,
         UNCHANGED <<definition, search, attempt, todo, hops, out, alive, forgotten, listing, blind>>
  PROVE  ScrapeInv'
BY NoResponseTyped DEF Fail, ScrapeInv, ScrapeTypeOK

LEMMA LoggedOutStep ==
  ASSUME ScrapeInv, LoggedOut,
         UNCHANGED <<definition, search, attempt, todo, hops, out, alive, forgotten, listing, blind>>
  PROVE  ScrapeInv'
<1>1. CASE attempt = 1
  BY <1>1 DEF LoggedOut, ScrapeInv, ScrapeTypeOK
<1>2. CASE attempt # 1
  BY <1>2, FailStep DEF LoggedOut
<1> QED BY <1>1, <1>2

LEMMA FollowStep == ASSUME ScrapeInv, FollowRedirect PROVE ScrapeInv'
<1>1. CASE response.leads = "odd"
  BY <1>1, FailStep DEF FollowRedirect
<1>2. CASE response.leads # "odd"
  <2>1. PICK r \in Answers(Current) :
          Brings(Current, r) /\ stage' = IF r.kind = "redirect" THEN "moved" ELSE "read"
    BY <1>2 DEF FollowRedirect
  <2>2. (stage' = "read" \/ (stage' = "moved" /\ r.kind = "redirect")) /\ stage = "moved"
    BY <2>1 DEF FollowRedirect
  <2>3. hops' \in 0 .. maxRedirectHops
    BY <1>2 DEF FollowRedirect, Follows, ScrapeInv, ScrapeTypeOK, maxRedirectHops
  <2> QED BY <1>2, <2>1, <2>2, <2>3, BroughtStep DEF FollowRedirect
<1> QED BY <1>1, <1>2

LEMMA UnfollowedStep == ASSUME ScrapeInv, RedirectUnfollowed PROVE ScrapeInv'
<1>1. CASE Asked(Current).type = "xml"
  <2>1. ScrapeTypeOK'
    BY <1>1 DEF RedirectUnfollowed, ScrapeInv, ScrapeTypeOK
  <2>2. Collected'
    BY <1>1, CollectedKept DEF RedirectUnfollowed, ScrapeInv
  <2> QED BY <1>1, <2>1, <2>2 DEF RedirectUnfollowed, ScrapeInv
<1>2. CASE Asked(Current).type # "xml" /\ definition.login
  BY <1>2, LoggedOutStep DEF RedirectUnfollowed
<1>3. CASE Asked(Current).type # "xml" /\ ~definition.login
  <2>1. PICK r \in Answers(Current) : Brings(Current, r) /\ stage' = "read"
    BY <1>3 DEF RedirectUnfollowed
  <2>2. hops' \in 0 .. maxRedirectHops
    BY DEF RedirectUnfollowed, ScrapeInv, ScrapeTypeOK
  <2> QED BY <2>1, <2>2, BroughtStep DEF RedirectUnfollowed
<1> QED BY <1>1, <1>2, <1>3 DEF RedirectUnfollowed

LEMMA LostStep == ASSUME ScrapeInv, SessionLost PROVE ScrapeInv'
BY LoggedOutStep DEF SessionLost

LEMMA CollectStep ==
  ASSUME ScrapeInv, stage = "read", NEW found \in Seq({Current} \X Nat), Collect(found),
         \A j, k \in DOMAIN found : j < k => found[j][2] < found[k][2],
         \/ blind' = blind /\ ToSet(found) = RowsIn(Current)
         \/ blind' = blind \cup {<<Current, response>>} /\ found = <<>> /\ Told(<<Current, response>>),
         UNCHANGED <<definition, search, attempt, hops, alive, forgotten, listing>>
  PROVE  ScrapeInv'
<1>1. ScrapeTypeOK /\ todo # <<>> /\ Collected
  BY DEF ScrapeInv
<1>2. /\ out' = out \o found /\ todo' = Tail(todo) /\ response' = NoResponse
      /\ stage' = IF todo' = <<>> THEN "done" ELSE "ask"
  BY DEF Collect
<1>3. Current \in DOMAIN definition.paths /\ Tail(todo) \in Seq(DOMAIN definition.paths)
  BY <1>1, CurrentFacts
<1>4. ScrapeTypeOK'
  <2>1. found \in Seq((DOMAIN definition.paths) \X Nat)
    <3>1. \A i \in 1 .. Len(found) : found[i] \in (DOMAIN definition.paths) \X Nat
      BY <1>3
    <3> QED BY <3>1
  <2>2. out' \in Seq((DOMAIN definition.paths) \X Nat)
    BY <1>1, <1>2, <2>1 DEF ScrapeTypeOK
  <2>3. blind' \subseteq (DOMAIN definition.paths) \X Response
    <3>1. <<Current, response>> \in (DOMAIN definition.paths) \X Response
      BY <1>1, <1>3 DEF ScrapeTypeOK
    <3> QED BY <1>1, <3>1 DEF ScrapeTypeOK
  <2>4. stage' \in {"done", "ask"}
    BY <1>2
  <2> QED BY <1>1, <1>2, <1>3, <2>2, <2>3, <2>4, NoResponseTyped DEF ScrapeTypeOK
<1>5. Collected'
  BY <1>1, <1>2, CollectedMore
<1> QED BY <1>2, <1>4, <1>5 DEF ScrapeInv

LEMMA NoResultsStep == ASSUME ScrapeInv, NoResults PROVE ScrapeInv'
<1>1. listing[Current] = <<>> /\ Collect(<<>>) /\ stage = "read"
  BY DEF NoResults, noResultsMatch
<1>2. ToSet(<<>>) = RowsIn(Current) /\ DOMAIN <<>> = {} /\ <<>> \in Seq({Current} \X Nat)
  BY <1>1 DEF ToSet, RowsIn
<1> QED BY <1>1, <1>2, CollectStep DEF NoResults

LEMMA BarrenStep == ASSUME ScrapeInv, ReadBarren PROVE ScrapeInv'
<1>1. CASE Fail /\ UNCHANGED <<out, todo, blind>>
  BY <1>1, FailStep DEF ReadBarren
<1>2. CASE Collect(<<>>) /\ blind' = blind \cup {<<Current, response>>} /\ ~checkSearchError
  <2>1. Told(<<Current, response>>)
    <3>1. <<Current, response>>[1] = Current /\ <<Current, response>>[2] = response
      OBVIOUS
    <3>2. response.kind \in {"login", "redirect"} => ~definition.test \/ ~response.html
      BY DEF ReadBarren, looksLoggedOut
    <3>3. response.kind = "error" => ~definition.error \/ ~Html(Current)
      BY <1>2 DEF checkSearchError, CheckErrorBlocks
    <3> QED BY <3>1, <3>2, <3>3 DEF Told
  <2>2. DOMAIN <<>> = {} /\ <<>> \in Seq({Current} \X Nat)
    OBVIOUS
  <2> QED BY <1>2, <2>1, <2>2, CollectStep DEF ReadBarren
<1>3. \/ Fail /\ UNCHANGED <<out, todo, blind>>
      \/ Collect(<<>>) /\ blind' = blind \cup {<<Current, response>>} /\ ~checkSearchError
  BY DEF ReadBarren
<1> QED BY <1>1, <1>2, <1>3

LEMMA ListingStep == ASSUME ScrapeInv, ReadListing PROVE ScrapeInv'
<1>1. CASE \E i \in DOMAIN listing[Current] : Aborts(listing[Current][i], Current)
  BY <1>1, FailStep DEF ReadListing
<1>2. CASE ~ \E i \in DOMAIN listing[Current] : Aborts(listing[Current][i], Current)
  <2>1. ScrapeTypeOK /\ Current \in DOMAIN definition.paths /\ listing[Current] # Unseen
    BY CurrentFacts DEF ScrapeInv, ReadListing
  <2>2. /\ ParseResults(Current) \in Seq({Current} \X Nat)
        /\ ToSet(ParseResults(Current)) = RowsIn(Current)
        /\ \A j, k \in DOMAIN ParseResults(Current) :
             j < k => ParseResults(Current)[j][2] < ParseResults(Current)[k][2]
    BY <1>2, <2>1, ParseFacts
  <2> QED BY <1>2, <2>2, CollectStep DEF ReadListing
<1> QED BY <1>1, <1>2

LEMMA SearchReloginStep == ASSUME ScrapeInv, SearchRelogin PROVE ScrapeInv'
<1>1. CASE Fail /\ UNCHANGED <<alive, attempt>>
  BY <1>1, FailStep DEF SearchRelogin
<1>2. CASE stage' = "build" /\ alive' = TRUE /\ attempt' = 2 /\ response' = NoResponse
  <2>1. attempt' \in 1 .. 2 /\ response' \in Response
    BY <1>2, NoResponseTyped
  <2>2. alive' \in BOOLEAN
    BY <1>2, Zenon
  <2>3. ScrapeTypeOK'
    BY <1>2, <2>1, <2>2 DEF SearchRelogin, ScrapeInv, ScrapeTypeOK
  <2> QED BY <1>2, <2>3 DEF ScrapeInv
<1> QED BY <1>1, <1>2 DEF SearchRelogin

LEMMA TrackerForgetStep == ASSUME ScrapeInv, TrackerForgets PROVE ScrapeInv'
<1>1. ScrapeTypeOK /\ UNCHANGED <<definition, search, stage, attempt, todo, hops, response, out, listing, blind>>
  BY DEF ScrapeInv, TrackerForgets
<1>2. forgotten' \in 0 .. MaxForgotten
  <2>1. MaxForgotten \in Nat
    BY ScrapeAssumption DEF ScrapeAssumption
  <2> QED BY <1>1, <2>1 DEF TrackerForgets, ScrapeTypeOK
<1>3. alive' \in BOOLEAN
  BY Zenon DEF TrackerForgets
<1>4. ScrapeTypeOK'
  BY <1>1, <1>2, <1>3 DEF ScrapeTypeOK
<1>5. Collected => Collected'
  BY <1>1, CollectedKept
<1>6. Current' = Current
  BY <1>1 DEF Current
<1> QED BY <1>1, <1>4, <1>5, <1>6 DEF ScrapeInv

LEMMA ScrapeStep == ScrapeInv /\ [ScrapeNext]_scrapeVars => ScrapeInv'
<1> SUFFICES ASSUME ScrapeInv, [ScrapeNext]_scrapeVars PROVE ScrapeInv'
  OBVIOUS
<1>1. CASE RequestFails
  BY <1>1, FailStep DEF RequestFails
<1>2. CASE UNCHANGED scrapeVars
  <2>1. ScrapeTypeOK'
    BY <1>2 DEF scrapeVars, ScrapeInv, ScrapeTypeOK
  <2>2. Collected => Collected'
    BY <1>2, CollectedKept DEF scrapeVars, ScrapeInv
  <2>3. Current' = Current
    BY <1>2 DEF scrapeVars, Current
  <2> QED BY <1>2, <2>1, <2>2, <2>3 DEF scrapeVars, ScrapeInv
<1> QED BY <1>1, <1>2, OpenStep, BuildStep, AskPathStep, FollowStep, UnfollowedStep, LostStep,
           NoResultsStep, BarrenStep, ListingStep, SearchReloginStep, TrackerForgetStep DEF ScrapeNext

LEMMA ScrapeInvariant == ScrapeSpec => []ScrapeInv
BY ScrapeStart, ScrapeStep, PTL DEF ScrapeSpec

(* A search keeps its types: pages, rows and paths of the definition.       *)
THEOREM ScrapeTypeCorrect == ScrapeSpec => []ScrapeTypeOK
<1>1. ScrapeInv => ScrapeTypeOK
  BY DEF ScrapeInv
<1> QED BY <1>1, ScrapeInvariant, PTL

(* A search that returns has every row it should, each once and in order.   *)
THEOREM SearchesAreWhole == ScrapeSpec => []ScrapeWhole
<1>1. ScrapeInv => ScrapeWhole
  <2> SUFFICES ASSUME ScrapeInv, stage = "done"
               PROVE  /\ ToSet(out) = Expected
                      /\ \A j, k \in DOMAIN out : j < k => Precedes(out[j], out[k])
                      /\ \A b \in blind : Told(b)
    BY DEF ScrapeWhole, Told
  <2>1. ScrapeTypeOK /\ todo = <<>> /\ RowsOk /\ BlindOk
    BY DEF ScrapeInv, Collected
  <2>2. ReadPaths = Served
    BY <2>1 DEF ReadPaths, ToSet
  <2>3. Served = {p \in DOMAIN definition.paths : Serves(p)}
    <3>1. \A p \in DOMAIN definition.paths : narrowToPathCategories(p) <=> Serves(p)
      <4> TAKE p \in DOMAIN definition.paths
      <4>1. Asked(p).inverted \in BOOLEAN
        BY <2>1, PathFacts DEF SearchPaths
      <4> QED BY <4>1 DEF narrowToPathCategories, Serves
    <3> QED BY <3>1 DEF Served
  <2>4. ReadPaths \ BlindPaths = {q \in DOMAIN definition.paths \ BlindPaths : Serves(q)}
    BY <2>2, <2>3
  <2>5. ToSet(out) = Expected
    BY <2>1, <2>4 DEF RowsOk, Expected, RowsIn
  <2> QED BY <2>1, <2>5 DEF RowsOk, BlindOk
<1> QED BY <1>1, ScrapeInvariant, PTL

---------------------------------------------------------------------------
(***************************************************************************)
(* Downloads, for any site and any definition: a grab without failures      *)
(* brings what the author of the definition meant, no target is tested      *)
(* twice, and a refusal for the rate ends it.                               *)
(***************************************************************************)

GrabClean == Got \cap {"fails", "limited", "wall"} = {}

(* No selector before the one in hand has a target that would do.           *)
PassedOver == \A i \in DOMAIN rule.selectors : i < at => ~Usable(i)

SiteOk ==
  /\ site.link \in Target \ {"nothing"} /\ site.hash \in BOOLEAN
  /\ site.shown \in [DOMAIN rule.selectors -> Target]

GrabPhase ==
  /\ grabbing \in {"idle", "session"} => requests = <<>> /\ read = "none"
  /\ grabbing # "over" => outcome = "none"
  /\ requests # <<>> \/ grabbing \notin {"idle", "over"} =>
       offered.kind = "url" /\ offered.key = tokenKey
  /\ read # "none" => read \in Got

GrabLimited ==
  \A i \in DOMAIN requests : requests[i].got = "limited" => i = Len(requests) /\ grabbing = "over"

GrabTests ==
  /\ \A i \in DOMAIN requests : requests[i].what = "test" =>
       /\ requests[i].at <= at
       /\ grabbing \notin {"fetch", "over"} => requests[i].at < at
  /\ \A i, j \in DOMAIN requests :
       requests[i].what = "test" /\ requests[j].what = "test" /\ i # j
         => requests[i].at # requests[j].at

GrabTarget ==
  /\ grabbing \in {"session", "beforePage", "before"} => at = 1
  /\ grabbing = "test" =>
       /\ rule.block /\ rule.infohash = "none" /\ at \in DOMAIN rule.selectors /\ rule.test
       /\ target = site.shown[at] /\ target \notin {"nothing", "magnet"}
  /\ grabbing = "fetch" => target \notin {"nothing", "magnet"}
  /\ GrabClean =>
       /\ grabbing \in {"resolve", "test"} => PassedOver
       /\ grabbing = "fetch" => target = Meant

GrabResult ==
  /\ grabbing = "over" /\ outcome \notin {"refused", "invalid"} /\ GrabClean
       => outcome = ServedFor(Meant)
  /\ outcome = "torrent" =>
       requests # <<>> /\ Last(requests).what = "fetch" /\ Last(requests).got = "torrent"

GrabInv ==
  DownloadsTypeOK /\ SiteOk /\ GrabPhase /\ GrabLimited /\ GrabTests /\ GrabTarget /\ GrabResult

SiteReply == Target \cup {"fails", "limited", "wall", "page"}
Purpose == {"page", "before", "test", "fetch"}
SiteRequest == [what : Purpose, at : 1 .. Len(rule.selectors) + 1, got : SiteReply]

-----------------------------------------------------------------------------
LEMMA RuleFacts ==
  ASSUME GrabInv
  PROVE  /\ rule.login \in BOOLEAN /\ rule.block \in BOOLEAN /\ rule.test \in BOOLEAN
         /\ rule.selectors \in Seq(BOOLEAN)
         /\ Len(rule.selectors) \in Nat /\ DOMAIN rule.selectors = 1 .. Len(rule.selectors)
         /\ rule.before \in {"none", "plain", "selected"}
         /\ rule.infohash \in {"none", "link", "before"}
         /\ at \in Nat /\ requests \in Seq(SiteRequest)
<1>1. rule \in DownloadRule /\ at \in 1 .. Len(rule.selectors) + 1 /\ requests \in Seq(SiteRequest)
  BY DEF GrabInv, DownloadsTypeOK, SiteRequest, SiteReply, Purpose
<1>2. /\ rule.login \in BOOLEAN /\ rule.block \in BOOLEAN /\ rule.test \in BOOLEAN
      /\ rule.selectors \in Seq(BOOLEAN)
      /\ rule.before \in {"none", "plain", "selected"}
      /\ rule.infohash \in {"none", "link", "before"}
  BY <1>1, DownloadsAssumption DEF DownloadsAssumption
<1>3. Len(rule.selectors) \in Nat /\ DOMAIN rule.selectors = 1 .. Len(rule.selectors)
  BY <1>2
<1> QED  BY <1>1, <1>2, <1>3

LEMMA SameMeaning ==
  ASSUME rule' = rule, site' = site
  PROVE  /\ Meant' = Meant /\ ServedFor(Meant)' = ServedFor(Meant)
         /\ \A i \in DOMAIN rule.selectors : Usable(i)' <=> Usable(i)
<1>1. \A i \in DOMAIN rule.selectors : Usable(i)' <=> Usable(i)
  BY DEF Usable
<1>2. Meant' = Meant
  BY DEF Meant, Usable
<1> QED  BY <1>1, <1>2 DEF ServedFor

(* One more request.                                                        *)
LEMMA OneMore ==
  ASSUME GrabInv, rule' = rule, NEW purpose \in Purpose, NEW got \in SiteReply, Asks(purpose, got)
  PROVE  LET e == [what |-> purpose, at |-> at, got |-> got] IN
         /\ requests' \in Seq(SiteRequest') /\ requests' # <<>> /\ Last(requests') = e
         /\ Len(requests) \in Nat /\ Len(requests') = Len(requests) + 1
         /\ DOMAIN requests = 1 .. Len(requests)
         /\ DOMAIN requests' = 1 .. Len(requests) + 1
         /\ \A i \in DOMAIN requests : requests'[i] = requests[i]
         /\ requests'[Len(requests) + 1] = e
         /\ Got' = Got \cup {got}
         /\ \A i \in DOMAIN requests : requests[i].at \in Nat /\ requests[i].what \in Purpose
<1> DEFINE e == [what |-> purpose, at |-> at, got |-> got]
<1>1. requests \in Seq(SiteRequest) /\ at \in 1 .. Len(rule.selectors) + 1 /\ SiteRequest' = SiteRequest
  BY RuleFacts DEF GrabInv, DownloadsTypeOK, SiteRequest
<1>2. e \in SiteRequest /\ requests' = Append(requests, e)
  BY <1>1 DEF SiteRequest, Asks
<1>3. e.got = got
  OBVIOUS
<1>4. \A i \in DOMAIN requests : requests[i] \in SiteRequest
  BY <1>1
<1>5. \A i \in DOMAIN requests : requests[i].at \in Nat /\ requests[i].what \in Purpose
  BY <1>4, RuleFacts DEF SiteRequest
<1> HIDE DEF e
<1>6. /\ requests' \in Seq(SiteRequest) /\ requests' # <<>> /\ Len(requests) \in Nat
      /\ Len(requests') = Len(requests) + 1
      /\ DOMAIN requests = 1 .. Len(requests)
      /\ DOMAIN requests' = 1 .. Len(requests) + 1
      /\ \A i \in DOMAIN requests : requests'[i] = requests[i]
      /\ requests'[Len(requests) + 1] = e
  BY <1>1, <1>2
<1>7. Got' = Got \cup {got}
  <2>1. ASSUME NEW g PROVE g \in Got' <=> g \in Got \cup {got}
    <3>1. ASSUME NEW i \in DOMAIN requests', g = requests'[i].got PROVE g \in Got \cup {got}
      BY <3>1, <1>6, <1>3 DEF Got
    <3>2. ASSUME NEW i \in DOMAIN requests, g = requests[i].got PROVE g \in Got'
      <4>1. i \in DOMAIN requests' /\ g = requests'[i].got
        BY <3>2, <1>6
      <4> QED  BY <4>1 DEF Got
    <3>3. got \in Got'
      <4>1. Len(requests) + 1 \in DOMAIN requests' /\ got = requests'[Len(requests) + 1].got
        BY <1>3, <1>6
      <4> QED  BY <4>1 DEF Got
    <3> QED  BY <3>1, <3>2, <3>3 DEF Got
  <2> QED  BY <2>1
<1>8. Last(requests') = e
  BY <1>6 DEF Last
<1> QED  BY <1>1, <1>5, <1>6, <1>7, <1>8 DEF e

(* What every request keeps of the order of the requests.                   *)
LEMMA AskedInOrder ==
  ASSUME GrabInv, rule' = rule, NEW purpose \in Purpose, NEW got \in SiteReply, Asks(purpose, got),
         grabbing # "over", at' \in Nat, at' >= at,
         got = "limited" => grabbing' = "over",
         purpose = "test" => grabbing = "test" /\ (grabbing' \in {"fetch", "over"} \/ at' > at),
         grabbing = "fetch" => grabbing' = "over"
  PROVE  GrabLimited' /\ GrabTests'
<1> DEFINE e == [what |-> purpose, at |-> at, got |-> got]
           n == Len(requests) + 1
<1>1. /\ Len(requests) \in Nat /\ Len(requests') = n
      /\ DOMAIN requests = 1 .. Len(requests) /\ DOMAIN requests' = 1 .. n
      /\ \A i \in DOMAIN requests : requests'[i] = requests[i]
      /\ requests'[n] = e
      /\ \A i \in DOMAIN requests : requests[i].at \in Nat /\ requests[i].what \in Purpose
  BY OneMore
<1>2. e.what = purpose /\ e.at = at /\ e.got = got /\ at \in Nat
  BY RuleFacts
<1> HIDE DEF e
<1>3. \A i \in DOMAIN requests' : i = n \/ i \in DOMAIN requests
  BY <1>1
<1>4. \A i \in DOMAIN requests : requests[i].got # "limited"
  BY DEF GrabInv, GrabLimited
<1>5. GrabLimited'
  BY <1>1, <1>2, <1>3, <1>4 DEF GrabLimited
<1>6. ASSUME NEW i \in DOMAIN requests', requests'[i].what = "test"
      PROVE  /\ requests'[i].at <= at'
             /\ grabbing' \notin {"fetch", "over"} => requests'[i].at < at'
  <2>1. CASE i = n
    BY <2>1, <1>1, <1>2, <1>6
  <2>2. CASE i \in DOMAIN requests
    <3>1. /\ requests[i].at <= at
          /\ grabbing \notin {"fetch", "over"} => requests[i].at < at
      BY <2>2, <1>1, <1>6 DEF GrabInv, GrabTests
    <3>2. requests[i].at \in Nat /\ requests'[i] = requests[i]
      BY <2>2, <1>1
    <3> QED  BY <3>1, <3>2, <1>2
  <2> QED  BY <2>1, <2>2, <1>3
<1>7. ASSUME NEW i \in DOMAIN requests, requests[i].what = "test", purpose = "test"
      PROVE  requests[i].at < at
  BY <1>7 DEF GrabInv, GrabTests
<1>8. ASSUME NEW i \in DOMAIN requests', NEW j \in DOMAIN requests',
             requests'[i].what = "test", requests'[j].what = "test", i # j
      PROVE  requests'[i].at # requests'[j].at
  <2>1. CASE i \in DOMAIN requests /\ j \in DOMAIN requests
    <3>1. requests'[i] = requests[i] /\ requests'[j] = requests[j]
      BY <2>1, <1>1
    <3> QED  BY <2>1, <3>1, <1>8 DEF GrabInv, GrabTests
  <2>2. CASE i = n /\ j \in DOMAIN requests
    <3>1. requests'[j] = requests[j] /\ requests[j].at \in Nat /\ requests'[i] = e
      BY <2>2, <1>1
    <3>2. requests[j].at < at
      BY <3>1, <2>2, <1>7, <1>8, <1>2
    <3> QED  BY <3>1, <3>2, <1>2
  <2>3. CASE j = n /\ i \in DOMAIN requests
    <3>1. requests'[i] = requests[i] /\ requests[i].at \in Nat /\ requests'[j] = e
      BY <2>3, <1>1
    <3>2. requests[i].at < at
      BY <3>1, <2>3, <1>7, <1>8, <1>2
    <3> QED  BY <3>1, <3>2, <1>2
  <2> QED  BY <2>1, <2>2, <2>3, <1>3, <1>8
<1>9. GrabTests'
  BY <1>6, <1>8 DEF GrabTests
<1> QED  BY <1>5, <1>9

(* No request: what has been asked stays in order.                          *)
LEMMA NothingAsked ==
  ASSUME GrabInv, rule' = rule, requests' = requests, at' \in Nat, at' >= at,
         grabbing \notin {"fetch", "over"} \/ (at' = at /\ grabbing' = grabbing)
  PROVE  GrabLimited' /\ GrabTests' /\ Got' = Got
<1>1. Got' = Got
  BY DEF Got
<1>2. GrabLimited'
  BY DEF GrabInv, GrabLimited
<1>3. at \in Nat /\ \A i \in DOMAIN requests : requests[i].at \in Nat
  <2>1. requests \in Seq(SiteRequest) /\ at \in Nat
    BY RuleFacts
  <2>2. \A i \in DOMAIN requests : requests[i] \in SiteRequest
    BY <2>1
  <2> QED  BY <2>1, <2>2, RuleFacts DEF SiteRequest
<1>4. GrabTests'
  BY <1>3 DEF GrabInv, GrabTests
<1> QED  BY <1>1, <1>2, <1>4

-----------------------------------------------------------------------------
(* The steps.  Those that ask nothing and leave the grab where it is:       *)
LEMMA GrabUntouched ==
  ASSUME GrabInv, UNCHANGED <<rule, site, keyed, start, offered, grabVars>>,
         logged' \in BOOLEAN, live' \in BOOLEAN
  PROVE  GrabInv'
<1>1. Got' = Got /\ tokenKey' = tokenKey
  BY DEF Got, grabVars, tokenKey
<1>2. Meant' = Meant /\ ServedFor(Meant)' = ServedFor(Meant)
      /\ \A i \in DOMAIN rule.selectors : Usable(i)' <=> Usable(i)
  BY SameMeaning
<1>3. DownloadsTypeOK' /\ SiteOk'
  BY DEF GrabInv, DownloadsTypeOK, SiteOk, grabVars
<1>4. GrabPhase' /\ GrabLimited' /\ GrabTests'
  BY <1>1 DEF GrabInv, GrabPhase, GrabLimited, GrabTests, grabVars
<1>5. GrabTarget' /\ GrabResult'
  BY <1>1, <1>2 DEF GrabInv, GrabTarget, GrabResult, GrabClean, PassedOver, grabVars
<1> QED  BY <1>3, <1>4, <1>5 DEF GrabInv

LEMMA SealLinkStep ==
  ASSUME GrabInv, SealLink
  PROVE  GrabInv'
<1>1. /\ UNCHANGED <<rule, site, keyed, start, grabVars, logged, live>> /\ offered = NotOffered
      /\ offered'.kind \in {"bare", "url"} /\ offered'.key \in {0, tokenKey}
      /\ offered' \in [kind : {"none", "bare", "url"}, key : 0 .. MaxStart]
  <2>1. tokenKey \in 0 .. MaxStart
    BY DownloadsAssumption DEF GrabInv, DownloadsTypeOK, tokenKey, DownloadsAssumption
  <2>2. 0 \in 0 .. MaxStart
    BY DownloadsAssumption DEF DownloadsAssumption
  <2> QED  BY <2>1, <2>2 DEF SealLink
<1>2. Got' = Got /\ tokenKey' = tokenKey
  BY <1>1 DEF Got, grabVars, tokenKey
<1>3. Meant' = Meant /\ ServedFor(Meant)' = ServedFor(Meant)
      /\ \A i \in DOMAIN rule.selectors : Usable(i)' <=> Usable(i)
  BY <1>1, SameMeaning
<1>4. DownloadsTypeOK' /\ SiteOk'
  BY <1>1 DEF GrabInv, DownloadsTypeOK, SiteOk, grabVars
<1>5. requests = <<>> /\ grabbing \in {"idle", "over"}
  BY <1>1 DEF GrabInv, GrabPhase, NotOffered
<1>6. GrabPhase' /\ GrabLimited' /\ GrabTests'
  BY <1>1, <1>2, <1>5 DEF GrabInv, GrabPhase, GrabLimited, GrabTests, grabVars
<1>7. GrabTarget' /\ GrabResult'
  BY <1>1, <1>2, <1>3 DEF GrabInv, GrabTarget, GrabResult, GrabClean, PassedOver, grabVars
<1> QED  BY <1>4, <1>6, <1>7 DEF GrabInv

(* A grab that has not asked for anything yet.                              *)
LEMMA FreshGrab ==
  ASSUME UNCHANGED <<rule, site, keyed, offered>>, SiteOk, DownloadsTypeOK, DownloadsAssumption,
         start' \in 1 .. MaxStart, logged' \in BOOLEAN, live' \in BOOLEAN,
         at' = 1, read' = "none", target' = "nothing", requests' = <<>>,
         "nothing" \in Target,
         \/ grabbing' = "idle" /\ outcome' = "none"
         \/ grabbing' = "over" /\ outcome' = "invalid"
         \/ /\ grabbing' = "session" /\ outcome' = "none" /\ offered.kind = "url"
            /\ offered.key = tokenKey'
  PROVE  GrabInv'
<1>1. Len(rule.selectors) \in Nat
  BY DEF DownloadsTypeOK, DownloadsAssumption
<1>2. DownloadsTypeOK' /\ SiteOk'
  <2>1. <<>> \in Seq([what : {"page", "before", "test", "fetch"},
                      at : 1 .. Len(rule.selectors) + 1,
                      got : Target \cup {"fails", "limited", "wall", "page"}])
    OBVIOUS
  <2> QED  BY <1>1, <2>1 DEF DownloadsTypeOK, SiteOk
<1>3. GrabPhase' /\ GrabLimited' /\ GrabTests'
  BY DEF GrabPhase, GrabLimited, GrabTests
<1>4. GrabTarget' /\ GrabResult'
  BY DEF GrabTarget, GrabResult, PassedOver
<1> QED  BY <1>2, <1>3, <1>4 DEF GrabInv

LEMMA GrabInitially ==
  ASSUME DownloadsInit
  PROVE  GrabInv
<1>1. rule.selectors \in Seq(BOOLEAN) /\ Len(rule.selectors) \in Nat
      /\ "nothing" \in Target /\ 1 \in 1 .. MaxStart
  BY DownloadsAssumption DEF DownloadsInit, DownloadsAssumption
<1>2. DownloadsTypeOK
  <2>1. <<>> \in Seq([what : {"page", "before", "test", "fetch"},
                      at : 1 .. Len(rule.selectors) + 1,
                      got : Target \cup {"fails", "limited", "wall", "page"}])
    OBVIOUS
  <2>2. 0 \in 0 .. MaxStart
    BY DownloadsAssumption DEF DownloadsAssumption
  <2>3. 1 \in 1 .. Len(rule.selectors) + 1
    BY <1>1
  <2> QED  BY <1>1, <2>1, <2>2, <2>3 DEF DownloadsTypeOK, DownloadsInit, NotOffered
<1>3. SiteOk /\ GrabPhase /\ GrabLimited /\ GrabTests
  BY DEF SiteOk, GrabPhase, GrabLimited, GrabTests, DownloadsInit
<1>4. GrabTarget /\ GrabResult
  BY DEF GrabTarget, GrabResult, PassedOver, DownloadsInit
<1> QED  BY <1>2, <1>3, <1>4 DEF GrabInv

LEMMA RedeemStep ==
  ASSUME GrabInv, Redeem
  PROVE  GrabInv'
<1>1. \/ grabbing' = "over" /\ outcome' = "invalid"
      \/ grabbing' = "session" /\ outcome' = "none" /\ offered.key = tokenKey
  BY DEF Redeem, decodeDLToken, GrabOver
<1>2. tokenKey' = tokenKey /\ offered.kind = "url"
  BY DEF Redeem, tokenKey
<1>3. start' \in 1 .. MaxStart /\ logged' \in BOOLEAN /\ live' \in BOOLEAN
  BY DEF Redeem, GrabInv, DownloadsTypeOK
<1>4. /\ UNCHANGED <<rule, site, keyed, offered>>
      /\ at' = 1 /\ read' = "none" /\ target' = "nothing" /\ requests' = <<>>
  BY DEF Redeem
<1>5. "nothing" \in Target
  BY DownloadsAssumption DEF DownloadsAssumption
<1> QED  BY <1>1, <1>2, <1>3, <1>4, <1>5, FreshGrab, DownloadsAssumption DEF GrabInv

LEMMA DaemonStartsStep ==
  ASSUME GrabInv, DaemonStarts
  PROVE  GrabInv'
<1>1. start' \in 1 .. MaxStart /\ logged' \in BOOLEAN /\ live' \in BOOLEAN
  <2>1. start \in 1 .. MaxStart /\ start < MaxStart /\ start' = start + 1 /\ MaxStart \in Nat
    BY DownloadsAssumption DEF DaemonStarts, GrabInv, DownloadsTypeOK, DownloadsAssumption
  <2>2. logged' = FALSE /\ live' = FALSE
    BY DEF DaemonStarts
  <2>3. start' \in 1 .. MaxStart
    BY <2>1
  <2> QED  BY <2>2, <2>3
<1>2. "nothing" \in Target
  BY DownloadsAssumption DEF DownloadsAssumption
<1>3. /\ UNCHANGED <<rule, site, keyed, offered>>
      /\ at' = 1 /\ read' = "none" /\ target' = "nothing" /\ requests' = <<>>
      /\ grabbing' = "idle" /\ outcome' = "none"
  BY DEF DaemonStarts
<1> QED  BY <1>1, <1>2, <1>3, FreshGrab, DownloadsAssumption DEF GrabInv

LEMMA GrabRefusedStep ==
  ASSUME GrabInv, GrabRefused
  PROVE  GrabInv'
<1>1. /\ UNCHANGED <<rule, site, keyed, start, offered, at, read, target, requests, logged, live>>
      /\ grabbing = "session" /\ grabbing' = "over" /\ outcome' = "refused"
  BY DEF GrabRefused, GrabOver
<1>2. Got' = Got /\ tokenKey' = tokenKey /\ requests = <<>>
  BY <1>1 DEF Got, tokenKey, GrabInv, GrabPhase
<1>3. DownloadsTypeOK' /\ SiteOk'
  BY <1>1 DEF GrabInv, DownloadsTypeOK, SiteOk
<1>4. GrabPhase' /\ GrabLimited' /\ GrabTests'
  BY <1>1, <1>2 DEF GrabInv, GrabPhase, GrabLimited, GrabTests
<1>5. GrabTarget' /\ GrabResult'
  BY <1>1 DEF GrabTarget, GrabResult
<1> QED  BY <1>3, <1>4, <1>5 DEF GrabInv

LEMMA SessionEnsuredStep ==
  ASSUME GrabInv, SessionEnsured
  PROVE  GrabInv'
<1>1. /\ UNCHANGED <<rule, site, keyed, start, offered, at, read, target, requests, outcome>>
      /\ grabbing = "session" /\ grabbing' \in {"resolve", "beforePage", "before"}
      /\ logged' \in BOOLEAN /\ live' \in BOOLEAN
  BY DEF SessionEnsured, GrabInv, DownloadsTypeOK
<1>2. Got' = Got /\ tokenKey' = tokenKey /\ requests = <<>> /\ at = 1 /\ outcome = "none"
  BY <1>1 DEF Got, tokenKey, GrabInv, GrabPhase, GrabTarget
<1>3. DownloadsTypeOK' /\ SiteOk'
  BY <1>1 DEF GrabInv, DownloadsTypeOK, SiteOk
<1>4. GrabPhase' /\ GrabLimited' /\ GrabTests'
  BY <1>1, <1>2 DEF GrabInv, GrabPhase, GrabLimited, GrabTests
<1>5. GrabTarget' /\ GrabResult'
  BY <1>1, <1>2, RuleFacts DEF GrabTarget, GrabResult, PassedOver
<1> QED  BY <1>3, <1>4, <1>5 DEF GrabInv

LEMMA ReplyFacts ==
  ASSUME GrabInv, NEW kind \in Target \cup {"page"}, NEW got \in Replies(kind)
  PROVE  got \in SiteReply /\ got \in {"fails", "limited", "wall", kind}
BY DEF Replies, SiteReply

(* The request before, and the page its link is read from.                  *)
LEMMA BeforeSteps ==
  ASSUME GrabInv, ReadBeforePage \/ FetchBefore
  PROVE  GrabInv'
<1>1. PICK purpose \in Purpose, got \in Replies("page") :
        /\ Asks(purpose, got) /\ purpose # "test"
        /\ UNCHANGED <<rule, site, keyed, start, offered, at, target, logged, live>>
        /\ grabbing \in {"beforePage", "before"}
        /\ \/ grabbing' = "over" /\ outcome' = "failed" /\ read' = read
              /\ got \in {"fails", "limited", "wall"}
           \/ grabbing' = "before" /\ outcome' = outcome /\ read' = read /\ got # "limited"
           \/ grabbing' = "resolve" /\ outcome' = outcome /\ read' = got /\ got # "limited"
              /\ got \notin {"fails", "limited"}
  <2>1. CASE ReadBeforePage
    BY <2>1 DEF ReadBeforePage, GrabOver, Purpose, Replies
  <2>2. CASE FetchBefore
    BY <2>2 DEF FetchBefore, GrabOver, Purpose, Replies, NoPage
  <2> QED  BY <2>1, <2>2
<1>2. got \in SiteReply /\ got \in {"fails", "limited", "wall", "page"}
  BY ReplyFacts
<1>3. /\ requests' \in Seq(SiteRequest') /\ requests' # <<>> /\ Got' = Got \cup {got}
  BY <1>1, <1>2, OneMore
<1>4. at = 1 /\ outcome = "none" /\ offered.kind = "url" /\ offered.key = tokenKey
  BY <1>1 DEF GrabInv, GrabPhase, GrabTarget
<1>5. tokenKey' = tokenKey
  BY <1>1 DEF tokenKey
<1>6. DownloadsTypeOK'
  <2>1. /\ rule' \in DownloadRule /\ keyed' \in BOOLEAN /\ start' \in 1 .. MaxStart
        /\ offered' \in [kind : {"none", "bare", "url"}, key : 0 .. MaxStart]
        /\ at' \in 1 .. Len(rule'.selectors) + 1
        /\ target' \in Target /\ logged' \in BOOLEAN /\ live' \in BOOLEAN
    BY <1>1 DEF GrabInv, DownloadsTypeOK
  <2>2. read' \in {"none", "wall", "page"}
    BY <1>1, <1>2 DEF GrabInv, DownloadsTypeOK
  <2> QED  BY <1>1, <1>3, <1>4, <2>1, <2>2 DEF DownloadsTypeOK, SiteRequest, SiteReply, Purpose
<1>7. SiteOk'
  BY <1>1 DEF GrabInv, SiteOk
<1>8. GrabPhase'
  <2>1. read' # "none" => read' \in Got'
    BY <1>1, <1>3 DEF GrabInv, GrabPhase
  <2> QED  BY <1>1, <1>3, <1>4, <1>5, <2>1 DEF GrabPhase
<1>9. GrabLimited' /\ GrabTests'
  BY <1>1, <1>2, <1>4, AskedInOrder
<1>10. GrabTarget'
  BY <1>1, <1>4, RuleFacts DEF GrabTarget, PassedOver
<1>11. GrabResult'
  BY <1>1, <1>3, <1>4 DEF GrabResult, GrabClean
<1> QED  BY <1>6, <1>7, <1>8, <1>9, <1>10, <1>11 DEF GrabInv

(* What a grab that is being resolved has, and what reading a page keeps.   *)
LEMMA ResolveFacts ==
  ASSUME GrabInv, grabbing \in {"resolve", "test"}
  PROVE  /\ outcome = "none" /\ offered.kind = "url" /\ offered.key = tokenKey
         /\ GrabClean => PassedOver
BY DEF GrabInv, GrabPhase, GrabTarget

LEMMA PageRead ==
  ASSUME GrabInv, rule' = rule, grabbing = "resolve", NEW before, NEW got \in AnyPage,
         PageFor(before, got), at' \in Nat, at' >= at, got = "limited" => grabbing' = "over"
  PROVE  /\ requests' \in Seq(SiteRequest') /\ GrabLimited' /\ GrabTests'
         /\ Got \subseteq Got' /\ got \in Got' /\ (GrabClean' => GrabClean /\ got = "page")
<1>1. CASE before /\ read # "none"
  <2>1. got = read /\ requests' = requests /\ got \in Got
    BY <1>1 DEF PageFor, GrabInv, GrabPhase
  <2>2. GrabLimited' /\ GrabTests' /\ Got' = Got
    BY <2>1, NothingAsked
  <2>3. requests' \in Seq(SiteRequest')
    BY <2>1, RuleFacts DEF SiteRequest
  <2> QED  BY <2>1, <2>2, <2>3 DEF GrabClean, AnyPage
<1>2. CASE ~(before /\ read # "none")
  <2>1. got \in Replies("page") /\ Asks("page", got) /\ "page" \in Purpose
    BY <1>2 DEF PageFor, Purpose
  <2>2. got \in SiteReply
    BY <2>1, ReplyFacts
  <2>3. requests' \in Seq(SiteRequest') /\ Got' = Got \cup {got}
    BY <2>1, <2>2, OneMore
  <2>4. GrabLimited' /\ GrabTests'
    BY <2>1, <2>2, AskedInOrder
  <2> QED  BY <2>3, <2>4 DEF GrabClean, AnyPage
<1> QED  BY <1>1, <1>2

(* A link was resolved to t, or the grab has failed.                        *)
LEMMA ResolvedOrFailed ==
  ASSUME GrabInv, UNCHANGED <<rule, site, keyed, start, offered, at, read, logged, live>>,
         grabbing = "resolve", requests' \in Seq(SiteRequest'), GrabLimited', GrabTests',
         Got \subseteq Got', NEW t,
         \/ /\ t \in Target \ {"nothing"} /\ ResolvedTo(t)
            /\ GrabClean' => t = Meant
         \/ ~GrabClean' /\ GrabOver("failed") /\ target' = target
  PROVE  GrabInv'
<1>1. /\ outcome = "none" /\ offered.kind = "url" /\ offered.key = tokenKey
      /\ tokenKey' = tokenKey
  BY ResolveFacts DEF tokenKey
<1>2. Meant' = Meant /\ ServedFor(Meant)' = ServedFor(Meant)
  BY SameMeaning
<1>3. \/ grabbing' = "over" /\ outcome' = "magnet" /\ target' \in Target
         /\ (GrabClean' => Meant = "magnet")
      \/ grabbing' = "fetch" /\ outcome' = "none" /\ target' \in Target \ {"nothing", "magnet"}
         /\ (GrabClean' => target' = Meant)
      \/ ~GrabClean' /\ grabbing' = "over" /\ outcome' = "failed" /\ target' \in Target
  BY <1>1 DEF ResolvedTo, GrabOver, GrabInv, DownloadsTypeOK
<1>4. DownloadsTypeOK'
  <2>1. /\ rule' \in DownloadRule /\ keyed' \in BOOLEAN /\ start' \in 1 .. MaxStart
        /\ offered' \in [kind : {"none", "bare", "url"}, key : 0 .. MaxStart]
        /\ at' \in 1 .. Len(rule'.selectors) + 1 /\ read' \in {"none", "wall", "page"}
        /\ logged' \in BOOLEAN /\ live' \in BOOLEAN
    BY DEF GrabInv, DownloadsTypeOK
  <2> QED  BY <1>3, <2>1 DEF DownloadsTypeOK, SiteRequest, SiteReply, Purpose
<1>5. SiteOk'
  BY DEF GrabInv, SiteOk
<1>6. GrabPhase'
  <2>1. read' # "none" => read' \in Got'
    BY DEF GrabInv, GrabPhase
  <2> QED  BY <1>1, <1>3, <2>1 DEF GrabPhase
<1>7. GrabTarget'
  BY <1>2, <1>3 DEF GrabTarget
<1>8. GrabResult'
  <2>1. Meant = "magnet" => ServedFor(Meant) = "magnet"
    BY DEF ServedFor
  <2> QED  BY <1>2, <1>3, <2>1 DEF GrabResult
<1> QED  BY <1>4, <1>5, <1>6, <1>7, <1>8 DEF GrabInv

LEMMA KeepLinkStep ==
  ASSUME GrabInv, KeepLink
  PROVE  GrabInv'
<1>1. /\ UNCHANGED <<rule, site, keyed, start, offered, at, read, requests, logged, live>>
      /\ grabbing = "resolve" /\ ResolvedTo(site.link)
      /\ ~rule.block \/ (rule.infohash = "none" /\ rule.selectors = <<>>)
  BY DEF KeepLink
<1>2. GrabLimited' /\ GrabTests' /\ Got' = Got
  BY <1>1, RuleFacts, NothingAsked
<1>3. requests' \in Seq(SiteRequest') /\ site.link \in Target \ {"nothing"}
  BY <1>1, RuleFacts DEF SiteRequest, GrabInv, SiteOk
<1>4. site.link = Meant
  BY <1>1 DEF Meant
<1> QED  BY <1>1, <1>2, <1>3, <1>4, ResolvedOrFailed

LEMMA ResolveInfoHashStep ==
  ASSUME GrabInv, ResolveInfoHash, "magnet" \in Target
  PROVE  GrabInv'
<1>1. PICK got \in AnyPage :
        /\ PageFor(rule.infohash = "before", got)
        /\ IF NoPage(got) THEN GrabOver("failed") /\ UNCHANGED target
           ELSE ResolvedTo(IF got = "page" /\ site.hash THEN "magnet" ELSE site.link)
  BY DEF ResolveInfoHash
<1>2. /\ UNCHANGED <<rule, site, keyed, start, offered, at, read, logged, live>>
      /\ grabbing = "resolve" /\ rule.block /\ rule.infohash # "none"
  BY DEF ResolveInfoHash
<1>3. got = "limited" => grabbing' = "over"
  BY <1>1 DEF NoPage, GrabOver
<1>4. /\ requests' \in Seq(SiteRequest') /\ GrabLimited' /\ GrabTests'
      /\ Got \subseteq Got' /\ got \in Got' /\ (GrabClean' => GrabClean /\ got = "page")
  BY <1>1, <1>2, <1>3, RuleFacts, PageRead
<1> DEFINE t == IF got = "page" /\ site.hash THEN "magnet" ELSE site.link
<1>5. t \in Target \ {"nothing"}
  BY DEF GrabInv, SiteOk
<1>6. GrabClean' => t = Meant
  BY <1>2, <1>4 DEF Meant
<1>7. NoPage(got) => ~GrabClean'
  BY <1>4 DEF NoPage
<1>8. IF NoPage(got) THEN GrabOver("failed") /\ UNCHANGED target ELSE ResolvedTo(t)
  BY <1>1
<1> HIDE DEF t
<1> QED  BY <1>2, <1>4, <1>5, <1>6, <1>7, <1>8, ResolvedOrFailed

(* The first selector whose target would do is what the author meant.       *)
LEMMA FirstUsable ==
  ASSUME GrabInv, rule.block, rule.infohash = "none", at \in DOMAIN rule.selectors, Usable(at),
         PassedOver
  PROVE  Meant = site.shown[at]
<1> DEFINE usable == {i \in DOMAIN rule.selectors : Usable(i)}
<1>1. DOMAIN rule.selectors = 1 .. Len(rule.selectors) /\ Len(rule.selectors) \in Nat
      /\ at \in Nat /\ rule.selectors # <<>>
  BY RuleFacts
<1>2. at \in usable /\ \A i \in usable : i \in Nat /\ at <= i
  BY <1>1 DEF PassedOver
<1> HIDE DEF usable
<1>3. \A x \in usable : (\A y \in usable : x =< y) => x = at
  BY <1>1, <1>2
<1>4. Min(usable) = at
  BY <1>2, <1>3 DEF Min
<1>5. usable # {}
  BY <1>2
<1> QED  BY <1>1, <1>4, <1>5 DEF Meant, usable

LEMMA UsableFacts ==
  ASSUME GrabInv, NEW i \in DOMAIN rule.selectors
  PROVE  /\ site.shown[i] \in Target
         /\ site.shown[i] = "magnet" => Usable(i)
         /\ ~rule.test /\ site.shown[i] # "nothing" => Usable(i)
         /\ site.shown[i] \in {"torrent", "empty"} => Usable(i)
         /\ site.shown[i] = "nothing" => ~Usable(i)
         /\ rule.test /\ site.shown[i] = "page" => ~Usable(i)
<1>1. site.shown[i] \in Target /\ rule.test \in BOOLEAN
  BY RuleFacts DEF GrabInv, SiteOk
<1>2. site.shown[i] \in {"nothing", "torrent", "page", "empty", "magnet"}
  BY <1>1, DownloadsAssumption DEF DownloadsAssumption
<1> QED  BY <1>1, <1>2 DEF Usable

(* On to the next selector, or into the test of this one's target.          *)
LEMMA StillResolving ==
  ASSUME GrabInv, UNCHANGED <<rule, site, keyed, start, offered, read, outcome, logged, live>>,
         grabbing \in {"resolve", "test"}, requests' \in Seq(SiteRequest'), GrabLimited', GrabTests',
         Got \subseteq Got', target' \in Target,
         rule.block, rule.infohash = "none", at \in DOMAIN rule.selectors,
         \/ grabbing' = "resolve" /\ at' = at + 1 /\ (GrabClean' => GrabClean /\ ~Usable(at))
         \/ /\ grabbing' = "test" /\ at' = at /\ target' = site.shown[at] /\ rule.test
            /\ target' \notin {"nothing", "magnet"} /\ (GrabClean' => GrabClean)
         \/ /\ grabbing' = "fetch" /\ at' = at /\ target' \notin {"nothing", "magnet"}
            /\ (GrabClean' => target' = Meant)
  PROVE  GrabInv'
<1>1. /\ outcome = "none" /\ offered.kind = "url" /\ offered.key = tokenKey
      /\ tokenKey' = tokenKey /\ (GrabClean => PassedOver)
  BY ResolveFacts DEF tokenKey
<1>2. /\ Meant' = Meant /\ ServedFor(Meant)' = ServedFor(Meant)
      /\ \A i \in DOMAIN rule.selectors : Usable(i)' <=> Usable(i)
  BY SameMeaning
<1>3. /\ DOMAIN rule.selectors = 1 .. Len(rule.selectors) /\ Len(rule.selectors) \in Nat
      /\ at \in Nat
  BY RuleFacts
<1>4. at' \in 1 .. Len(rule'.selectors) + 1
  BY <1>3
<1>5. DownloadsTypeOK'
  <2>1. /\ rule' \in DownloadRule /\ keyed' \in BOOLEAN /\ start' \in 1 .. MaxStart
        /\ offered' \in [kind : {"none", "bare", "url"}, key : 0 .. MaxStart]
        /\ read' \in {"none", "wall", "page"} /\ target' \in Target
        /\ logged' \in BOOLEAN /\ live' \in BOOLEAN
    BY DEF GrabInv, DownloadsTypeOK
  <2> QED  BY <1>1, <1>4, <2>1 DEF DownloadsTypeOK, SiteRequest, SiteReply, Purpose
<1>6. SiteOk'
  BY DEF GrabInv, SiteOk
<1>7. GrabPhase'
  <2>1. read' # "none" => read' \in Got'
    BY DEF GrabInv, GrabPhase
  <2> QED  BY <1>1, <2>1 DEF GrabPhase
<1>8. GrabClean' /\ grabbing' \in {"resolve", "test"} => PassedOver'
  <2>1. SUFFICES ASSUME GrabClean', grabbing' \in {"resolve", "test"},
                        NEW i \in DOMAIN rule.selectors, i < at'
                 PROVE  ~Usable(i)'
    BY DEF PassedOver
  <2>2. GrabClean /\ PassedOver
    BY <1>1, <2>1
  <2>3. CASE i < at
    BY <1>2, <2>2, <2>3 DEF PassedOver
  <2>4. CASE i = at /\ grabbing' = "resolve" /\ ~Usable(at)
    BY <1>2, <2>4
  <2> QED  BY <1>3, <2>1, <2>3, <2>4
<1>9. GrabTarget'
  BY <1>2, <1>8 DEF GrabTarget
<1>10. GrabResult'
  BY <1>1 DEF GrabResult
<1> QED  BY <1>5, <1>6, <1>7, <1>9, <1>10 DEF GrabInv

LEMMA TrySelectorStep ==
  ASSUME GrabInv, TrySelector
  PROVE  GrabInv'
<1>1. /\ UNCHANGED <<rule, site, keyed, start, offered, read, logged, live>>
      /\ grabbing = "resolve" /\ rule.block /\ rule.infohash = "none" /\ rule.selectors # <<>>
      /\ at <= Len(rule.selectors)
  BY DEF TrySelector, Selecting
<1>2. PICK got \in AnyPage :
        /\ PageFor(rule.selectors[at], got)
        /\ CASE NoPage(got) -> GrabOver("failed") /\ UNCHANGED <<at, target>>
             [] got = "wall" \/ (got = "page" /\ site.shown[at] = "nothing") ->
                  at' = at + 1 /\ UNCHANGED <<grabbing, outcome, target>>
             [] got = "page" /\ site.shown[at] # "nothing" ->
                  IF site.shown[at] = "magnet" \/ ~rule.test
                    THEN ResolvedTo(site.shown[at]) /\ UNCHANGED at
                    ELSE /\ grabbing' = "test" /\ target' = site.shown[at]
                         /\ UNCHANGED <<at, outcome>>
  BY DEF TrySelector
<1>3. at \in DOMAIN rule.selectors /\ at \in Nat
  <2>1. at \in 1 .. Len(rule.selectors) + 1
    BY DEF GrabInv, DownloadsTypeOK
  <2> QED  BY <1>1, <2>1, RuleFacts
<1>4. \/ NoPage(got) /\ GrabOver("failed") /\ UNCHANGED <<at, target>>
      \/ /\ got = "wall" \/ (got = "page" /\ site.shown[at] = "nothing")
         /\ at' = at + 1 /\ UNCHANGED <<grabbing, outcome, target>>
      \/ /\ got = "page" /\ site.shown[at] # "nothing" /\ ResolvedTo(site.shown[at])
         /\ UNCHANGED at /\ (site.shown[at] = "magnet" \/ ~rule.test)
      \/ /\ got = "page" /\ site.shown[at] \notin {"nothing", "magnet"} /\ rule.test
         /\ grabbing' = "test" /\ target' = site.shown[at] /\ UNCHANGED <<at, outcome>>
  BY <1>2, RuleFacts DEF NoPage, AnyPage
<1>5. at' \in Nat /\ at' >= at
  BY <1>3, <1>4
<1>6. got = "limited" => grabbing' = "over"
  BY <1>4 DEF NoPage, GrabOver
<1>7. /\ requests' \in Seq(SiteRequest') /\ GrabLimited' /\ GrabTests'
      /\ Got \subseteq Got' /\ got \in Got' /\ (GrabClean' => GrabClean /\ got = "page")
  BY <1>1, <1>2, <1>5, <1>6, PageRead
<1>8. /\ site.shown[at] \in Target
      /\ site.shown[at] = "magnet" => Usable(at)
      /\ ~rule.test /\ site.shown[at] # "nothing" => Usable(at)
      /\ site.shown[at] = "nothing" => ~Usable(at)
  BY <1>3, UsableFacts
<1>9. CASE NoPage(got) /\ GrabOver("failed") /\ UNCHANGED <<at, target>>
  <2>1. ~GrabClean'
    BY <1>7, <1>9 DEF NoPage
  <2> QED  BY <1>1, <1>7, <1>9, <2>1, ResolvedOrFailed
<1>10. CASE /\ got = "wall" \/ (got = "page" /\ site.shown[at] = "nothing")
            /\ at' = at + 1 /\ UNCHANGED <<grabbing, outcome, target>>
  <2>1. target' \in Target
    BY <1>10 DEF GrabInv, DownloadsTypeOK
  <2>2. GrabClean' => GrabClean /\ ~Usable(at)
    BY <1>7, <1>8, <1>10
  <2> QED  BY <1>1, <1>3, <1>7, <1>10, <2>1, <2>2, StillResolving
<1>11. CASE /\ got = "page" /\ site.shown[at] # "nothing" /\ ResolvedTo(site.shown[at])
            /\ UNCHANGED at /\ (site.shown[at] = "magnet" \/ ~rule.test)
  <2>1. GrabClean' => site.shown[at] = Meant
    <3>1. GrabClean' => PassedOver
      BY <1>1, <1>7, ResolveFacts
    <3> QED  BY <1>1, <1>3, <1>8, <1>11, <3>1, FirstUsable
  <2> QED  BY <1>1, <1>7, <1>8, <1>11, <2>1, ResolvedOrFailed
<1>12. CASE /\ got = "page" /\ site.shown[at] \notin {"nothing", "magnet"} /\ rule.test
            /\ grabbing' = "test" /\ target' = site.shown[at] /\ UNCHANGED <<at, outcome>>
  BY <1>1, <1>3, <1>7, <1>8, <1>12, StillResolving
<1> QED  BY <1>4, <1>9, <1>10, <1>11, <1>12

(* The grab ends with the request in hand.                                  *)
LEMMA GrabEnds ==
  ASSUME GrabInv, UNCHANGED <<rule, site, keyed, start, offered, at, read, target, logged, live>>,
         grabbing \in {"resolve", "test", "fetch"}, grabbing' = "over",
         requests' \in Seq(SiteRequest'), GrabLimited', GrabTests', Got \subseteq Got',
         outcome' \in {"torrent", "unavailable", "failed"},
         GrabClean' => outcome' = ServedFor(Meant),
         outcome' = "torrent" =>
           requests' # <<>> /\ Last(requests').what = "fetch" /\ Last(requests').got = "torrent"
  PROVE  GrabInv'
<1>1. /\ offered.kind = "url" /\ offered.key = tokenKey /\ tokenKey' = tokenKey
  BY DEF GrabInv, GrabPhase, tokenKey
<1>2. ServedFor(Meant)' = ServedFor(Meant)
  BY SameMeaning
<1>3. DownloadsTypeOK'
  <2>1. /\ rule' \in DownloadRule /\ keyed' \in BOOLEAN /\ start' \in 1 .. MaxStart
        /\ offered' \in [kind : {"none", "bare", "url"}, key : 0 .. MaxStart]
        /\ at' \in 1 .. Len(rule'.selectors) + 1 /\ target' \in Target
        /\ read' \in {"none", "wall", "page"} /\ logged' \in BOOLEAN /\ live' \in BOOLEAN
    BY DEF GrabInv, DownloadsTypeOK
  <2> QED  BY <2>1 DEF DownloadsTypeOK, SiteRequest, SiteReply, Purpose
<1>4. SiteOk'
  BY DEF GrabInv, SiteOk
<1>5. GrabPhase'
  <2>1. read' # "none" => read' \in Got'
    BY DEF GrabInv, GrabPhase
  <2> QED  BY <1>1, <2>1 DEF GrabPhase
<1>6. GrabTarget'
  BY DEF GrabTarget
<1>7. GrabResult'
  BY <1>2 DEF GrabResult
<1> QED  BY <1>3, <1>4, <1>5, <1>6, <1>7 DEF GrabInv

LEMMA NoSelectorMatchedStep ==
  ASSUME GrabInv, NoSelectorMatched
  PROVE  GrabInv'
<1>1. /\ UNCHANGED <<rule, site, keyed, start, offered, at, read, target, requests, logged, live>>
      /\ grabbing = "resolve" /\ rule.block /\ rule.infohash = "none" /\ rule.selectors # <<>>
      /\ at > Len(rule.selectors) /\ grabbing' = "over" /\ outcome' = "failed"
  BY DEF NoSelectorMatched, Selecting, GrabOver
<1>2. GrabLimited' /\ GrabTests' /\ Got' = Got /\ requests' \in Seq(SiteRequest')
  BY <1>1, RuleFacts, NothingAsked DEF SiteRequest
<1>3. GrabClean' => ServedFor(Meant) = "failed"
  <2>1. ASSUME GrabClean' PROVE \A i \in DOMAIN rule.selectors : ~Usable(i)
    <3>1. PassedOver
      BY <1>1, <1>2, <2>1, ResolveFacts DEF GrabClean
    <3> QED  BY <1>1, <3>1, RuleFacts DEF PassedOver
  <2>2. (\A i \in DOMAIN rule.selectors : ~Usable(i)) => Meant = "nothing"
    BY <1>1 DEF Meant
  <2> QED  BY <2>1, <2>2 DEF ServedFor
<1> QED  BY <1>1, <1>2, <1>3, GrabEnds

LEMMA TargetServed ==
  ASSUME NEW t \in {"torrent", "page", "empty"}
  PROVE  ServedFor(t) = IF t = "torrent" THEN "torrent" ELSE "unavailable"
BY DEF ServedFor

LEMMA TorrentTestStep ==
  ASSUME GrabInv, passesTorrentTest
  PROVE  GrabInv'
<1>1. /\ UNCHANGED <<rule, site, keyed, start, offered, read, target, logged, live>>
      /\ grabbing = "test"
  BY DEF passesTorrentTest
<1>2. PICK got \in Replies(target) :
        /\ Asks("test", got)
        /\ CASE EndsGrab(got) -> GrabOver("failed") /\ UNCHANGED at
             [] got \in {"torrent", "empty"} -> grabbing' = "fetch" /\ UNCHANGED <<at, outcome>>
             [] OTHER -> grabbing' = "resolve" /\ at' = at + 1 /\ UNCHANGED outcome
  BY DEF passesTorrentTest
<1>3. /\ rule.block /\ rule.infohash = "none" /\ at \in DOMAIN rule.selectors /\ rule.test
      /\ target = site.shown[at] /\ target \notin {"nothing", "magnet"} /\ target \in Target
      /\ at \in Nat
  BY <1>1, RuleFacts DEF GrabInv, GrabTarget, DownloadsTypeOK
<1>4. got \in SiteReply /\ got \in {"fails", "limited", "wall", target} /\ "test" \in Purpose
  BY <1>3, ReplyFacts DEF Purpose
<1>5. target \in {"torrent", "page", "empty"}
  BY <1>3, DownloadsAssumption DEF DownloadsAssumption
<1>6. \/ got = "limited" /\ grabbing' = "over" /\ outcome' = "failed" /\ at' = at
      \/ got \in {"torrent", "empty"} /\ grabbing' = "fetch" /\ UNCHANGED <<at, outcome>>
      \/ /\ got \notin {"limited", "torrent", "empty"} /\ grabbing' = "resolve" /\ at' = at + 1
         /\ UNCHANGED outcome
  BY <1>2 DEF EndsGrab, GrabOver
<1>7. GrabLimited' /\ GrabTests'
  <2>1. /\ at' \in Nat /\ at' >= at /\ (got = "limited" => grabbing' = "over")
        /\ grabbing' \in {"fetch", "over"} \/ at' > at
    BY <1>3, <1>6
  <2> QED  BY <1>1, <1>2, <1>4, <2>1, AskedInOrder
<1>8. requests' \in Seq(SiteRequest') /\ Got' = Got \cup {got}
  BY <1>1, <1>2, <1>4, OneMore
<1>9. GrabClean' => GrabClean /\ got = target
  BY <1>4, <1>8 DEF GrabClean
<1>10. target \in {"torrent", "empty"} <=> Usable(at)
  BY <1>3, <1>5, UsableFacts
<1>11. CASE got = "limited" /\ grabbing' = "over" /\ outcome' = "failed" /\ at' = at
  <2>1. ~GrabClean'
    BY <1>5, <1>9, <1>11
  <2> QED  BY <1>1, <1>7, <1>8, <1>11, <2>1, GrabEnds
<1>12. CASE got \in {"torrent", "empty"} /\ grabbing' = "fetch" /\ UNCHANGED <<at, outcome>>
  <2>1. GrabClean' => target' = Meant
    <3>1. ASSUME GrabClean' PROVE target = Meant
      <4>1. Usable(at) /\ PassedOver
        BY <1>1, <1>9, <1>10, <1>12, <3>1, ResolveFacts
      <4> QED  BY <1>3, <4>1, FirstUsable
    <3> QED  BY <1>1, <3>1
  <2>2. target' \in Target /\ target' \notin {"nothing", "magnet"} /\ Got \subseteq Got'
    BY <1>1, <1>3, <1>8
  <2> QED  BY <1>1, <1>3, <1>7, <1>8, <1>12, <2>1, <2>2, StillResolving
<1>13. CASE /\ got \notin {"limited", "torrent", "empty"} /\ grabbing' = "resolve" /\ at' = at + 1
            /\ UNCHANGED outcome
  <2>1. GrabClean' => GrabClean /\ ~Usable(at)
    BY <1>9, <1>10, <1>13
  <2>2. target' \in Target /\ Got \subseteq Got'
    BY <1>1, <1>3, <1>8
  <2> QED  BY <1>1, <1>3, <1>7, <1>8, <1>13, <2>1, <2>2, StillResolving
<1> QED  BY <1>6, <1>11, <1>12, <1>13

LEMMA FetchTorrentStep ==
  ASSUME GrabInv, FetchTorrent
  PROVE  GrabInv'
<1>1. /\ UNCHANGED <<rule, site, keyed, start, offered, at, read, target, logged, live>>
      /\ grabbing = "fetch"
  BY DEF FetchTorrent
<1>2. PICK got \in Replies(target) :
        /\ Asks("fetch", got) /\ grabbing' = "over"
        /\ outcome' = IF NoPage(got) THEN "failed"
                      ELSE IF isBencodeTorrent(got) THEN "torrent" ELSE "unavailable"
  BY DEF FetchTorrent, GrabOver
<1>3. target \notin {"nothing", "magnet"} /\ target \in Target
  BY <1>1 DEF GrabInv, GrabTarget, DownloadsTypeOK
<1>4. got \in SiteReply /\ got \in {"fails", "limited", "wall", target} /\ "fetch" \in Purpose
  BY <1>3, ReplyFacts DEF Purpose
<1>5. target \in {"torrent", "page", "empty"}
  BY <1>3, DownloadsAssumption DEF DownloadsAssumption
<1>6. /\ requests' \in Seq(SiteRequest') /\ requests' # <<>> /\ Got' = Got \cup {got}
      /\ Last(requests') = [what |-> "fetch", at |-> at, got |-> got]
  BY <1>1, <1>2, <1>4, OneMore
<1>7. GrabLimited' /\ GrabTests'
  BY <1>1, <1>2, <1>4, RuleFacts, AskedInOrder
<1>8. GrabClean' => GrabClean /\ got = target
  BY <1>4, <1>6 DEF GrabClean
<1>9. GrabClean' => outcome' = ServedFor(Meant)
  <2>1. GrabClean => target = Meant
    BY <1>1 DEF GrabInv, GrabTarget
  <2>2. ServedFor(target) = IF target = "torrent" THEN "torrent" ELSE "unavailable"
    BY <1>5, TargetServed
  <2>3. got = target => outcome' = IF target = "torrent" THEN "torrent" ELSE "unavailable"
    BY <1>2, <1>5 DEF NoPage, isBencodeTorrent
  <2> QED  BY <1>8, <2>1, <2>2, <2>3
<1>10. outcome' = "torrent" => Last(requests').what = "fetch" /\ Last(requests').got = "torrent"
  BY <1>2, <1>6 DEF isBencodeTorrent, NoPage
<1>11. outcome' \in {"torrent", "unavailable", "failed"}
  BY <1>2
<1> QED  BY <1>1, <1>2, <1>6, <1>7, <1>9, <1>10, <1>11, GrabEnds

-----------------------------------------------------------------------------
LEMMA GrabStep ==
  ASSUME GrabInv, [DownloadsNext]_downloadsVars
  PROVE  GrabInv'
<1> USE DEF DownloadsNext
<1>1. CASE SealLink
  BY <1>1, SealLinkStep
<1>2. CASE Redeem
  BY <1>2, RedeemStep
<1>3. CASE GrabRefused
  BY <1>3, GrabRefusedStep
<1>4. CASE SessionEnsured
  BY <1>4, SessionEnsuredStep
<1>5. CASE ReadBeforePage \/ FetchBefore
  BY <1>5, BeforeSteps
<1>6. CASE KeepLink
  BY <1>6, KeepLinkStep
<1>7. CASE ResolveInfoHash
  BY <1>7, ResolveInfoHashStep, DownloadsAssumption DEF DownloadsAssumption
<1>8. CASE TrySelector
  BY <1>8, TrySelectorStep
<1>9. CASE NoSelectorMatched
  BY <1>9, NoSelectorMatchedStep
<1>10. CASE passesTorrentTest
  BY <1>10, TorrentTestStep
<1>11. CASE FetchTorrent
  BY <1>11, FetchTorrentStep
<1>12. CASE SessionLapses
  <2>1. UNCHANGED <<rule, site, keyed, start, offered, grabVars>> /\ logged' \in BOOLEAN
    BY <1>12 DEF SessionLapses, GrabInv, DownloadsTypeOK
  <2>2. live' = FALSE
    BY <1>12 DEF SessionLapses
  <2> QED  BY <2>1, <2>2, GrabUntouched
<1>13. CASE DaemonStarts
  BY <1>13, DaemonStartsStep
<1>14. CASE UNCHANGED downloadsVars
  <2>1. UNCHANGED <<rule, site, keyed, start, offered, grabVars>>
        /\ logged' \in BOOLEAN /\ live' \in BOOLEAN
    BY <1>14 DEF downloadsVars, GrabInv, DownloadsTypeOK
  <2> QED  BY <2>1, GrabUntouched
<1> QED
  BY <1>1, <1>2, <1>3, <1>4, <1>5, <1>6, <1>7, <1>8, <1>9, <1>10, <1>11, <1>12, <1>13, <1>14

LEMMA GrabAlways == DownloadsSpec => []GrabInv
<1>1. DownloadsInit => GrabInv
  BY GrabInitially
<1>2. GrabInv /\ [DownloadsNext]_downloadsVars => GrabInv'
  BY GrabStep
<1> QED  BY <1>1, <1>2, PTL DEF DownloadsSpec

(* The state of a grab has its types, for any definitions.                  *)
THEOREM DownloadsTypeCorrect == DownloadsSpec => []DownloadsTypeOK
<1>1. GrabInv => DownloadsTypeOK
  BY DEF GrabInv
<1> QED  BY <1>1, GrabAlways, PTL

(* A grab that meets no failure and no lost session brings what the author   *)
(* of the definition meant (search/grab.go, search/download.go); what is     *)
(* served as a torrent is one; a refusal for the rate is the last request;   *)
(* no target is tested twice; a token of another indexer or key reaches no   *)
(* tracker.  For any definitions, any number of selectors and any targets.   *)
THEOREM GrabsAreFaithful == DownloadsSpec => []GrabIsFaithful
<1>1. ASSUME GrabInv PROVE GrabIsFaithful
  <2>1. /\ grabbing = "over" /\ outcome \notin {"refused", "invalid"}
        /\ Got \cap {"fails", "limited", "wall"} = {}
        => outcome = ServedFor(Meant)
    BY <1>1 DEF GrabInv, GrabResult, GrabClean
  <2>2. outcome = "torrent" => Last(requests).what = "fetch" /\ Last(requests).got = "torrent"
    BY <1>1 DEF GrabInv, GrabResult
  <2>3. \A i \in DOMAIN requests : requests[i].got = "limited" => i = Len(requests)
    BY <1>1 DEF GrabInv, GrabLimited
  <2>4. \A i, j \in DOMAIN requests :
          requests[i].what = "test" /\ requests[j].what = "test" /\ i # j
            => requests[i].at # requests[j].at
    BY <1>1 DEF GrabInv, GrabTests
  <2>5. requests # <<>> => offered.key = tokenKey
    BY <1>1 DEF GrabInv, GrabPhase
  <2> QED  BY <2>1, <2>2, <2>3, <2>4, <2>5 DEF GrabIsFaithful
<1> QED  BY <1>1, GrabAlways, PTL

-----------------------------------------------------------------------------
(***************************************************************************)
(* Feeds, for any members, catalogs and pages: a feed read to the end its    *)
(* totals tell of has listed every wanted release, and an aggregate answer   *)
(* accounts for every release its members contributed.                       *)
(***************************************************************************)

Release == [guid : Guid \cup Nat, cat : {"movie", "tv", ""}, date : 0 .. LastDate]
SlotState == [pc : {"idle", "running", "done"}, releases : Seq(Release), reason : {"", "error"}]
Entry == [member : Member, at : Nat, release : Release]
FeedPage(k) == [offset |-> (k - 1) * paging.limit, limit |-> paging.limit]

(* The answers a consumer can have been given.                              *)
OneAnswer == [page : Seq(Release), total : Nat]
AllAnswer == [page : Seq(Entry), total : Nat,
              ledger : [Member -> [reason : {"", "error"} \cup Skips, count : Nat]],
              slots : [Member -> SlotState]]

FeedsShape ==
  /\ slug \in {"one", "all"} /\ deep \in [Member -> BOOLEAN]
  /\ catalog \in [Member -> Seq(Release)]
  /\ resolved \in [Member -> {""} \cup Skips]
  /\ paging \in [offset : Nat, limit : 1 .. LimitsMax]
  /\ slots \in [Member -> SlotState]
  /\ replies \in Seq(IF slug = "one" THEN OneAnswer ELSE AllAnswer)

PagedOk == paging.offset = Len(replies) * paging.limit
SlotsOk == Cardinality(Running) <= FanoutLimit /\ \A m \in Member : ~Live(m) => slots[m] = EmptySlot

(* A feed of one member answers each page from the same catalog.            *)
OneOk ==
  slug = "one" =>
    /\ \A i, j \in DOMAIN catalog[1] :
         catalog[1][i].guid = catalog[1][j].guid => catalog[1][i] = catalog[1][j]
    /\ \A k \in DOMAIN replies : replies[k] = SearchReleases(1, FeedPage(k))

FeedsInv == FeedsShape /\ PagedOk /\ SlotsOk /\ OneOk /\ LedgerAccounts

-----------------------------------------------------------------------------
LEMMA LesserOfTwo ==
  ASSUME NEW a \in Int, NEW b \in Int
  PROVE  Min({a, b}) = IF a <= b THEN a ELSE b
BY DEF Min

LEMMA WindowFacts ==
  ASSUME NEW E, NEW s \in Seq(E), NEW pg, pg.offset \in Nat, pg.limit \in Nat
  PROVE  /\ window(pg, s) \in Seq(E)
         /\ Len(window(pg, s)) = IF pg.offset + pg.limit <= Len(s) THEN pg.limit
                                 ELSE IF pg.offset <= Len(s) THEN Len(s) - pg.offset ELSE 0
         /\ \A i \in 1 .. Len(window(pg, s)) :
              pg.offset + i \in 1 .. Len(s) /\ window(pg, s)[i] = s[pg.offset + i]
<1> DEFINE a == pg.offset
           b == pg.offset + pg.limit
           hi == IF b <= Len(s) THEN b ELSE Len(s)
<1>1. Len(s) \in Nat /\ a \in Nat /\ b \in Nat /\ a <= b
  OBVIOUS
<1>2. window(pg, s) = SubSeq(s, a + 1, hi)
  <2>1. Min({b, Len(s)}) = hi
    BY <1>1, LesserOfTwo
  <2> QED BY <2>1 DEF window
<1>3. hi \in Nat /\ hi <= Len(s)
  BY <1>1
<1>4. /\ SubSeq(s, a + 1, hi) \in Seq(E)
      /\ Len(SubSeq(s, a + 1, hi)) = IF a + 1 <= hi THEN hi - a ELSE 0
      /\ \A i \in 1 .. hi - a : SubSeq(s, a + 1, hi)[i] = s[a + i]
  <2> HIDE DEF a, hi
  <2>1. \A i \in a + 1 .. hi : i \in 1 .. Len(s)
    BY <1>1, <1>3
  <2> QED BY <1>1, <1>3, <2>1, SubSeqProperties
<1>5. (b <= Len(s) => pg.limit = hi - a) /\ (hi < a => b > Len(s) /\ a > Len(s))
  BY <1>1
<1>6. Len(window(pg, s)) = IF b <= Len(s) THEN pg.limit ELSE IF a <= Len(s) THEN Len(s) - a ELSE 0
  <2> HIDE DEF a, b
  <2>1. Len(window(pg, s)) = IF a + 1 <= hi THEN hi - a ELSE 0
    BY <1>2, <1>4
  <2> QED BY <1>1, <1>3, <1>5, <2>1
<1>7. ASSUME NEW i \in 1 .. Len(window(pg, s))
      PROVE  a + i \in 1 .. Len(s) /\ window(pg, s)[i] = s[a + i]
  <2>1. i \in 1 .. hi - a
    BY <1>1, <1>2, <1>3, <1>4
  <2>2. a + i \in 1 .. Len(s)
    <3> HIDE DEF a, hi
    <3> QED BY <1>1, <1>3, <2>1
  <2> QED BY <1>2, <1>4, <2>1, <2>2
<1> QED BY <1>2, <1>4, <1>6, <1>7

LEMMA WindowIncreasing ==
  ASSUME NEW E, NEW s \in Seq(E), NEW pg, pg.offset \in Nat, pg.limit \in Nat, NEW R, Increasing(s, R)
  PROVE  Increasing(window(pg, s), R)
<1> DEFINE w == window(pg, s)
           a == pg.offset
<1>1. /\ w \in Seq(E) /\ a \in Nat
      /\ \A i \in 1 .. Len(w) : a + i \in 1 .. Len(s) /\ w[i] = s[a + i]
  BY WindowFacts
<1> HIDE DEF w, a
<1>2. DOMAIN w = 1 .. Len(w) /\ DOMAIN s = 1 .. Len(s) /\ Len(w) \in Nat
  BY <1>1
<1>3. ASSUME NEW j \in DOMAIN w, NEW k \in DOMAIN w, j < k PROVE <<w[j], w[k]>> \in R
  <2>1. a + j \in DOMAIN s /\ a + k \in DOMAIN s /\ w[j] = s[a + j] /\ w[k] = s[a + k]
    BY <1>1, <1>2
  <2>2. a + j < a + k
    BY <1>1, <1>2, <1>3
  <2> QED BY <2>1, <2>2 DEF Increasing
<1> QED BY <1>3 DEF Increasing, w

(* Every place is on one of the pages.                                      *)
LEMMA PageOfPlace ==
  ASSUME NEW lim \in Nat \ {0}, NEW i \in Nat \ {0}, NEW n \in Nat, i <= n * lim
  PROVE  \E k \in 1 .. n : (k - 1) * lim < i /\ i <= (k - 1) * lim + lim
<1> DEFINE C == {k \in Nat : i <= k * lim}
<1>1. PICK k \in C : \A j \in C : k <= j
  <2>1. C \in SUBSET Nat /\ n \in C
    OBVIOUS
  <2> HIDE DEF C
  <2> QED BY <2>1, SizeOrder
<1>2. k # 0
  <2>1. 0 * lim = 0
    OBVIOUS
  <2> QED BY <1>1, <2>1
<1>3. k \in 1 .. n /\ k - 1 \in Nat /\ k - 1 \notin C
  <2>1. n \in C
    OBVIOUS
  <2>2. k \in Nat /\ k <= n
    BY <1>1, <2>1
  <2>3. k \in 1 .. n /\ k - 1 \in Nat /\ ~(k <= k - 1)
    BY <1>2, <2>2
  <2> HIDE DEF C
  <2> QED BY <1>1, <2>3
<1>4. k * lim = (k - 1) * lim + lim /\ (k - 1) * lim \in Nat
  BY <1>3
<1> QED BY <1>1, <1>3, <1>4

-----------------------------------------------------------------------------
(* Releases with different guids.                                           *)
Distinct == {x \in Release \X Release : x[1].guid # x[2].guid}
GuidsOf(S) == {r.guid : r \in S}
GuidTells(s) == \A i, j \in DOMAIN s : s[i].guid = s[j].guid => s[i] = s[j]

LEMMA DedupeFacts ==
  ASSUME NEW s \in Seq(Release)
  PROVE  /\ dedupeByGUID(s) \in Seq(Release) /\ Len(dedupeByGUID(s)) <= Len(s)
         /\ Increasing(dedupeByGUID(s), Distinct)
         /\ ToSet(dedupeByGUID(s)) \subseteq ToSet(s)
         /\ GuidsOf(ToSet(dedupeByGUID(s))) = GuidsOf(ToSet(s))
<1> DEFINE First(i) == \A j \in 1 .. i - 1 : s[j].guid # s[i].guid
           S == {i \in DOMAIN s : First(i)}
           d == Picked(s, S)
<1>1. dedupeByGUID(s) = d
  BY DEF dedupeByGUID
<1>2. DOMAIN s = 1 .. Len(s) /\ Len(s) \in Nat /\ \A i \in DOMAIN s : s[i] \in Release
  OBVIOUS
<1>3. S \subseteq DOMAIN s
  OBVIOUS
<1> DEFINE o == Ordered(S)
           n == Cardinality(S)
<1> HIDE DEF S
<1>4. /\ d \in Seq(Release) /\ Len(d) = n /\ n \in Nat /\ n <= Len(s)
      /\ DOMAIN d = 1 .. n
      /\ \A k \in 1 .. n : o[k] \in S /\ d[k] = s[o[k]]
      /\ \A j, k \in 1 .. n : j < k => o[j] < o[k]
      /\ ToSet(d) = {s[i] : i \in S}
  BY <1>3, PickedFacts
<1> HIDE DEF d, n, o
<1>5. ASSUME NEW j \in 1 .. n, NEW k \in 1 .. n, j < k PROVE <<d[j], d[k]>> \in Distinct
  <2>1. o[j] \in S /\ o[k] \in S /\ o[j] < o[k] /\ d[j] = s[o[j]] /\ d[k] = s[o[k]]
    BY <1>4, <1>5
  <2>2. First(o[k]) /\ o[j] \in 1 .. o[k] - 1
    BY <1>2, <2>1 DEF S
  <2>3. s[o[j]] \in Release /\ s[o[k]] \in Release /\ s[o[j]].guid # s[o[k]].guid
    BY <1>2, <1>3, <2>1, <2>2
  <2> QED BY <2>1, <2>3 DEF Distinct
<1>6. ASSUME NEW i \in DOMAIN s PROVE \E h \in S : s[h].guid = s[i].guid
  <2> DEFINE C == {h \in DOMAIN s : s[h].guid = s[i].guid}
  <2>1. PICK h \in C : \A j \in C : h <= j
    <3>1. C \in SUBSET Nat /\ i \in C
      BY <1>2
    <3> HIDE DEF C
    <3> QED BY <3>1, SizeOrder
  <2>2. First(h)
    <3>1. ASSUME NEW j \in 1 .. h - 1 PROVE s[j].guid # s[h].guid
      <4>1. j \in DOMAIN s /\ ~(h <= j)
        BY <1>2, <2>1
      <4> QED BY <2>1, <4>1
    <3> QED BY <3>1
  <2> QED BY <2>1, <2>2 DEF S
<1>7. ToSet(d) \subseteq ToSet(s)
  BY <1>3, <1>4 DEF ToSet
<1>8. ToSet(s) = {s[i] : i \in DOMAIN s}
  BY DEF ToSet
<1>9. GuidsOf(ToSet(d)) = GuidsOf(ToSet(s))
  <2>1. ASSUME NEW i \in DOMAIN s PROVE \E r \in ToSet(d) : r.guid = s[i].guid
    BY <1>4, <1>6
  <2> QED BY <1>7, <1>8, <2>1 DEF GuidsOf
<1>10. Increasing(d, Distinct)
  BY <1>4, <1>5 DEF Increasing
<1> QED BY <1>1, <1>4, <1>7, <1>9, <1>10

LEMMA FilterFacts ==
  ASSUME NEW s \in Seq(Release)
  PROVE  /\ filterResults(s) \in Seq(Release) /\ Len(filterResults(s)) <= Len(s)
         /\ ToSet(filterResults(s)) = {r \in ToSet(s) : Wants(r)}
         /\ \A R : Increasing(s, R) => Increasing(filterResults(s), R)
<1> DEFINE S == {i \in DOMAIN s : Wants(s[i])}
           d == Picked(s, S)
<1>1. filterResults(s) = d
  BY DEF filterResults
<1>2. S \subseteq DOMAIN s
  OBVIOUS
<1>3. {s[i] : i \in S} = {r \in ToSet(s) : Wants(r)}
  BY DEF ToSet
<1> HIDE DEF S
<1>4. d \in Seq(Release) /\ Len(d) <= Len(s) /\ ToSet(d) = {s[i] : i \in S}
  BY <1>2, PickedFacts
<1>5. ASSUME NEW R, Increasing(s, R) PROVE Increasing(d, R)
  BY <1>2, <1>5, PickedIncreasing
<1> QED BY <1>1, <1>3, <1>4, <1>5

(* What is left of an answer: each guid it has that is wanted, once.        *)
Listed(s) == filterResults(dedupeByGUID(s))

LEMMA ListedFacts ==
  ASSUME NEW s \in Seq(Release)
  PROVE  /\ Listed(s) \in Seq(Release) /\ Len(Listed(s)) <= Len(s)
         /\ Increasing(Listed(s), Distinct)
         /\ GuidTells(s) => GuidsOf(ToSet(Listed(s))) = GuidsOf({r \in ToSet(s) : Wants(r)})
<1> DEFINE d == dedupeByGUID(s)
           f == filterResults(d)
<1>1. /\ d \in Seq(Release) /\ Len(d) <= Len(s) /\ Increasing(d, Distinct)
      /\ ToSet(d) \subseteq ToSet(s) /\ GuidsOf(ToSet(d)) = GuidsOf(ToSet(s))
  BY DedupeFacts
<1> HIDE DEF d
<1>2. /\ f \in Seq(Release) /\ Len(f) <= Len(d)
      /\ ToSet(f) = {r \in ToSet(d) : Wants(r)} /\ Increasing(f, Distinct)
  BY <1>1, FilterFacts
<1>3. Listed(s) = f
  BY DEF Listed, d
<1> HIDE DEF f
<1>4. Len(f) <= Len(s)
  <2>1. Len(f) \in Nat /\ Len(d) \in Nat /\ Len(s) \in Nat
    BY <1>1, <1>2
  <2> QED BY <1>1, <1>2, <2>1
<1>5. ASSUME GuidTells(s) PROVE GuidsOf(ToSet(f)) = GuidsOf({r \in ToSet(s) : Wants(r)})
  <2>1. ASSUME NEW q \in ToSet(s), NEW r \in ToSet(s), q.guid = r.guid PROVE q = r
    BY <1>5, <2>1 DEF GuidTells, ToSet
  <2>2. ASSUME NEW r \in ToSet(s), Wants(r) PROVE r.guid \in GuidsOf(ToSet(f))
    <3>1. PICK q \in ToSet(d) : q.guid = r.guid
      <4>1. r.guid \in GuidsOf(ToSet(s))
        BY <2>2 DEF GuidsOf
      <4>2. r.guid \in GuidsOf(ToSet(d))
        BY <1>1, <4>1
      <4> QED BY <4>2 DEF GuidsOf
    <3>2. q = r
      BY <1>1, <2>1, <3>1
    <3> QED BY <1>2, <2>2, <3>1, <3>2 DEF GuidsOf
  <2>3. ASSUME NEW r \in ToSet(f) PROVE r \in ToSet(s) /\ Wants(r)
    BY <1>1, <1>2
  <2>4. GuidsOf(ToSet(f)) \subseteq GuidsOf({r \in ToSet(s) : Wants(r)})
    BY <2>3 DEF GuidsOf
  <2>5. GuidsOf({r \in ToSet(s) : Wants(r)}) \subseteq GuidsOf(ToSet(f))
    <3> SUFFICES ASSUME NEW g \in GuidsOf({r \in ToSet(s) : Wants(r)}) PROVE g \in GuidsOf(ToSet(f))
      OBVIOUS
    <3>1. PICK r \in ToSet(s) : Wants(r) /\ g = r.guid
      BY DEF GuidsOf
    <3> QED BY <2>2, <3>1
  <2> QED BY <2>4, <2>5
<1> QED BY <1>2, <1>3, <1>4, <1>5

LEMMA WindowSet ==
  ASSUME NEW E, NEW s \in Seq(E), NEW pg, pg.offset \in Nat, pg.limit \in Nat
  PROVE  /\ ToSet(window(pg, s)) \subseteq ToSet(s)
         /\ \A j \in 1 .. Len(s) :
              pg.offset < j /\ j <= pg.offset + pg.limit =>
                /\ j - pg.offset \in 1 .. Len(window(pg, s))
                /\ window(pg, s)[j - pg.offset] = s[j] /\ s[j] \in ToSet(window(pg, s))
<1> DEFINE w == window(pg, s)
           a == pg.offset
           l == pg.limit
<1>1. /\ w \in Seq(E) /\ a \in Nat /\ l \in Nat /\ Len(s) \in Nat
      /\ Len(w) = IF a + l <= Len(s) THEN l ELSE IF a <= Len(s) THEN Len(s) - a ELSE 0
      /\ \A i \in 1 .. Len(w) : a + i \in 1 .. Len(s) /\ w[i] = s[a + i]
  BY WindowFacts
<1> HIDE DEF w, a, l
<1>2. DOMAIN w = 1 .. Len(w) /\ DOMAIN s = 1 .. Len(s) /\ Len(w) \in Nat
  BY <1>1
<1>3. ToSet(w) \subseteq ToSet(s)
  BY <1>1, <1>2 DEF ToSet
<1>4. ASSUME NEW j \in 1 .. Len(s), a < j, j <= a + l
      PROVE  j - a \in 1 .. Len(w) /\ w[j - a] = s[j] /\ s[j] \in ToSet(w)
  <2>1. j - a \in 1 .. Len(w)
    <3>1. CASE a + l <= Len(s)
      BY <1>1, <1>4, <3>1
    <3>2. CASE a + l > Len(s)
      BY <1>1, <1>4, <3>2
    <3> QED BY <1>1, <3>1, <3>2
  <2>2. a + (j - a) = j
    BY <1>1, <1>4
  <2>3. w[j - a] = s[j]
    BY <1>1, <2>1, <2>2
  <2> QED BY <1>2, <2>1, <2>3 DEF ToSet
<1> QED BY <1>3, <1>4 DEF w, a, l

(* A window as wide as a sequence holds all of it.                          *)
LEMMA WholeWindow ==
  ASSUME NEW E, NEW s \in Seq(E), NEW pg, pg.offset = 0, pg.limit \in Nat, Len(s) <= pg.limit
  PROVE  Len(window(pg, s)) = Len(s) /\ ToSet(window(pg, s)) = ToSet(s)
<1>1. pg.offset \in Nat /\ Len(s) \in Nat /\ DOMAIN s = 1 .. Len(s)
  OBVIOUS
<1>2. Len(window(pg, s)) = Len(s)
  BY <1>1, WindowFacts
<1>3. \A j \in 1 .. Len(s) : s[j] \in ToSet(window(pg, s))
  BY <1>1, WindowSet
<1>4. ToSet(window(pg, s)) \subseteq ToSet(s)
  BY <1>1, WindowSet
<1> QED BY <1>1, <1>2, <1>3, <1>4 DEF ToSet

-----------------------------------------------------------------------------
(* What a tracker's feed answers: a page of the listed releases, or the      *)
(* listed releases of a page.                                               *)
LEMMA ShallowAnswer ==
  ASSUME FeedsShape, NEW m \in Member, ~deep[m], NEW pg, pg.offset \in Nat, pg.limit \in Nat
  PROVE  /\ SearchReleases(m, pg).page = window(pg, Listed(catalog[m]))
         /\ SearchReleases(m, pg).total = Len(Listed(catalog[m]))
         /\ SearchReleases(m, pg) \in OneAnswer
         /\ Increasing(SearchReleases(m, pg).page, Distinct)
<1> DEFINE s == Listed(catalog[m])
<1>1. s \in Seq(Release) /\ Increasing(s, Distinct)
  <2>1. catalog[m] \in Seq(Release)
    BY DEF FeedsShape
  <2> QED BY <2>1, ListedFacts
<1>2. SearchReleases(m, pg) = [page |-> window(pg, s), total |-> Len(s)]
  BY DEF SearchReleases, Searched, localPageResult, Listed
<1> HIDE DEF s
<1>3. window(pg, s) \in Seq(Release) /\ Len(s) \in Nat /\ Increasing(window(pg, s), Distinct)
  BY <1>1, WindowFacts, WindowIncreasing
<1> QED BY <1>2, <1>3 DEF OneAnswer, s

LEMMA DeepAnswer ==
  ASSUME FeedsShape, NEW m \in Member, deep[m], NEW pg \in [offset : Nat, limit : Nat]
  PROVE  LET raw == window(pg, catalog[m])
         IN  /\ raw \in Seq(Release)
             /\ ToSet(SearchReleases(m, pg).page) = ToSet(Listed(raw))
             /\ SearchReleases(m, pg).total =
                  IF Len(raw) >= pg.limit THEN pg.offset + pg.limit + 1
                  ELSE pg.offset + Len(SearchReleases(m, pg).page)
             /\ SearchReleases(m, pg) \in OneAnswer
             /\ Increasing(SearchReleases(m, pg).page, Distinct)
<1> DEFINE raw == window(pg, catalog[m])
           s == Listed(raw)
           first == [pg EXCEPT !.offset = 0]
           page == window(first, s)
<1>1. /\ pg.offset \in Nat /\ pg.limit \in Nat
      /\ first.offset = 0 /\ first.limit = pg.limit
  OBVIOUS
<1>2. raw \in Seq(Release) /\ Len(raw) <= pg.limit
  <2>1. catalog[m] \in Seq(Release)
    BY DEF FeedsShape
  <2>2. Len(catalog[m]) \in Nat
    BY <2>1
  <2>3. /\ raw \in Seq(Release)
        /\ Len(raw) = IF pg.offset + pg.limit <= Len(catalog[m]) THEN pg.limit
                      ELSE IF pg.offset <= Len(catalog[m]) THEN Len(catalog[m]) - pg.offset ELSE 0
    BY <1>1, <2>1, WindowFacts
  <2> HIDE DEF raw
  <2> QED BY <1>1, <2>2, <2>3
<1>3. SearchReleases(m, pg) =
        [page |-> page, total |-> IF Len(raw) >= pg.limit THEN pg.offset + pg.limit + 1
                                  ELSE pg.offset + Len(page)]
  BY DEF SearchReleases, Searched, pagedResult, FullTotal, Listed
<1> HIDE DEF raw, first
<1>4. s \in Seq(Release) /\ Increasing(s, Distinct) /\ Len(s) <= pg.limit
  <2>1. s \in Seq(Release) /\ Increasing(s, Distinct) /\ Len(s) <= Len(raw)
    BY <1>2, ListedFacts
  <2> HIDE DEF s
  <2>2. Len(s) \in Nat /\ Len(raw) \in Nat
    BY <1>2, <2>1
  <2> QED BY <1>1, <1>2, <2>1, <2>2
<1> HIDE DEF s
<1>5. /\ page \in Seq(Release) /\ Increasing(page, Distinct)
      /\ ToSet(page) = ToSet(s)
  BY <1>1, <1>4, WindowFacts, WindowIncreasing, WholeWindow
<1> HIDE DEF page
<1>6. Len(page) \in Nat /\ Len(raw) \in Nat
  BY <1>2, <1>5
<1>7. SearchReleases(m, pg) \in OneAnswer
  <2>1. (IF Len(raw) >= pg.limit THEN pg.offset + pg.limit + 1 ELSE pg.offset + Len(page)) \in Nat
    BY <1>1, <1>6
  <2> QED BY <1>3, <1>5, <2>1 DEF OneAnswer
<1>8. /\ SearchReleases(m, pg).page = page
      /\ SearchReleases(m, pg).total = IF Len(raw) >= pg.limit THEN pg.offset + pg.limit + 1
                                  ELSE pg.offset + Len(page)
  BY <1>3
<1> QED BY <1>2, <1>5, <1>7, <1>8 DEF raw, s

LEMMA AnswerTyped ==
  ASSUME FeedsShape, NEW m \in Member, NEW pg \in [offset : Nat, limit : Nat]
  PROVE  SearchReleases(m, pg) \in OneAnswer /\ Increasing(SearchReleases(m, pg).page, Distinct)
<1>1. pg.offset \in Nat /\ pg.limit \in Nat
  OBVIOUS
<1>2. CASE deep[m]
  BY <1>2, DeepAnswer
<1>3. CASE ~deep[m]
  BY <1>1, <1>3, ShallowAnswer
<1> QED BY <1>2, <1>3

(* An answer accounts for itself on the places from + 1 .. to.              *)
AccountsFor(reply, from, to) ==
  LET covered == {x \in Contributed(reply) : Place(reply, x) \in from + 1 .. to}
  IN  /\ SumOver([m \in Member |-> reply.ledger[m].count], Member) = reply.total
      /\ reply.total = Cardinality(Contributed(reply))
      /\ \A m \in Member :
           /\ ~Live(m) => reply.ledger[m].reason = resolved[m]
           /\ Live(m) => (reply.ledger[m].reason = "" <=> reply.slots[m].reason = "")
      /\ Len(reply.page) = Cardinality(covered)
      /\ \A x \in covered : LET r == reply.page[Place(reply, x) - from]
                            IN  <<r.member, r.at>> = x

LEMMA FoldOfCounts == \A f, S : FoldFunctionOnSet(+, 0, f, S) = SumOver(f, S)
BY DEF FoldFunctionOnSet, MapThenFoldSet, SumOver, Partial, Summed, Pick

LEMMA AccountsIs ==
  \A k : AnswerAccounts(k) <=> AccountsFor(replies[k], (k - 1) * paging.limit, k * paging.limit)
<1> SUFFICES ASSUME NEW k
             PROVE AnswerAccounts(k) <=> AccountsFor(replies[k], (k - 1) * paging.limit, k * paging.limit)
  OBVIOUS
<1> DEFINE f == [m \in Member |-> replies[k].ledger[m].count]
<1>1. FoldFunction(+, 0, f) = SumOver(f, Member)
  <2>1. DOMAIN f = Member
    OBVIOUS
  <2> HIDE DEF f
  <2> QED BY <2>1, FoldOfCounts DEF FoldFunction
<1> QED BY <1>1 DEF AnswerAccounts, AccountsFor, f

LEMMA AccountsIsNext ==
  (\A k : AnswerAccounts(k) <=> AccountsFor(replies[k], (k - 1) * paging.limit, k * paging.limit))'
BY AccountsIs, PTL

LEMMA AccountsKept ==
  ASSUME UNCHANGED resolved, NEW reply, NEW from, NEW to
  PROVE  AccountsFor(reply, from, to)' = AccountsFor(reply, from, to)
BY DEF AccountsFor, Live, Contributed, Place

LEMMA LedgerKept ==
  ASSUME LedgerAccounts, UNCHANGED <<slug, replies, paging, resolved>>
  PROVE  LedgerAccounts'
<1>1. ASSUME NEW k PROVE AnswerAccounts(k)' <=> AnswerAccounts(k)
  <2>1. PICK r, l : replies[k] = r /\ paging.limit = l
    OBVIOUS
  <2>2. AnswerAccounts(k) <=> AccountsFor(r, (k - 1) * l, k * l)
    BY <2>1, AccountsIs
  <2>3. replies'[k] = r /\ paging'.limit = l
    BY <2>1
  <2>4. AnswerAccounts(k)' <=> AccountsFor(r, (k - 1) * l, k * l)'
    BY <2>3, AccountsIsNext
  <2> QED BY <2>2, <2>4, AccountsKept
<1> QED BY <1>1 DEF LedgerAccounts

LEMMA SearchKept ==
  ASSUME UNCHANGED <<deep, catalog, wanted>>, NEW m, NEW pg
  PROVE  SearchReleases(m, pg)' = SearchReleases(m, pg)
BY DEF SearchReleases, Searched, filterResults, Wants

LEMMA OneKept ==
  ASSUME OneOk, UNCHANGED <<slug, deep, catalog, wanted, replies, paging>>
  PROVE  OneOk'
<1>1. \A k : SearchReleases(1, FeedPage(k))' = SearchReleases(1, FeedPage(k))
  BY SearchKept DEF FeedPage, SearchReleases, Searched, filterResults, Wants
<1> QED BY <1>1 DEF OneOk

LEMMA FeedsStart == FeedsInit => FeedsInv
<1> SUFFICES ASSUME FeedsInit PROVE FeedsInv
  OBVIOUS
<1>1. /\ Members \in Nat \ {0} /\ LimitsMax \in Nat \ {0} /\ FanoutLimit \in Nat \ {0}
      /\ LastDate \in Nat /\ MaxReleases \in Nat
  BY FeedsAssumption DEF FeedsAssumption
<1>10. 0 \in 0 .. LastDate
  BY <1>1
<1>2. slug \in {"one", "all"} /\ deep \in [Member -> BOOLEAN] /\ replies = <<>>
  BY DEF FeedsInit
<1>3. PICK limit \in 1 .. LimitsMax : paging = [offset |-> 0, limit |-> limit]
  BY DEF FeedsInit
<1>4. slots = [m \in Member |-> EmptySlot] /\ EmptySlot \in SlotState
  <2>1. <<>> \in Seq(Release)
    OBVIOUS
  <2>2. EmptySlot \in SlotState
    BY <2>1 DEF EmptySlot, SlotState
  <2> QED BY <2>2 DEF FeedsInit
<1>5. /\ catalog \in [Member -> Seq(Release)] /\ resolved \in [Member -> {""} \cup Skips]
      /\ slug = "one" => GuidTells(catalog[1])
  <2>1. CASE slug = "one"
    <3>1. PICK found \in BoundedSeq(Releases, MaxReleases) :
             /\ GuidTells(found)
             /\ catalog = [m \in Member |-> IF m = 1 THEN found ELSE <<>>]
      BY <2>1 DEF FeedsInit, GuidTells
    <3>2. Releases \subseteq Release
      <4> SUFFICES ASSUME NEW r \in Releases PROVE r \in Release
        OBVIOUS
      <4>1. PICK g \in Guid, c \in {"movie", "tv", ""} : r = [guid |-> g, cat |-> c, date |-> 0]
        BY DEF Releases
      <4> QED BY <1>10, <4>1 DEF Release
    <3>3. found \in Seq(Release)
      <4>1. PICK n \in 0 .. MaxReleases : found \in [1 .. n -> Releases]
        BY <3>1 DEF BoundedSeq, SeqOf
      <4>2. found \in [1 .. n -> Release] /\ n \in Nat
        BY <1>1, <3>2, <4>1
      <4> QED BY <4>2
    <3>4. <<>> \in Seq(Release) /\ 1 \in Member
      BY <1>1 DEF Member
    <3>5. resolved = [m \in Member |-> ""]
      BY <2>1 DEF FeedsInit
    <3> QED BY <3>1, <3>3, <3>4, <3>5
  <2>2. CASE slug = "all"
    <3>1. PICK dates \in [Member -> BoundedSeq(0 .. LastDate, MaxReleases - 1)] :
             catalog = [m \in Member |-> Dated(dates[m])]
      BY <2>2 DEF FeedsInit
    <3>2. ASSUME NEW m \in Member PROVE Dated(dates[m]) \in Seq(Release)
      <4>1. PICK n \in 0 .. MaxReleases - 1 : dates[m] \in [1 .. n -> 0 .. LastDate]
        BY <3>1 DEF BoundedSeq, SeqOf
      <4>2. n \in Nat
        BY <1>1
      <4>3. Dated(dates[m]) \in [1 .. n -> Release]
        BY <4>1, <4>2 DEF Dated, Release
      <4> QED BY <4>2, <4>3
    <3>3. resolved \in [Member -> {"", "disabled"}]
      BY <2>2 DEF FeedsInit
    <3>4. resolved \in [Member -> {""} \cup Skips]
      BY <3>3 DEF Skips
    <3> QED BY <2>2, <3>1, <3>2, <3>4
  <2> QED BY <1>2, <2>1, <2>2
<1>6. FeedsShape
  <2>1. paging \in [offset : Nat, limit : 1 .. LimitsMax]
    BY <1>3
  <2>2. replies \in Seq(IF slug = "one" THEN OneAnswer ELSE AllAnswer)
    BY <1>2
  <2> QED BY <1>2, <1>4, <1>5, <2>1, <2>2 DEF FeedsShape
<1>7. PagedOk
  <2>1. Len(replies) = 0 /\ paging.offset = 0 /\ paging.limit \in Nat
    BY <1>1, <1>2, <1>3
  <2> QED BY <2>1 DEF PagedOk
<1>8. SlotsOk
  <2>1. Running = {}
    BY <1>4 DEF Running, EmptySlot
  <2>2. Cardinality({}) = 0
    BY FS_EmptySet
  <2>3. Cardinality(Running) <= FanoutLimit
    BY <1>1, <2>1, <2>2
  <2> QED BY <1>4, <2>3 DEF SlotsOk
<1>9. OneOk /\ LedgerAccounts
  <2>1. DOMAIN replies = {}
    BY <1>2
  <2> QED BY <1>5, <2>1 DEF OneOk, LedgerAccounts, GuidTells
<1> QED BY <1>6, <1>7, <1>8, <1>9 DEF FeedsInv

(* Changing the slot of a member that is searched.                          *)
LEMMA SlotStep ==
  ASSUME FeedsInv, NEW m \in Member, Live(m), NEW slot \in SlotState, slots' = [slots EXCEPT ![m] = slot],
         slot.pc = "running" => Cardinality(Running) < FanoutLimit,
         UNCHANGED <<askedVars, paging, replies>>
  PROVE  FeedsInv'
<1>1. FeedsShape'
  BY DEF FeedsInv, FeedsShape, askedVars, OneAnswer, AllAnswer
<1>2. PagedOk' /\ OneOk' /\ LedgerAccounts'
  BY OneKept, LedgerKept DEF FeedsInv, PagedOk, askedVars
<1>3. slots \in [Member -> SlotState] /\ Members \in Nat /\ FanoutLimit \in Nat
  BY FeedsAssumption DEF FeedsInv, FeedsShape, FeedsAssumption
<1>4. IsFiniteSet(Running) /\ Cardinality(Running) \in Nat /\ Cardinality(Running) <= FanoutLimit
  <2>1. IsFiniteSet(Member) /\ Running \subseteq Member
    BY <1>3, IntervalSize DEF Member, Running
  <2> QED BY <2>1, FS_Subset, FS_CardinalityType DEF FeedsInv, SlotsOk
<1>5. Cardinality(Running') <= FanoutLimit
  <2>1. CASE slot.pc = "running"
    <3>1. Running' \subseteq Running \cup {m}
      BY <1>3 DEF Running
    <3>2. IsFiniteSet(Running \cup {m}) /\ Cardinality(Running \cup {m}) <= Cardinality(Running) + 1
      <4> DEFINE n == Cardinality(Running)
                 p == Cardinality(Running \cup {m})
      <4>1. IsFiniteSet(Running \cup {m}) /\ (p = n \/ p = n + 1) /\ n \in Nat
        BY <1>4, FS_AddElement
      <4> HIDE DEF n, p
      <4>2. p <= n + 1
        BY <4>1
      <4> QED BY <4>1, <4>2 DEF n, p
    <3>3. /\ Cardinality(Running') <= Cardinality(Running \cup {m})
          /\ Cardinality(Running') \in Nat /\ Cardinality(Running \cup {m}) \in Nat
      BY <3>1, <3>2, FS_Subset, FS_CardinalityType
    <3> QED BY <1>3, <1>4, <2>1, <3>2, <3>3
  <2>2. CASE slot.pc # "running"
    <3>1. Running' \subseteq Running
      BY <1>3, <2>2 DEF Running
    <3>2. Cardinality(Running') <= Cardinality(Running) /\ Cardinality(Running') \in Nat
      BY <1>4, <3>1, FS_Subset, FS_CardinalityType
    <3> QED BY <1>3, <1>4, <3>2
  <2> QED BY <2>1, <2>2
<1>6. SlotsOk'
  BY <1>3, <1>5 DEF FeedsInv, SlotsOk, Live, askedVars
<1> QED BY <1>1, <1>2, <1>6 DEF FeedsInv

LEMMA StartMemberStep == ASSUME FeedsInv, NEW m \in Member, StartMember(m) PROVE FeedsInv'
<1> DEFINE slot == [slots[m] EXCEPT !.pc = "running"]
<1>1. slots \in [Member -> SlotState] /\ slots[m] \in SlotState
  BY DEF FeedsInv, FeedsShape
<1>2. slot \in SlotState
  BY <1>1 DEF SlotState
<1>3. /\ slots' = [slots EXCEPT ![m] = slot] /\ Live(m) /\ Cardinality(Running) < FanoutLimit
      /\ UNCHANGED <<askedVars, paging, replies>>
  BY DEF StartMember
<1> HIDE DEF slot
<1> QED BY <1>2, <1>3, SlotStep

LEMMA FinishMemberStep == ASSUME FeedsInv, NEW m \in Member, FinishMember(m) PROVE FeedsInv'
<1> DEFINE a == [pc |-> "done", releases |-> SearchReleases(m, MemberPage).page, reason |-> ""]
           b == [pc |-> "done", releases |-> <<>>, reason |-> "error"]
<1>1. Live(m)
  <2>1. slots[m].pc = "running" /\ (~Live(m) => slots[m] = EmptySlot)
    BY DEF FinishMember, FeedsInv, SlotsOk
  <2>2. EmptySlot.pc # "running"
    BY DEF EmptySlot
  <2> QED BY <2>1, <2>2, Zenon
<1>2. MemberPage \in [offset : Nat, limit : Nat]
  BY FeedsAssumption DEF FeedsAssumption, MemberPage
<1>3. SearchReleases(m, MemberPage).page \in Seq(Release)
  BY <1>2, AnswerTyped DEF FeedsInv, OneAnswer
<1>4. a \in SlotState /\ b \in SlotState /\ a.pc # "running" /\ b.pc # "running"
  BY <1>3 DEF SlotState
<1>5. (slots' = [slots EXCEPT ![m] = a] \/ slots' = [slots EXCEPT ![m] = b])
      /\ UNCHANGED <<askedVars, paging, replies>>
  BY DEF FinishMember
<1> HIDE DEF a, b
<1> QED BY <1>1, <1>4, <1>5, SlotStep

-----------------------------------------------------------------------------
(* The entries of the slots, member by member and then by date.             *)
EntriesOf(m) ==
  [i \in DOMAIN slots[m].releases |-> [member |-> m, at |-> i, release |-> slots[m].releases[i]]]
BySlot == {x \in Entry \X Entry : \/ x[1].member < x[2].member
                                  \/ x[1].member = x[2].member /\ x[1].at < x[2].at}
ByDate == {x \in Entry \X Entry : \/ x[1].release.date > x[2].release.date
                                  \/ x[1].release.date = x[2].release.date /\ x \in BySlot}

LEMMA EntriesFacts ==
  ASSUME FeedsShape, NEW m \in Member
  PROVE  EntriesOf(m) \in Seq(Entry) /\ Increasing(EntriesOf(m), BySlot)
<1>1. slots[m].releases \in Seq(Release)
  BY DEF FeedsShape, SlotState
<1> DEFINE s == slots[m].releases
<1> HIDE DEF s
<1>2. s \in Seq(Release) /\ EntriesOf(m) = [i \in DOMAIN s |-> [member |-> m, at |-> i, release |-> s[i]]]
  BY <1>1 DEF EntriesOf, s
<1>3. DOMAIN s = 1 .. Len(s) /\ Len(s) \in Nat /\ \A i \in DOMAIN s : s[i] \in Release
  BY <1>2
<1>4. EntriesOf(m) \in [1 .. Len(s) -> Entry]
  BY <1>2, <1>3 DEF Entry
<1>5. EntriesOf(m) \in Seq(Entry)
  BY <1>3, <1>4
<1>6. ASSUME NEW j \in 1 .. Len(s), NEW k \in 1 .. Len(s), j < k
      PROVE  <<EntriesOf(m)[j], EntriesOf(m)[k]>> \in BySlot
  BY <1>2, <1>3, <1>4, <1>6 DEF BySlot
<1> QED BY <1>2, <1>3, <1>5, <1>6 DEF Increasing

LEMMA FlatSlots ==
  ASSUME FeedsShape
  PROVE  LET flat == FlattenSeq([m \in Member |-> EntriesOf(m)])
         IN  /\ flat \in Seq(Entry) /\ Increasing(flat, BySlot)
             /\ ToSet(flat) = UNION {ToSet(EntriesOf(m)) : m \in Member}
<1> DEFINE seqs == [m \in Member |-> EntriesOf(m)]
<1>1. Members \in Nat \ {0} /\ Member = 1 .. Members
  BY FeedsAssumption DEF FeedsAssumption, Member
<1>2. seqs \in Seq(Seq(Entry)) /\ Len(seqs) = Members /\ \A m \in Member : seqs[m] = EntriesOf(m)
  <2>1. seqs \in [1 .. Members -> Seq(Entry)]
    BY <1>1, EntriesFacts
  <2> HIDE DEF seqs
  <2>2. seqs \in Seq(Seq(Entry)) /\ Len(seqs) = Members
    BY <1>1, <2>1
  <2> QED BY <2>2 DEF seqs
<1> HIDE DEF seqs
<1>3. \A i \in 1 .. Len(seqs) : Increasing(seqs[i], BySlot)
  BY <1>1, <1>2, EntriesFacts
<1>4. ASSUME NEW i \in 1 .. Len(seqs), NEW j \in 1 .. Len(seqs), i < j,
             NEW x \in ToSet(seqs[i]), NEW y \in ToSet(seqs[j])
      PROVE  <<x, y>> \in BySlot
  <2>1. i \in Member /\ j \in Member /\ EntriesOf(i) \in Seq(Entry) /\ EntriesOf(j) \in Seq(Entry)
    BY <1>1, <1>2, EntriesFacts
  <2>2. x \in ToSet(EntriesOf(i)) /\ y \in ToSet(EntriesOf(j))
    BY <1>2, <2>1
  <2>3. x \in Entry /\ x.member = i
    BY <2>1, <2>2 DEF ToSet, EntriesOf
  <2>4. y \in Entry /\ y.member = j
    BY <2>1, <2>2 DEF ToSet, EntriesOf
  <2> QED BY <1>4, <2>3, <2>4 DEF BySlot
<1>5. /\ FlattenSeq(seqs) \in Seq(Entry) /\ Increasing(FlattenSeq(seqs), BySlot)
      /\ ToSet(FlattenSeq(seqs)) = UNION {ToSet(seqs[i]) : i \in 1 .. Len(seqs)}
  <2>1. Len(seqs) # 0
    BY <1>1, <1>2
  <2> QED BY <1>2, <1>3, <1>4, <2>1, FlattenIncreasing
<1>6. UNION {ToSet(seqs[i]) : i \in 1 .. Len(seqs)} = UNION {ToSet(EntriesOf(m)) : m \in Member}
  BY <1>1, <1>2
<1> QED BY <1>5, <1>6 DEF seqs

(* The merged feed has every entry once, the later dates first.             *)
LEMMA MergeFacts ==
  ASSUME FeedsShape
  PROVE  /\ mergeByPublishDate \in Seq(Entry) /\ Increasing(mergeByPublishDate, ByDate)
         /\ ToSet(mergeByPublishDate) = UNION {ToSet(EntriesOf(m)) : m \in Member}
<1> DEFINE flat == FlattenSeq([m \in Member |-> EntriesOf(m)])
           At(date) == {i \in DOMAIN flat : flat[i].release.date = date}
           on(date) == Picked(flat, At(date))
           seqs == [k \in 1 .. LastDate + 1 |-> on(LastDate + 1 - k)]
<1>1. mergeByPublishDate = FlattenSeq(seqs)
  BY DEF mergeByPublishDate, EntriesOf
<1>2. /\ flat \in Seq(Entry) /\ Increasing(flat, BySlot)
      /\ ToSet(flat) = UNION {ToSet(EntriesOf(m)) : m \in Member}
  BY FlatSlots
<1> HIDE DEF flat
<1>3. LastDate \in Nat
  BY FeedsAssumption DEF FeedsAssumption
<1>4. ASSUME NEW date
      PROVE  /\ on(date) \in Seq(Entry) /\ Increasing(on(date), BySlot)
             /\ ToSet(on(date)) = {e \in ToSet(flat) : e.release.date = date}
  <2>1. At(date) \subseteq DOMAIN flat
    OBVIOUS
  <2>2. {flat[i] : i \in At(date)} = {e \in ToSet(flat) : e.release.date = date}
    BY DEF ToSet
  <2> HIDE DEF At
  <2> QED BY <1>2, <2>1, <2>2, PickedFacts, PickedIncreasing
<1> HIDE DEF on
<1>5. ToSet(flat) \subseteq Entry
  BY <1>2 DEF ToSet
<1>6. ASSUME NEW date PROVE Increasing(on(date), ByDate)
  <2>1. \A j \in DOMAIN on(date) : on(date)[j] \in Entry /\ on(date)[j].release.date = date
    BY <1>4, <1>5 DEF ToSet
  <2> QED BY <1>4, <2>1 DEF Increasing, ByDate
<1>7. seqs \in Seq(Seq(Entry)) /\ Len(seqs) = LastDate + 1
      /\ \A k \in 1 .. LastDate + 1 : seqs[k] = on(LastDate + 1 - k)
  <2>1. seqs \in [1 .. LastDate + 1 -> Seq(Entry)]
    BY <1>4
  <2> HIDE DEF seqs
  <2>2. LastDate + 1 \in Nat
    BY <1>3
  <2>3. seqs \in Seq(Seq(Entry)) /\ Len(seqs) = LastDate + 1
    BY <2>1, <2>2
  <2> QED BY <2>3 DEF seqs
<1> HIDE DEF seqs
<1>8. \A i \in 1 .. Len(seqs) : Increasing(seqs[i], ByDate)
  BY <1>6, <1>7
<1>9. ASSUME NEW i \in 1 .. Len(seqs), NEW j \in 1 .. Len(seqs), i < j,
             NEW x \in ToSet(seqs[i]), NEW y \in ToSet(seqs[j])
      PROVE  <<x, y>> \in ByDate
  <2>1. x \in ToSet(on(LastDate + 1 - i)) /\ y \in ToSet(on(LastDate + 1 - j))
    BY <1>7
  <2>2. /\ x \in Entry /\ x.release.date = LastDate + 1 - i
        /\ y \in Entry /\ y.release.date = LastDate + 1 - j
    BY <1>4, <1>5, <2>1
  <2>3. LastDate + 1 - i > LastDate + 1 - j
    BY <1>3, <1>7, <1>9
  <2> QED BY <2>2, <2>3 DEF ByDate
<1>10. /\ FlattenSeq(seqs) \in Seq(Entry) /\ Increasing(FlattenSeq(seqs), ByDate)
       /\ ToSet(FlattenSeq(seqs)) = UNION {ToSet(seqs[i]) : i \in 1 .. Len(seqs)}
  <2>1. Len(seqs) # 0
    BY <1>3, <1>7
  <2> QED BY <1>7, <1>8, <1>9, <2>1, FlattenIncreasing
<1>11. UNION {ToSet(seqs[i]) : i \in 1 .. Len(seqs)} = ToSet(flat)
  <2>1. ASSUME NEW e \in ToSet(flat) PROVE \E i \in 1 .. Len(seqs) : e \in ToSet(seqs[i])
    <3>1. e.release.date \in 0 .. LastDate
      BY <1>5 DEF Entry, Release
    <3> DEFINE i == LastDate + 1 - e.release.date
    <3>2. i \in 1 .. LastDate + 1 /\ LastDate + 1 - i = e.release.date
      BY <1>3, <3>1
    <3> HIDE DEF i
    <3>3. e \in ToSet(seqs[i])
      BY <1>4, <1>7, <3>2
    <3> QED BY <1>7, <3>2, <3>3
  <2>2. ASSUME NEW i \in 1 .. Len(seqs), NEW e \in ToSet(seqs[i]) PROVE e \in ToSet(flat)
    <3>1. e \in ToSet(on(LastDate + 1 - i))
      BY <1>7
    <3> QED BY <1>4, <3>1
  <2> QED BY <2>1, <2>2
<1> QED BY <1>1, <1>2, <1>10, <1>11

(* The place of a release counts those before it.                           *)
LEMMA MergePlaces ==
  ASSUME FeedsShape, NEW reply, reply.slots = slots
  PROVE  LET n == Len(mergeByPublishDate)
             seat == [k \in 1 .. n |-> <<mergeByPublishDate[k].member, mergeByPublishDate[k].at>>]
         IN  /\ IsFiniteSet(Contributed(reply)) /\ Cardinality(Contributed(reply)) = n
             /\ n \in Nat
             /\ seat \in Seq(Contributed(reply))
             /\ \A k \in 1 .. n : Place(reply, seat[k]) = k
             /\ Contributed(reply) = {seat[k] : k \in 1 .. n}
             /\ \A j, k \in 1 .. n : seat[j] = seat[k] => j = k
<1> DEFINE s == mergeByPublishDate
           n == Len(s)
           seat == [k \in 1 .. n |-> <<s[k].member, s[k].at>>]
           C == Contributed(reply)
           date(y) == reply.slots[y[1]].releases[y[2]].date
           before(y, x) == \/ date(y) > date(x)
                           \/ /\ date(y) = date(x)
                              /\ y[1] < x[1] \/ (y[1] = x[1] /\ y[2] < x[2])
           R == {x \in C \X C : before(x[1], x[2])}
<1>1. /\ s \in Seq(Entry) /\ Increasing(s, ByDate)
      /\ ToSet(s) = UNION {ToSet(EntriesOf(m)) : m \in Member}
  BY MergeFacts
<1> HIDE DEF s
<1>2. n \in Nat /\ DOMAIN s = 1 .. n /\ \A k \in 1 .. n : s[k] \in Entry
  BY <1>1
<1>3. C = UNION {{<<m, i>> : i \in DOMAIN slots[m].releases} : m \in Member}
  BY DEF Contributed
<1>4. ASSUME NEW k \in 1 .. n
      PROVE  seat[k] \in C /\ seat[k][1] = s[k].member /\ seat[k][2] = s[k].at
             /\ date(seat[k]) = s[k].release.date
  <2>1. PICK m \in Member : s[k] \in ToSet(EntriesOf(m))
    BY <1>1, <1>2 DEF ToSet
  <2>2. PICK i \in DOMAIN slots[m].releases :
          s[k] = [member |-> m, at |-> i, release |-> slots[m].releases[i]]
    BY <2>1 DEF ToSet, EntriesOf
  <2>3. seat[k] = <<m, i>>
    BY <2>2
  <2> QED BY <1>3, <2>2, <2>3
<1>5. ASSUME NEW x \in C PROVE \E k \in 1 .. n : seat[k] = x
  <2>1. PICK m \in Member : \E i \in DOMAIN slots[m].releases : x = <<m, i>>
    BY <1>3
  <2>5. PICK i \in DOMAIN slots[m].releases : x = <<m, i>>
    BY <2>1
  <2> DEFINE e == [member |-> m, at |-> i, release |-> slots[m].releases[i]]
  <2>2. e \in ToSet(EntriesOf(m))
    <3>1. DOMAIN EntriesOf(m) = DOMAIN slots[m].releases /\ EntriesOf(m)[i] = e
      BY DEF EntriesOf
    <3> QED BY <3>1 DEF ToSet
  <2>3. PICK k \in 1 .. n : s[k] = e
    BY <1>1, <1>2, <2>2 DEF ToSet
  <2>4. seat[k] = x
    BY <2>3, <2>5
  <2> QED BY <2>4
<1>6. seat \in Seq(C) /\ Len(seat) = n /\ DOMAIN seat = 1 .. n
  <2>1. seat \in [1 .. n -> C]
    BY <1>4
  <2> HIDE DEF seat, C
  <2> QED BY <1>2, <2>1
<1>7. C \subseteq Member \X Nat
  <2>1. \A m \in Member : slots[m].releases \in Seq(Release)
    BY DEF FeedsShape, SlotState
  <2>2. \A m \in Member : DOMAIN slots[m].releases \subseteq Nat
    <3>1. \A m \in Member : DOMAIN slots[m].releases = 1 .. Len(slots[m].releases)
      BY <2>1
    <3> QED BY <3>1
  <2> QED BY <1>3, <2>2
<1>8. \A x \in C : date(x) \in 0 .. LastDate
  <2>1. \A m \in Member : slots[m].releases \in Seq(Release)
    BY DEF FeedsShape, SlotState
  <2>2. \A m \in Member : \A i \in DOMAIN slots[m].releases : slots[m].releases[i].date \in 0 .. LastDate
    <3>1. ASSUME NEW t \in Seq(Release), NEW i \in DOMAIN t PROVE t[i].date \in 0 .. LastDate
      <4>1. t[i] \in Release
        OBVIOUS
      <4> QED BY <4>1 DEF Release
    <3> QED BY <2>1, <3>1
  <2> QED BY <1>3, <2>2
<1>9. Increasing(seat, R)
  <2>1. ASSUME NEW j \in 1 .. n, NEW k \in 1 .. n, j < k PROVE <<seat[j], seat[k]>> \in R
    <3>1. <<s[j], s[k]>> \in ByDate
      BY <1>1, <1>2, <2>1 DEF Increasing
    <3>2. before(seat[j], seat[k])
      BY <1>4, <3>1 DEF ByDate, BySlot
    <3>3. seat[j] \in C /\ seat[k] \in C
      BY <1>4
    <3> HIDE DEF before, seat, C
    <3> QED BY <3>2, <3>3 DEF R
  <2> HIDE DEF seat, R
  <2> QED BY <1>6, <2>1 DEF Increasing
<1>10. \A x, y \in C : <<x, y>> \in R => <<y, x>> \notin R
  <2>1. LastDate \in Nat /\ Members \in Nat /\ Member = 1 .. Members
    BY FeedsAssumption DEF FeedsAssumption, Member
  <2>2. ASSUME NEW x \in C, NEW y \in C, before(x, y) PROVE ~before(y, x)
    <3>1. /\ date(x) \in Int /\ date(y) \in Int
          /\ x[1] \in Int /\ x[2] \in Int /\ y[1] \in Int /\ y[2] \in Int
      BY <1>7, <1>8, <2>1
    <3> HIDE DEF date
    <3> QED BY <2>2, <3>1
  <2> HIDE DEF before, C
  <2> QED BY <2>2 DEF R
<1>11. ToSet(seat) = C
  <2>1. C = {seat[k] : k \in 1 .. n}
    BY <1>4, <1>5
  <2> HIDE DEF seat, C
  <2> QED BY <1>6, <2>1 DEF ToSet
<1> HIDE DEF seat, C, before
<1>12. /\ IsFiniteSet(C) /\ Cardinality(C) = n
       /\ \A k \in 1 .. n : Cardinality(Preceding(seat, R, seat[k])) = k - 1
       /\ \A j, k \in 1 .. n : seat[j] = seat[k] => j = k
  <2> HIDE DEF R
  <2>1. /\ IsFiniteSet(ToSet(seat)) /\ Cardinality(ToSet(seat)) = Len(seat)
        /\ \A k \in DOMAIN seat : Cardinality(Preceding(seat, R, seat[k])) = k - 1
        /\ \A j, k \in DOMAIN seat : seat[j] = seat[k] => j = k
    <3>1. seat \in Seq(C)
      BY <1>6
    <3> QED BY <1>9, <1>10, <3>1, PlaceFacts
  <2> QED BY <1>6, <1>11, <2>1
<1>13. ASSUME NEW k \in 1 .. n PROVE Place(reply, seat[k]) = k
  <2>1. seat[k] \in C
    BY <1>4
  <2>2. Preceding(seat, R, seat[k]) = {y \in C : before(y, seat[k])}
    BY <1>11, <2>1 DEF Preceding
  <2>3. Place(reply, seat[k]) = 1 + Cardinality({y \in C : before(y, seat[k])})
    BY DEF Place, C, before
  <2>4. Place(reply, seat[k]) = 1 + (k - 1)
    BY <1>12, <2>2, <2>3
  <2> QED BY <1>2, <2>4
<1>14. C = {seat[k] : k \in 1 .. n}
  BY <1>4, <1>5
<1> QED BY <1>2, <1>6, <1>12, <1>13, <1>14 DEF seat, C, s

-----------------------------------------------------------------------------
LEMMA CountsAddUp ==
  ASSUME FeedsShape, SlotsOk, NEW reply, reply.slots = slots,
         \A m \in Member : reply.ledger[m] = ledgerRow(m)
  PROVE  SumOver([m \in Member |-> reply.ledger[m].count], Member) = Cardinality(Contributed(reply))
<1> DEFINE f == [m \in Member |-> reply.ledger[m].count]
           P == [m \in Member |-> {<<m, i>> : i \in DOMAIN slots[m].releases}]
<1>1. IsFiniteSet(Member)
  BY FeedsAssumption, IntervalSize DEF FeedsAssumption, Member
<1>2. ASSUME NEW m \in Member
      PROVE  IsFiniteSet(P[m]) /\ f[m] = Cardinality(P[m])
  <2> DEFINE s == slots[m].releases
             g == [i \in 1 .. Len(s) |-> <<m, i>>]
  <2>1. s \in Seq(Release) /\ slots[m] \in SlotState
    BY DEF FeedsShape, SlotState
  <2> HIDE DEF s
  <2>2. DOMAIN s = 1 .. Len(s) /\ Len(s) \in Nat
    BY <2>1
  <2>3. P[m] = {<<m, i>> : i \in 1 .. Len(s)}
    BY <2>2 DEF s
  <2>4. g \in Bijection(1 .. Len(s), P[m])
    <3>1. g \in [1 .. Len(s) -> P[m]] /\ \A i, j \in 1 .. Len(s) : g[i] = g[j] => i = j
      BY <2>3
    <3>2. \A x \in P[m] : \E i \in 1 .. Len(s) : g[i] = x
      BY <2>3
    <3> QED BY <3>1, <3>2 DEF Bijection, Injection, Surjection, IsInjective
  <2>5. IsFiniteSet(1 .. Len(s)) /\ Cardinality(1 .. Len(s)) = Len(s)
    BY <2>2, IntervalSize
  <2> HIDE DEF P, g
  <2>6. IsFiniteSet(P[m]) /\ Cardinality(P[m]) = Len(s)
    BY <2>4, <2>5, FS_Bijection DEF ExistsBijection
  <2>7. f[m] = Len(s)
    <3>1. CASE Live(m)
      <4>1. ledgerRow(m).count = Len(s)
        BY <3>1 DEF ledgerRow, Live, s
      <4> QED BY <4>1
    <3>2. CASE ~Live(m)
      <4>1. slots[m] = EmptySlot
        BY <3>2 DEF SlotsOk
      <4>2. s = <<>>
        <5>1. EmptySlot.releases = <<>>
          BY DEF EmptySlot
        <5> QED BY <4>1, <5>1 DEF s
      <4>3. ledgerRow(m).count = 0
        BY <3>2 DEF ledgerRow, Live
      <4>4. Len(s) = 0
        BY <4>2
      <4> QED BY <4>3, <4>4
    <3> QED BY <3>1, <3>2
  <2> QED BY <2>6, <2>7
<1>3. \A x, y \in Member : x # y => P[x] \cap P[y] = {}
  OBVIOUS
<1>4. UNION {P[x] : x \in Member} = Contributed(reply)
  BY DEF Contributed
<1> HIDE DEF P, f
<1>5. SumOver(f, Member) = Cardinality(Contributed(reply))
  BY <1>1, <1>2, <1>3, <1>4, SumOfSizes
<1> QED BY <1>5 DEF f

(* The page of an aggregate answer is the releases whose place it covers.    *)
LEMMA PageCovers ==
  ASSUME FeedsShape, NEW reply, reply.slots = slots,
         NEW from \in Nat, NEW lim \in Nat,
         reply.page = window([offset |-> from, limit |-> lim], mergeByPublishDate)
  PROVE  LET covered == {x \in Contributed(reply) : Place(reply, x) \in from + 1 .. from + lim}
         IN  /\ Len(reply.page) = Cardinality(covered)
             /\ \A x \in covered : LET r == reply.page[Place(reply, x) - from]
                                   IN  <<r.member, r.at>> = x
<1> DEFINE s == mergeByPublishDate
           n == Len(s)
           seat == [k \in 1 .. n |-> <<s[k].member, s[k].at>>]
           pg == [offset |-> from, limit |-> lim]
           w == window(pg, s)
           covered == {x \in Contributed(reply) : Place(reply, x) \in from + 1 .. from + lim}
           g == [i \in 1 .. Len(w) |-> seat[from + i]]
<1>1. /\ n \in Nat
      /\ \A k \in 1 .. n : seat[k] \in Contributed(reply) /\ Place(reply, seat[k]) = k
      /\ Contributed(reply) = {seat[k] : k \in 1 .. n}
      /\ \A j, k \in 1 .. n : seat[j] = seat[k] => j = k
  <2>1. /\ n \in Nat /\ \A k \in 1 .. n : Place(reply, seat[k]) = k
        /\ Contributed(reply) = {seat[k] : k \in 1 .. n}
        /\ \A j, k \in 1 .. n : seat[j] = seat[k] => j = k
    BY MergePlaces
  <2> HIDE DEF seat, n
  <2> QED BY <2>1
<1>2. s \in Seq(Entry)
  BY MergeFacts
<1> HIDE DEF s
<1>3. /\ w \in Seq(Entry)
      /\ \A i \in 1 .. Len(w) : from + i \in 1 .. n /\ w[i] = s[from + i]
      /\ Len(w) = IF from + lim <= n THEN lim ELSE IF from <= n THEN n - from ELSE 0
  BY <1>2, WindowFacts
<1>4. \A j \in 1 .. n : from < j /\ j <= from + lim => j - from \in 1 .. Len(w) /\ w[j - from] = s[j]
  BY <1>2, WindowSet
<1> DEFINE L == Len(w)
<1>5. L \in Nat /\ L <= lim
  <2>1. L \in Nat
    BY <1>3
  <2> HIDE DEF L, n
  <2>2. L = IF from + lim <= n THEN lim ELSE IF from <= n THEN n - from ELSE 0
    BY <1>3 DEF L
  <2> QED BY <1>1, <2>1, <2>2
<1>6. reply.page = w
  BY DEF s
<1> HIDE DEF w, pg
<1>7. \A k \in 1 .. n : seat[k] = <<s[k].member, s[k].at>>
  OBVIOUS
<1> HIDE DEF seat, n
<1>8. ASSUME NEW x \in covered
      PROVE  \E i \in 1 .. Len(w) : seat[from + i] = x /\ Place(reply, x) - from = i
             /\ w[i] = s[from + i] /\ from + i \in 1 .. n
  <2>1. PICK k \in 1 .. n : x = seat[k]
    BY <1>1
  <2>2. Place(reply, x) = k
    BY <1>1, <2>1
  <2>3. from < k /\ k <= from + lim
    BY <1>1, <2>2
  <2>4. k - from \in 1 .. Len(w) /\ from + (k - from) = k
    BY <1>1, <1>4, <2>3
  <2> HIDE DEF covered
  <2> QED BY <1>3, <2>1, <2>2, <2>4
<1>9. g \in Bijection(1 .. Len(w), covered)
  <2>1. ASSUME NEW i \in 1 .. Len(w) PROVE g[i] = seat[from + i] /\ seat[from + i] \in covered
    <3>1. from + i \in 1 .. n /\ from + i \in from + 1 .. from + lim
      <4>1. i <= lim /\ 1 <= i /\ i \in Nat
        BY <1>5
      <4> QED BY <1>3, <4>1
    <3>2. seat[from + i] \in Contributed(reply) /\ Place(reply, seat[from + i]) = from + i
      BY <1>1, <3>1
    <3> QED BY <3>1, <3>2
  <2>2. ASSUME NEW i \in 1 .. Len(w), NEW j \in 1 .. Len(w), g[i] = g[j] PROVE i = j
    <3>1. from + i \in 1 .. n /\ from + j \in 1 .. n /\ seat[from + i] = seat[from + j]
      BY <1>3, <2>1, <2>2
    <3>2. from + i = from + j
      BY <1>1, <3>1
    <3>3. i \in Nat /\ j \in Nat
      BY <1>5
    <3> QED BY <3>2, <3>3
  <2>3. \A x \in covered : \E i \in 1 .. Len(w) : g[i] = x
    BY <1>8
  <2>4. g \in [1 .. Len(w) -> covered]
    BY <2>1
  <2> HIDE DEF g, covered
  <2> QED BY <2>2, <2>3, <2>4 DEF Bijection, Injection, Surjection, IsInjective
<1> HIDE DEF g
<1>10. Cardinality(covered) = Len(w)
  <2>1. IsFiniteSet(1 .. Len(w)) /\ Cardinality(1 .. Len(w)) = Len(w)
    BY <1>5, IntervalSize
  <2> HIDE DEF covered
  <2> QED BY <1>9, <2>1, FS_Bijection DEF ExistsBijection
<1>11. ASSUME NEW x \in covered
       PROVE  LET r == reply.page[Place(reply, x) - from] IN <<r.member, r.at>> = x
  <2>1. PICK i \in 1 .. Len(w) : seat[from + i] = x /\ Place(reply, x) - from = i
             /\ w[i] = s[from + i] /\ from + i \in 1 .. n
    BY <1>8
  <2>2. seat[from + i] = <<w[i].member, w[i].at>>
    BY <1>7, <2>1
  <2> QED BY <1>6, <2>1, <2>2
<1> QED BY <1>6, <1>10, <1>11

LEMMA AggregateAnswer ==
  ASSUME FeedsShape, SlotsOk
  PROVE  /\ AccountsFor(SearchAggregate, paging.offset, paging.offset + paging.limit)
         /\ SearchAggregate \in AllAnswer
<1> DEFINE a == SearchAggregate
<1>1. /\ a.page = window(paging, mergeByPublishDate) /\ a.total = Len(mergeByPublishDate)
      /\ a.ledger = [m \in Member |-> ledgerRow(m)] /\ a.slots = slots
      /\ a = [page |-> a.page, total |-> a.total, ledger |-> a.ledger, slots |-> a.slots]
  BY DEF SearchAggregate
<1>2. /\ paging.offset \in Nat /\ paging.limit \in Nat
      /\ paging = [offset |-> paging.offset, limit |-> paging.limit]
  <2>1. paging \in [offset : Nat, limit : 1 .. LimitsMax] /\ LimitsMax \in Nat
    BY FeedsAssumption DEF FeedsShape, FeedsAssumption
  <2>2. paging.offset \in Nat /\ paging.limit \in Nat
    BY <2>1
  <2>3. paging = [offset |-> paging.offset, limit |-> paging.limit]
    BY <2>1, Zenon
  <2> QED BY <2>2, <2>3
<1>3. mergeByPublishDate \in Seq(Entry)
  BY MergeFacts
<1>4. \A m \in Member : ledgerRow(m) \in [reason : {"", "error"} \cup Skips, count : Nat]
  <2> TAKE m \in Member
  <2>1. slots[m] \in SlotState /\ slots[m].releases \in Seq(Release) /\ slots[m].reason \in {"", "error"}
        /\ resolved[m] \in {""} \cup Skips
    BY DEF FeedsShape, SlotState
  <2> DEFINE s == slots[m].releases
             A == {"", "error"} \cup Skips
  <2>5. \A r \in A, c \in Nat : [reason |-> r, count |-> c] \in [reason : A, count : Nat]
    <3> HIDE DEF A
    <3> QED OBVIOUS
  <2>2. Len(s) \in Nat
    <3> HIDE DEF s
    <3>1. s \in Seq(Release)
      BY <2>1 DEF s
    <3> QED BY <3>1
  <2>3. ASSUME Live(m) PROVE ledgerRow(m) \in [reason : A, count : Nat]
    <3>1. ledgerRow(m) = [reason |-> slots[m].reason, count |-> Len(s)]
      BY <2>3 DEF ledgerRow, Live
    <3>2. slots[m].reason \in A
      BY <2>1
    <3> HIDE DEF s, A
    <3> QED BY <2>2, <2>5, <3>1, <3>2
  <2>4. ASSUME ~Live(m) PROVE ledgerRow(m) \in [reason : A, count : Nat]
    <3>1. ledgerRow(m) = [reason |-> resolved[m], count |-> 0] /\ resolved[m] \in A
      BY <2>1, <2>4 DEF ledgerRow, Live
    <3> HIDE DEF A
    <3> QED BY <2>5, <3>1
  <2> HIDE DEF A, s
  <2>6. ledgerRow(m) \in [reason : A, count : Nat]
    BY <2>3, <2>4
  <2> QED BY <2>6 DEF A
<1>5. a \in AllAnswer
  <2>1. a.page \in Seq(Entry) /\ a.total \in Nat
    BY <1>1, <1>2, <1>3, WindowFacts
  <2>2. slots \in [Member -> SlotState]
    BY DEF FeedsShape
  <2>3. a.ledger \in [Member -> [reason : {"", "error"} \cup Skips, count : Nat]]
    BY <1>1, <1>4
  <2> HIDE DEF a
  <2> QED BY <1>1, <2>1, <2>2, <2>3 DEF AllAnswer
<1> HIDE DEF a
<1>6. SumOver([m \in Member |-> a.ledger[m].count], Member) = Cardinality(Contributed(a))
  BY <1>1, CountsAddUp
<1>7. a.total = Cardinality(Contributed(a))
  BY <1>1, MergePlaces
<1>8. \A m \in Member :
           /\ ~Live(m) => a.ledger[m].reason = resolved[m]
           /\ Live(m) => (a.ledger[m].reason = "" <=> a.slots[m].reason = "")
  <2> TAKE m \in Member
  <2>1. a.ledger[m] = ledgerRow(m) /\ a.slots = slots
    BY <1>1
  <2>2. Live(m) => ledgerRow(m).reason = slots[m].reason
    BY DEF ledgerRow, Live
  <2>3. ~Live(m) => ledgerRow(m).reason = resolved[m]
    BY DEF ledgerRow, Live
  <2> QED BY <2>1, <2>2, <2>3
<1>9. LET covered == {x \in Contributed(a) :
                        Place(a, x) \in paging.offset + 1 .. paging.offset + paging.limit}
      IN  /\ Len(a.page) = Cardinality(covered)
          /\ \A x \in covered : LET r == a.page[Place(a, x) - paging.offset]
                                IN  <<r.member, r.at>> = x
  BY <1>1, <1>2, PageCovers
<1>10. AccountsFor(a, paging.offset, paging.offset + paging.limit)
  BY <1>6, <1>7, <1>8, <1>9 DEF AccountsFor
<1> QED BY <1>5, <1>10 DEF a

-----------------------------------------------------------------------------
LEMMA PageNumbers ==
  ASSUME NEW n \in Nat, NEW l \in Nat
  PROVE  /\ n * l \in Nat /\ (n + 1) * l = n * l + l /\ (n + 1) - 1 = n
OBVIOUS

LEMMA ReplyStep ==
  ASSUME FeedsInv, NEW reply \in IF slug = "one" THEN OneAnswer ELSE AllAnswer, Reply(reply),
         slug = "one" => reply = SearchReleases(1, paging),
         slug = "all" => AccountsFor(reply, paging.offset, paging.offset + paging.limit)
  PROVE  FeedsInv'
<1> DEFINE n == Len(replies)
           l == paging.limit
<1>1. /\ replies' = Append(replies, reply)
      /\ paging' = [paging EXCEPT !.offset = @ + paging.limit]
      /\ slots' = [m \in Member |-> EmptySlot]
      /\ UNCHANGED <<slug, catalog, deep, resolved, wanted>>
  BY DEF Reply, askedVars
<1>2. /\ paging \in [offset : Nat, limit : 1 .. LimitsMax] /\ LimitsMax \in Nat
      /\ replies \in Seq(IF slug = "one" THEN OneAnswer ELSE AllAnswer)
      /\ FanoutLimit \in Nat
  BY FeedsAssumption DEF FeedsInv, FeedsShape, FeedsAssumption
<1>3. /\ n \in Nat /\ l \in Nat /\ l \in 1 .. LimitsMax /\ paging.offset = n * l
      /\ n * l \in Nat /\ (n + 1) * l = n * l + l /\ (n + 1) - 1 = n
  <2>1. n \in Nat /\ l \in Nat /\ l \in 1 .. LimitsMax /\ paging.offset = n * l
    BY <1>2 DEF FeedsInv, PagedOk
  <2> HIDE DEF n, l
  <2> QED BY <2>1, PageNumbers
<1>4. paging' = [offset |-> n * l + l, limit |-> l] /\ paging = [offset |-> n * l, limit |-> l]
  <2>1. paging = [offset |-> paging.offset, limit |-> paging.limit]
    BY <1>2, Zenon
  <2>2. paging = [offset |-> n * l, limit |-> l]
    BY <1>3, <2>1
  <2> HIDE DEF n
  <2> QED BY <1>1, <2>2
<1>5. /\ replies' \in Seq(IF slug = "one" THEN OneAnswer ELSE AllAnswer)
      /\ Len(replies') = n + 1 /\ DOMAIN replies' = 1 .. n + 1
      /\ replies'[n + 1] = reply
      /\ \A k \in 1 .. n : replies'[k] = replies[k] /\ k \in DOMAIN replies
      /\ \A k \in 1 .. n + 1 : k \in 1 .. n \/ k = n + 1
  BY <1>1, <1>2
<1>6. EmptySlot \in SlotState
  <2>1. <<>> \in Seq(Release)
    OBVIOUS
  <2> QED BY <2>1 DEF EmptySlot, SlotState
<1>7. FeedsShape'
  <2>1. paging' \in [offset : Nat, limit : 1 .. LimitsMax]
    <3>1. n * l + l \in Nat
      <4> HIDE DEF n, l
      <4> QED BY <1>3
    <3> HIDE DEF n, l
    <3> QED BY <1>3, <1>4, <3>1
  <2>2. slots' \in [Member -> SlotState]
    BY <1>1, <1>6
  <2>3. /\ slug \in {"one", "all"} /\ deep \in [Member -> BOOLEAN]
        /\ catalog \in [Member -> Seq(Release)] /\ resolved \in [Member -> {""} \cup Skips]
    BY DEF FeedsInv, FeedsShape
  <2>4. OneAnswer' = OneAnswer /\ AllAnswer' = AllAnswer
    BY DEF OneAnswer, AllAnswer
  <2> QED BY <1>1, <1>5, <2>1, <2>2, <2>3, <2>4 DEF FeedsShape
<1>8. PagedOk'
  <2>1. paging'.offset = n * l + l /\ paging'.limit = l
    BY <1>4
  <2> HIDE DEF n, l
  <2>2. paging'.offset = Len(replies') * paging'.limit
    BY <1>3, <1>5, <2>1
  <2> QED BY <2>2 DEF PagedOk
<1>9. SlotsOk'
  <2>1. Running' = {}
    BY <1>1 DEF Running, EmptySlot
  <2>2. Cardinality(Running') <= FanoutLimit
    BY <1>2, <2>1, FS_EmptySet
  <2>3. \A m \in Member : slots'[m] = EmptySlot
    BY <1>1
  <2> QED BY <2>2, <2>3 DEF SlotsOk, EmptySlot
<1>10. OneOk'
  <2> SUFFICES ASSUME slug = "one" PROVE OneOk'
    BY <1>1 DEF OneOk
  <2>1. GuidTells(catalog[1]) /\ \A k \in DOMAIN replies : replies[k] = SearchReleases(1, FeedPage(k))
    BY DEF FeedsInv, OneOk, GuidTells
  <2>2. ASSUME NEW k PROVE FeedPage(k)' = FeedPage(k)
    <3>1. paging'.limit = paging.limit
      BY <1>4
    <3> QED BY <3>1 DEF FeedPage
  <2>3. ASSUME NEW k PROVE SearchReleases(1, FeedPage(k))' = SearchReleases(1, FeedPage(k))
    <3>1. PICK pg : pg = FeedPage(k)
      OBVIOUS
    <3>2. SearchReleases(1, pg)' = SearchReleases(1, pg)
      BY <1>1, SearchKept
    <3>3. FeedPage(k)' = pg
      BY <2>2, <3>1
    <3>4. SearchReleases(1, FeedPage(k))' = SearchReleases(1, pg)'
      BY <3>3 DEF SearchReleases, Searched
    <3> QED BY <3>1, <3>2, <3>4
  <2>4. FeedPage(n + 1) = paging
    BY <1>3, <1>4 DEF FeedPage
  <2>5. \A k \in DOMAIN replies' : replies'[k] = SearchReleases(1, FeedPage(k))'
    <3> TAKE k \in DOMAIN replies'
    <3>1. CASE k \in 1 .. n
      BY <1>5, <2>1, <2>3, <3>1
    <3>2. CASE k = n + 1
      <4>1. reply = SearchReleases(1, FeedPage(n + 1))
        BY <2>4
      <4> QED BY <1>5, <2>3, <3>2, <4>1
    <3> QED BY <1>5, <3>1, <3>2
  <2> QED BY <1>1, <2>1, <2>5 DEF OneOk, GuidTells
<1>11. LedgerAccounts'
  <2> SUFFICES ASSUME slug = "all" PROVE LedgerAccounts'
    BY <1>1 DEF LedgerAccounts
  <2>1. \A k \in DOMAIN replies : AnswerAccounts(k)
    BY DEF FeedsInv, LedgerAccounts
  <2>2. ASSUME NEW k, NEW r, replies'[k] = r, AccountsFor(r, (k - 1) * l, k * l) PROVE AnswerAccounts(k)'
    <3>1. PICK v : v = l
      OBVIOUS
    <3>2. paging'.limit = v
      BY <1>4, <3>1
    <3>3. AnswerAccounts(k)' <=> AccountsFor(r, (k - 1) * v, k * v)'
      BY <2>2, <3>2, AccountsIsNext
    <3>4. AccountsFor(r, (k - 1) * v, k * v)
      BY <2>2, <3>1
    <3> QED BY <1>1, <3>3, <3>4, AccountsKept
  <2>3. ASSUME NEW k \in 1 .. n + 1 PROVE AnswerAccounts(k)'
    <3>1. CASE k \in 1 .. n
      <4>1. AccountsFor(replies[k], (k - 1) * l, k * l)
        BY <1>5, <2>1, <3>1, AccountsIs
      <4>2. PICK r : r = replies[k]
        OBVIOUS
      <4> QED BY <1>5, <2>2, <3>1, <4>1, <4>2
    <3>2. CASE k = n + 1
      <4>1. (k - 1) * l = paging.offset /\ k * l = paging.offset + paging.limit
        BY <1>3, <3>2
      <4>2. AccountsFor(reply, (k - 1) * l, k * l)
        BY <4>1
      <4> QED BY <1>5, <2>2, <3>2, <4>2
    <3> QED BY <1>5, <3>1, <3>2
  <2> QED BY <1>5, <2>3 DEF LedgerAccounts
<1> QED BY <1>7, <1>8, <1>9, <1>10, <1>11 DEF FeedsInv

LEMMA ServeOneStep == ASSUME FeedsInv, ServeOne PROVE FeedsInv'
<1>1. slug = "one" /\ Reply(SearchReleases(1, paging))
  BY DEF ServeOne
<1>2. 1 \in Member
  BY FeedsAssumption DEF FeedsAssumption, Member
<1>3. paging \in [offset : Nat, limit : Nat]
  <2>1. paging \in [offset : Nat, limit : 1 .. LimitsMax]
    BY DEF FeedsInv, FeedsShape
  <2>2. \A l \in 1 .. LimitsMax : l \in Nat
    BY FeedsAssumption DEF FeedsAssumption
  <2> QED BY <2>1, <2>2
<1>4. SearchReleases(1, paging) \in OneAnswer
  BY <1>2, <1>3, AnswerTyped DEF FeedsInv
<1>5. PICK r \in OneAnswer : r = SearchReleases(1, paging)
  BY <1>4
<1> QED BY <1>1, <1>5, ReplyStep

LEMMA ServeAllStep == ASSUME FeedsInv, ServeAll PROVE FeedsInv'
<1>1. slug = "all" /\ Reply(SearchAggregate)
  BY DEF ServeAll
<1>2. /\ SearchAggregate \in AllAnswer
      /\ AccountsFor(SearchAggregate, paging.offset, paging.offset + paging.limit)
  BY AggregateAnswer DEF FeedsInv
<1>3. PICK r \in AllAnswer : r = SearchAggregate
  BY <1>2
<1> QED BY <1>1, <1>2, <1>3, ReplyStep

LEMMA FeedsStep == FeedsInv /\ [FeedsNext]_feedsVars => FeedsInv'
<1> SUFFICES ASSUME FeedsInv, [FeedsNext]_feedsVars PROVE FeedsInv'
  OBVIOUS
<1>1. CASE ServeOne
  BY <1>1, ServeOneStep
<1>2. CASE ServeAll
  BY <1>2, ServeAllStep
<1>3. ASSUME NEW m \in Member, StartMember(m) PROVE FeedsInv'
  BY <1>3, StartMemberStep
<1>4. ASSUME NEW m \in Member, FinishMember(m) PROVE FeedsInv'
  BY <1>4, FinishMemberStep
<1>5. CASE UNCHANGED feedsVars
  <2>1. UNCHANGED <<slug, catalog, deep, resolved, wanted, paging, slots, replies>>
    BY <1>5 DEF feedsVars
  <2>2. FeedsShape'
    BY <2>1 DEF FeedsInv, FeedsShape, OneAnswer, AllAnswer
  <2>3. OneOk' /\ LedgerAccounts'
    BY <2>1, OneKept, LedgerKept DEF FeedsInv
  <2>4. PagedOk' /\ SlotsOk'
    BY <2>1 DEF FeedsInv, PagedOk, SlotsOk, Running, Live
  <2> QED BY <2>2, <2>3, <2>4 DEF FeedsInv
<1>6. ServeOne \/ ServeAll \/ (\E m \in Member : StartMember(m) \/ FinishMember(m))
      \/ UNCHANGED feedsVars
  BY DEF FeedsNext
<1> QED BY <1>1, <1>2, <1>3, <1>4, <1>5, <1>6, Zenon

-----------------------------------------------------------------------------
(* The guids of a feed's pages, when it is read to its end.                  *)
LEMMA GuidsIs ==
  ASSUME NEW E, NEW s \in Seq(E)
  PROVE  Guids(s) = GuidsOf(ToSet(s))
BY DEF Guids, GuidsOf, ToSet

LEMMA ShallowReaches ==
  ASSUME FeedsInv, slug = "one", ~deep[1], ~Waits
  PROVE  GuidsOf({r \in ToSet(catalog[1]) : Wants(r)}) = PagesOf(1)
<1> DEFINE s == Listed(catalog[1])
           n == Len(replies)
           l == paging.limit
<1>1. 1 \in Member /\ catalog[1] \in Seq(Release)
  <2>1. 1 \in Member
    BY FeedsAssumption DEF FeedsAssumption, Member
  <2> QED BY <2>1 DEF FeedsInv, FeedsShape
<1>2. s \in Seq(Release) /\ GuidsOf(ToSet(s)) = GuidsOf({r \in ToSet(catalog[1]) : Wants(r)})
  BY <1>1, ListedFacts DEF FeedsInv, OneOk, GuidTells
<1>3. /\ replies \in Seq(OneAnswer) /\ n \in Nat /\ DOMAIN replies = 1 .. n
      /\ l \in Nat \ {0} /\ paging.offset = n * l
  <2>1. replies \in Seq(OneAnswer) /\ l \in 1 .. LimitsMax /\ LimitsMax \in Nat /\ paging.offset = n * l
    BY FeedsAssumption DEF FeedsInv, FeedsShape, PagedOk, FeedsAssumption
  <2> QED BY <2>1
<1>4. ASSUME NEW k \in 1 .. n
      PROVE  /\ replies[k].page = window(FeedPage(k), s) /\ replies[k].total = Len(s)
             /\ replies[k].page \in Seq(Release)
             /\ FeedPage(k).offset = (k - 1) * l /\ FeedPage(k).limit = l
             /\ FeedPage(k).offset \in Nat /\ FeedPage(k).limit \in Nat
  <2>1. FeedPage(k).offset = (k - 1) * l /\ FeedPage(k).limit = l
    BY DEF FeedPage
  <2>2. (k - 1) * l \in Nat /\ l \in Nat
    <3>1. k - 1 \in Nat /\ l \in Nat
      BY <1>3
    <3> HIDE DEF l
    <3> QED BY <3>1
  <2>3. replies[k] = SearchReleases(1, FeedPage(k))
    BY <1>3 DEF FeedsInv, OneOk
  <2>4. replies[k].page = window(FeedPage(k), s) /\ replies[k].total = Len(s)
        /\ replies[k] \in OneAnswer
    BY <1>1, <2>1, <2>2, <2>3, ShallowAnswer DEF FeedsInv
  <2> QED BY <2>1, <2>2, <2>4 DEF OneAnswer
<1> HIDE DEF s, l
<1>5. n # 0 /\ Len(s) <= n * l
  <2>1. replies # <<>> /\ ~(Last(replies).total > paging.offset)
    BY DEF Waits
  <2>2. n # 0 /\ n \in 1 .. n
    BY <1>3, <2>1
  <2>3. Last(replies) = replies[n]
    BY <1>3, <2>2 DEF Last
  <2>4. ~(Len(s) > n * l)
    BY <1>3, <1>4, <2>1, <2>2, <2>3
  <2>5. Len(s) \in Nat /\ n * l \in Nat
    BY <1>2, <1>3
  <2> QED BY <2>2, <2>4, <2>5
<1>6. ASSUME NEW i \in 1 .. Len(s) PROVE \E k \in 1 .. n : s[i] \in ToSet(replies[k].page)
  <2>1. i \in Nat \ {0} /\ i <= n * l
    <3>1. Len(s) \in Nat /\ n * l \in Nat
      BY <1>2, <1>3
    <3> QED BY <1>5, <3>1
  <2>2. PICK k \in 1 .. n : (k - 1) * l < i /\ i <= (k - 1) * l + l
    BY <1>3, <2>1, PageOfPlace
  <2>3. s[i] \in ToSet(window(FeedPage(k), s))
    BY <1>2, <1>4, <2>2, WindowSet
  <2> QED BY <1>4, <2>3
<1>7. PagesOf(1) = UNION {GuidsOf(ToSet(replies[k].page)) : k \in 1 .. n}
  BY <1>3, <1>4, GuidsIs DEF PagesOf
<1>8. ASSUME NEW k \in 1 .. n PROVE ToSet(replies[k].page) \subseteq ToSet(s)
  BY <1>2, <1>4, WindowSet
<1>9. UNION {GuidsOf(ToSet(replies[k].page)) : k \in 1 .. n} = GuidsOf(ToSet(s))
  <2>1. \A r \in ToSet(s) : \E k \in 1 .. n : r \in ToSet(replies[k].page)
    <3>1. ToSet(s) = {s[i] : i \in 1 .. Len(s)}
      BY <1>2 DEF ToSet
    <3> QED BY <1>6, <3>1
  <2> QED BY <1>8, <2>1 DEF GuidsOf
<1> QED BY <1>2, <1>7, <1>9

LEMMA DeepReaches ==
  ASSUME FeedsInv, slug = "one", deep[1], ~Waits
  PROVE  GuidsOf({r \in ToSet(catalog[1]) : Wants(r)}) = PagesOf(1)
<1> DEFINE s == catalog[1]
           n == Len(replies)
           l == paging.limit
           raw(k) == window(FeedPage(k), s)
<1>1. 1 \in Member /\ s \in Seq(Release)
  <2>1. 1 \in Member
    BY FeedsAssumption DEF FeedsAssumption, Member
  <2> QED BY <2>1 DEF FeedsInv, FeedsShape
<1>2. GuidTells(s)
  BY DEF FeedsInv, OneOk, GuidTells
<1>3. /\ replies \in Seq(OneAnswer) /\ n \in Nat /\ DOMAIN replies = 1 .. n
      /\ l \in Nat \ {0} /\ paging.offset = n * l
  <2>1. replies \in Seq(OneAnswer) /\ l \in 1 .. LimitsMax /\ LimitsMax \in Nat /\ paging.offset = n * l
    BY FeedsAssumption DEF FeedsInv, FeedsShape, PagedOk, FeedsAssumption
  <2> QED BY <2>1
<1>4. ASSUME NEW k \in 1 .. n
      PROVE  /\ ToSet(replies[k].page) = ToSet(Listed(raw(k)))
             /\ replies[k].total = IF Len(raw(k)) >= l THEN (k - 1) * l + l + 1
                                   ELSE (k - 1) * l + Len(replies[k].page)
             /\ replies[k].page \in Seq(Release) /\ raw(k) \in Seq(Release)
             /\ FeedPage(k).offset = (k - 1) * l /\ FeedPage(k).limit = l
             /\ FeedPage(k).offset \in Nat /\ FeedPage(k).limit \in Nat
             /\ FeedPage(k) \in [offset : Nat, limit : Nat]
  <2>1. FeedPage(k) = [offset |-> (k - 1) * l, limit |-> l]
    BY DEF FeedPage
  <2>2. (k - 1) * l \in Nat /\ l \in Nat
    <3>1. k - 1 \in Nat /\ l \in Nat
      BY <1>3
    <3> HIDE DEF l
    <3> QED BY <3>1
  <2> HIDE DEF l
  <2>3. /\ FeedPage(k) \in [offset : Nat, limit : Nat]
        /\ FeedPage(k).offset = (k - 1) * l /\ FeedPage(k).limit = l
    BY <2>1, <2>2
  <2>4. replies[k] = SearchReleases(1, FeedPage(k))
    BY <1>3 DEF FeedsInv, OneOk
  <2>5. /\ raw(k) \in Seq(Release)
        /\ ToSet(replies[k].page) = ToSet(Listed(raw(k)))
        /\ replies[k].total =
             IF Len(raw(k)) >= FeedPage(k).limit THEN FeedPage(k).offset + FeedPage(k).limit + 1
             ELSE FeedPage(k).offset + Len(replies[k].page)
        /\ replies[k] \in OneAnswer
    BY <1>1, <2>3, <2>4, DeepAnswer DEF FeedsInv
  <2> QED BY <2>2, <2>3, <2>5 DEF OneAnswer
<1> HIDE DEF s, l, raw
<1>5. Len(s) <= n * l
  <2>1. replies # <<>> /\ ~(Last(replies).total > paging.offset)
    BY DEF Waits
  <2>2. n # 0 /\ n \in 1 .. n
    BY <1>3, <2>1
  <2>3. Last(replies) = replies[n]
    BY <1>3, <2>2 DEF Last
  <2> DEFINE o == (n - 1) * l
  <2>4. o \in Nat /\ n * l = o + l /\ n * l \in Nat
    <3>1. n - 1 \in Nat /\ l \in Nat
      BY <1>3, <2>2
    <3>2. ((n - 1) + 1) * l = (n - 1) * l + l /\ (n - 1) * l \in Nat
      BY <3>1, PageNumbers
    <3>3. (n - 1) + 1 = n
      BY <1>3
    <3> HIDE DEF n
    <3> QED BY <1>3, <3>1, <3>2, <3>3
  <2>5. ~(replies[n].total > o + l)
    BY <1>3, <2>1, <2>3, <2>4
  <2>6. Len(raw(n)) < l
    <3>1. replies[n].total = IF Len(raw(n)) >= l THEN o + l + 1 ELSE o + Len(replies[n].page)
      BY <1>4, <2>2
    <3>2. Len(raw(n)) \in Nat /\ l \in Nat
      BY <1>3, <1>4, <2>2
    <3> HIDE DEF o, n
    <3> QED BY <2>4, <2>5, <3>1, <3>2
  <2>7. Len(raw(n)) = IF o + l <= Len(s) THEN l ELSE IF o <= Len(s) THEN Len(s) - o ELSE 0
    <3>1. FeedPage(n).offset = o /\ FeedPage(n).limit = l
          /\ FeedPage(n).offset \in Nat /\ FeedPage(n).limit \in Nat
      BY <1>4, <2>2
    <3> HIDE DEF o, n
    <3> QED BY <1>1, <3>1, WindowFacts DEF raw, s
  <2>8. Len(s) \in Nat /\ l \in Nat
    BY <1>1, <1>3
  <2> HIDE DEF o, n
  <2> QED BY <2>4, <2>6, <2>7, <2>8
<1>6. ASSUME NEW i \in 1 .. Len(s) PROVE \E k \in 1 .. n : s[i] \in ToSet(raw(k))
  <2>1. i \in Nat \ {0} /\ i <= n * l
    <3>1. Len(s) \in Nat /\ n * l \in Nat
      BY <1>1, <1>3
    <3> QED BY <1>5, <3>1
  <2>2. PICK k \in 1 .. n : (k - 1) * l < i /\ i <= (k - 1) * l + l
    BY <1>3, <2>1, PageOfPlace
  <2>3. s[i] \in ToSet(window(FeedPage(k), s))
    BY <1>1, <1>4, <2>2, WindowSet
  <2> QED BY <2>3 DEF raw
<1>7. PagesOf(1) = UNION {GuidsOf(ToSet(replies[k].page)) : k \in 1 .. n}
  BY <1>3, <1>4, GuidsIs DEF PagesOf
<1>8. ASSUME NEW k \in 1 .. n
      PROVE  /\ ToSet(raw(k)) \subseteq ToSet(s)
             /\ GuidsOf(ToSet(replies[k].page)) = GuidsOf({r \in ToSet(raw(k)) : Wants(r)})
  <2>1. ToSet(raw(k)) \subseteq ToSet(s)
    BY <1>1, <1>4, WindowSet DEF raw
  <2>2. raw(k) \in Seq(Release) /\ DOMAIN raw(k) = 1 .. Len(raw(k))
    BY <1>4
  <2>3. GuidTells(raw(k))
    <3>1. \A i \in DOMAIN raw(k) : \E j \in DOMAIN s : raw(k)[i] = s[j]
      BY <2>1 DEF ToSet
    <3> QED BY <1>2, <3>1 DEF GuidTells
  <2> QED BY <1>4, <2>1, <2>2, <2>3, ListedFacts
<1>9. UNION {GuidsOf(ToSet(replies[k].page)) : k \in 1 .. n} = GuidsOf({r \in ToSet(s) : Wants(r)})
  <2>1. \A r \in ToSet(s) : \E k \in 1 .. n : r \in ToSet(raw(k))
    <3>1. ToSet(s) = {s[i] : i \in 1 .. Len(s)}
      BY <1>1 DEF ToSet
    <3> QED BY <1>6, <3>1
  <2>2. UNION {GuidsOf({r \in ToSet(raw(k)) : Wants(r)}) : k \in 1 .. n}
          = GuidsOf({r \in ToSet(s) : Wants(r)})
    BY <1>8, <2>1 DEF GuidsOf
  <2> QED BY <1>8, <2>2
<1> QED BY <1>7, <1>9 DEF s

LEMMA PagesReach == FeedsInv => PagesReachAll
<1> SUFFICES ASSUME FeedsInv, slug = "one"
             PROVE  /\ ~Waits => {r.guid : r \in {s \in ToSet(catalog[1]) : Wants(s)}} = PagesOf(1)
                    /\ \A k \in DOMAIN replies : IsInjective([i \in DOMAIN replies[k].page |->
                                               replies[k].page[i].guid])
  BY DEF PagesReachAll
<1>1. ~Waits => GuidsOf({s \in ToSet(catalog[1]) : Wants(s)}) = PagesOf(1)
  BY ShallowReaches, DeepReaches
<1>2. ASSUME NEW k \in DOMAIN replies
      PROVE IsInjective([i \in DOMAIN replies[k].page |-> replies[k].page[i].guid])
  <2> DEFINE p == replies[k].page
             f == [i \in DOMAIN p |-> p[i].guid]
  <2>1. replies[k] = SearchReleases(1, FeedPage(k)) /\ 1 \in Member
    BY FeedsAssumption DEF FeedsAssumption, Member, FeedsInv, OneOk
  <2>2. FeedPage(k) \in [offset : Nat, limit : Nat]
    <3>1. replies \in Seq(OneAnswer) /\ paging \in [offset : Nat, limit : 1 .. LimitsMax] /\ LimitsMax \in Nat
      BY FeedsAssumption DEF FeedsInv, FeedsShape, FeedsAssumption
    <3>2. k - 1 \in Nat /\ paging.limit \in Nat
      BY <3>1
    <3>3. (k - 1) * paging.limit \in Nat
      BY <3>2, PageNumbers
    <3> QED BY <3>2, <3>3 DEF FeedPage
  <2>3. p \in Seq(Release) /\ Increasing(p, Distinct)
    BY <2>1, <2>2, AnswerTyped DEF FeedsInv, OneAnswer
  <2> HIDE DEF p
  <2>4. DOMAIN p = 1 .. Len(p) /\ Len(p) \in Nat
    BY <2>3
  <2>5. ASSUME NEW i \in DOMAIN p, NEW j \in DOMAIN p, p[i].guid = p[j].guid PROVE i = j
    <3>1. ~(i < j) /\ ~(j < i)
      BY <2>3, <2>5 DEF Increasing, Distinct
    <3> QED BY <2>4, <3>1
  <2>6. IsInjective(f)
    BY <2>5 DEF IsInjective
  <2> QED BY <2>6 DEF p
<1> QED BY <1>1, <1>2 DEF GuidsOf

LEMMA FeedsInvariant == FeedsSpec => []FeedsInv
BY FeedsStart, FeedsStep, PTL DEF FeedsSpec

LEMMA FeedsTyped == FeedsInv => FeedsTypeOK
<1> SUFFICES ASSUME FeedsInv PROVE FeedsTypeOK
  OBVIOUS
<1>1. FeedsShape /\ SlotsOk
  BY DEF FeedsInv
<1>2. paging.offset \in Nat /\ paging.limit \in 1 .. LimitsMax
  BY <1>1 DEF FeedsShape
<1>3. \A m \in Member : slots[m].pc \in {"idle", "running", "done"}
  BY <1>1 DEF FeedsShape, SlotState
<1> QED BY <1>1, <1>2, <1>3 DEF FeedsTypeOK, FeedsShape, SlotsOk, Release

(* Types: the trackers, the page asked for, the slots and the places of the   *)
(* fan-out, of which at most FanoutLimit are taken.                         *)
THEOREM FeedsTypeCorrect == FeedsSpec => []FeedsTypeOK
BY FeedsTyped, FeedsInvariant, PTL

(* For any trackers, pages and failures: a consumer that stops where the     *)
(* totals stop has been given every release it wants and no page lists one   *)
(* twice; an aggregate answer has a row for each member, counts that add up  *)
(* to the total, and on each page the releases whose place it covers         *)
(* (pagedResult, localPageResult, SearchAggregate).                          *)
THEOREM FeedsAreWhole == FeedsSpec => []FeedsWhole
<1>1. FeedsInv => FeedsWhole
  BY PagesReach DEF FeedsWhole, FeedsInv
<1> QED BY <1>1, FeedsInvariant, PTL
=============================================================================
