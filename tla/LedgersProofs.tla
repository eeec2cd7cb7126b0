-------------------------- MODULE LedgersProofs ---------------------------
(***************************************************************************)
(* Proofs about the components that keep a ledger: the request budget, the *)
(* misses of the search cache, the announcements, the status of an indexer *)
(* and the backups, and about all of them taken together.                   *)
(***************************************************************************)
EXTENDS MCLedgers, OrdersProofs, AppsProofs, FiniteSetTheorems, TLAPS, NaturalsInduction,
        WellFoundedInduction

-----------------------------------------------------------------------------
(***************************************************************************)
(* Budget, for any number of calls, any plans and any clock: the counter is*)
(* exact, no period is charged beyond its limit, and a period the tracker  *)
(* declared spent stays closed.                                            *)
(***************************************************************************)

Good == exists /\ excused = {}

CallOk(c) ==
  /\ call[c].stage # "idle" => call[c].key \in Key
  /\ call[c].stage = "stamped" =>
       \E plan \in Plan : plan.unit = call[c].key.unit /\ plan.limit = call[c].limit
  /\ (Good /\ call[c].stage = "granted") => call[c].key \in DOMAIN ledger

(* The inductive invariant: the ledger is opened before anything is entered. *)
BInv == /\ TypeOK
        /\ \A c \in Call : CallOk(c)
        /\ ~exists => disk = NoRow
        /\ Good => spent \subseteq DOMAIN ledger
        /\ CounterIsExact
        /\ WithinLimit

-----------------------------------------------------------------------------
LEMMA KeyFacts ==
  ASSUME NEW t \in Nat, NEW unit \in Unit
  PROVE  periodKey(t, unit) \in Key /\ periodKey(t, unit).unit = unit
<1>1. t \div HoursPerDay \in Nat
  BY HoursAssumption
<1> QED BY <1>1 DEF periodKey, Key

LEMMA IdleCallFacts == IdleCall \in CallState /\ IdleCall.stage = "idle"
  BY DEF IdleCall, CallState, Limit

LEMMA FreshFacts ==
  ASSUME NEW key \in Key \cup {NoPeriod}
  PROVE  /\ Fresh(key) \in Counter /\ Fresh(key).period = key
         /\ Fresh(key).count = 0 /\ Fresh(key).exhausted = FALSE
  BY DEF Fresh, Counter

(* An operation starts from the counter in force, unless the read failed. *)
LEMMA LoadFacts ==
  ASSUME TypeOK, NEW k \in Loaded
  PROVE  /\ k \in Counter /\ Effective \in Counter /\ Durable \in Counter
         /\ Lost(k) = {} => k = Effective
  BY FreshFacts DEF TypeOK, Loaded, Lost, Effective, Durable

LEMMA RolledFacts ==
  ASSUME NEW k \in Counter, NEW key \in Key
  PROVE  /\ Rolled(k, key) \in Counter /\ Rolled(k, key).period = key
         /\ k.period = key => Rolled(k, key) = k
         /\ k.period # key => Rolled(k, key) = Fresh(key)
  BY FreshFacts DEF Rolled

(* How one call changes the number of calls under way in a period. *)
LEMMA InFlightFacts ==
  ASSUME NEW c \in Call, NEW key, \A d \in Call \ {c} : call'[d] = call[d]
  PROVE  /\ Cardinality(InFlight(key)) \in Nat
         /\ c \in InFlight(key) => Cardinality(InFlight(key)) > 0
         /\ (c \in InFlight(key) /\ c \notin InFlight(key)')
              => Cardinality(InFlight(key))' = Cardinality(InFlight(key)) - 1
         /\ (c \notin InFlight(key) /\ c \in InFlight(key)')
              => Cardinality(InFlight(key))' = Cardinality(InFlight(key)) + 1
         /\ (c \in InFlight(key) <=> c \in InFlight(key)')
              => Cardinality(InFlight(key))' = Cardinality(InFlight(key))
<1> DEFINE S == InFlight(key)
           T == InFlight(key)'
<1>1. IsFiniteSet(S) /\ IsFiniteSet(T)
  <2>1. S \subseteq Call /\ T \subseteq Call
    BY DEF InFlight
  <2> QED BY <2>1, CallAssumption, FS_Subset
<1>2. Cardinality(S) \in Nat /\ Cardinality(T) \in Nat
  BY <1>1, FS_CardinalityType
<1>3. c \in S => Cardinality(S) # 0
  BY <1>1, FS_EmptySet
<1>4. CASE c \in S /\ c \notin T
  <2>1. T = S \ {c}
    BY <1>4 DEF InFlight
  <2>2. Cardinality(S \ {c}) = Cardinality(S) - 1
    BY <1>1, <1>4, FS_RemoveElement
  <2> QED BY <1>2, <1>3, <1>4, <2>1, <2>2
<1>5. CASE c \notin S /\ c \in T
  <2>1. T = S \cup {c}
    BY <1>5 DEF InFlight
  <2>2. Cardinality(S \cup {c}) = Cardinality(S) + 1
    BY <1>1, <1>5, FS_AddElement
  <2> QED BY <1>2, <1>5, <2>1, <2>2
<1>6. CASE c \in S <=> c \in T
  <2>1. T = S
    BY <1>6 DEF InFlight
  <2> QED BY <1>2, <1>3, <1>6, <2>1
<1> QED BY <1>4, <1>5, <1>6

-----------------------------------------------------------------------------
LEMMA BudgetTypeInit == Init => TypeOK
  BY IdleCallFacts DEF Init, TypeOK, NoLedger

LEMMA BudgetTypeServe ==
  ASSUME TypeOK, \A d \in Call : CallOk(d), NEW c \in Call, Serve(c) PROVE TypeOK'
<1> USE DEF TypeOK
<1>0. call[c] \in CallState /\ CallOk(c)
  OBVIOUS
<1>1. CASE Stamp(c)
  <2>1. PICK plan \in Plan : call' = [call EXCEPT ![c] =
          [stage |-> "stamped", key |-> periodKey(clock, plan.unit), limit |-> plan.limit]]
    BY <1>1 DEF Stamp
  <2>2. plan.unit \in Unit /\ plan.limit \in Limit
    BY PlanAssumption
  <2>3. periodKey(clock, plan.unit) \in Key
    BY <2>2, KeyFacts
  <2> QED BY <1>1, <2>1, <2>2, <2>3 DEF Stamp, CallState
<1>2. ASSUME NEW k \in Counter, NEW key \in Key, Roll(k, key)
      PROVE  /\ DOMAIN ledger' \subseteq Key /\ ledger' \in [DOMAIN ledger' -> Nat]
             /\ excused' \subseteq {"reopened", "lost", "recycled"}
  BY <1>2 DEF Roll, Lost
<1>3. CASE reserve(c)
  <2> DEFINE Next1(k) == LET rolled == Rolled(k, call[c].key)
                         IN IF Allowed(rolled, call[c].limit) THEN [rolled EXCEPT !.count = @ + 1] ELSE rolled
  <2>1. PICK k \in Loaded : mem' = Next1(k) /\ Persist(Next1(k)) /\ Roll(k, call[c].key)
    BY <1>3 DEF reserve
  <2>2. k \in Counter /\ call[c].key \in Key
    BY <1>0, <1>3, LoadFacts DEF reserve, CallOk
  <2>3. Rolled(k, call[c].key) \in Counter
    BY <2>2, RolledFacts
  <2>4. Next1(k) \in Counter
    BY <2>3 DEF Counter
  <2>5. mem' \in Counter /\ disk' \in Counter \cup {NoRow}
    BY <2>1, <2>4 DEF Persist
  <2>6. call' \in [Call -> CallState]
    BY <1>0, <1>3, IdleCallFacts DEF reserve, CallState
  <2> QED BY <1>2, <1>3, <2>1, <2>2, <2>5, <2>6 DEF reserve
<1>4. CASE release(c)
  <2> DEFINE Next1(k) == IF Refunds(k, call[c].key) THEN [k EXCEPT !.count = @ - 1] ELSE k
  <2>1. PICK k \in Loaded : /\ mem' = Next1(k)
                            /\ IF Refunds(k, call[c].key) THEN Persist(Next1(k)) ELSE UNCHANGED disk
                            /\ excused' = excused \cup Lost(k)
    BY <1>4 DEF release
  <2>2. k \in Counter
    BY LoadFacts
  <2>3. Next1(k) \in Counter
    BY <2>2 DEF Counter, Refunds
  <2>4. mem' \in Counter /\ disk' \in Counter \cup {NoRow}
    BY <2>1, <2>3 DEF Persist
  <2> QED BY <1>4, <2>1, <2>4, IdleCallFacts DEF release, Lost
<1>5. CASE Answered(c)
  BY <1>5, IdleCallFacts DEF Answered, Spend
<1>6. CASE QuotaExceeded(c)
  <2>1. call[c].key \in Key /\ call[c].key.unit \in Unit
    BY <1>0, <1>6 DEF QuotaExceeded, CallOk, Key
  <2>2. periodKey(clock, call[c].key.unit) \in Key
    BY <2>1, KeyFacts
  <2>3. call' \in [Call -> CallState]
    BY <1>0, <1>6, <2>2 DEF QuotaExceeded, CallState
  <2> QED BY <1>6, <2>3 DEF QuotaExceeded, Spend
<1>7. CASE MarkQuotaSpent(c)
  <2>1. PICK k \in Loaded :
          LET next == [Rolled(k, call[c].key) EXCEPT !.exhausted = TRUE]
          IN  mem' = next /\ Persist(next) /\ Roll(k, call[c].key)
    BY <1>7 DEF MarkQuotaSpent
  <2>2. k \in Counter /\ call[c].key \in Key
    BY <1>0, <1>7, LoadFacts DEF MarkQuotaSpent, CallOk
  <2>3. [Rolled(k, call[c].key) EXCEPT !.exhausted = TRUE] \in Counter
    <3>1. Rolled(k, call[c].key) \in Counter
      BY <2>2, RolledFacts
    <3> QED BY <3>1 DEF Counter
  <2>4. mem' \in Counter /\ disk' \in Counter \cup {NoRow}
    BY <2>1, <2>3 DEF Persist
  <2> QED BY <1>2, <1>7, <2>1, <2>2, <2>4, IdleCallFacts DEF MarkQuotaSpent
<1> QED BY <1>1, <1>3, <1>4, <1>5, <1>6, <1>7 DEF Serve

LEMMA BudgetTypeStep ==
  ASSUME TypeOK, \A c \in Call : CallOk(c), [Next]_vars PROVE TypeOK'
<1> USE DEF TypeOK
<1>1. ASSUME NEW c \in Call, Serve(c) PROVE TypeOK'
  BY <1>1, BudgetTypeServe
<1>2. CASE Status
  BY <1>2, LoadFacts DEF Status, Lost
<1>9. CASE OtherKind
  BY <1>9, LoadFacts DEF OtherKind, Persist, Lost
<1>3. CASE Tick
  BY <1>3 DEF Tick
<1>8. CASE Delete
  BY <1>8 DEF Delete
<1>4. CASE ForgetInstance
  BY <1>4 DEF ForgetInstance, DropMemory
<1>5. CASE Add
  BY <1>5 DEF Add, NoLedger
<1>6. CASE Restart
  <2>1. \A x \in DOMAIN ledger : Charged(x) \in Nat
    <3>1. \A x : IsFiniteSet(InFlight(x))
      BY CallAssumption, FS_Subset DEF InFlight
    <3>2. \A x : Cardinality(InFlight(x)) \in Nat
      BY <3>1, FS_CardinalityType
    <3> QED BY <3>2 DEF Charged
  <2> QED BY <1>6, <2>1, IdleCallFacts DEF Restart, DropMemory
<1>7. CASE UNCHANGED vars
  BY <1>7 DEF vars
<1> QED BY <1>1, <1>2, <1>3, <1>4, <1>5, <1>6, <1>7, <1>8, <1>9 DEF Next

-----------------------------------------------------------------------------
(* What counting under key starts from, when nothing is excused: exactly the *)
(* units already charged under it.                                          *)
LEMMA RollFacts ==
  ASSUME BInv, Good, NEW k \in Loaded, NEW key \in Key, Roll(k, key), excused' = {}
  PROVE  /\ k = Effective /\ k \in Counter
         /\ DOMAIN ledger' = DOMAIN ledger \cup {key}
         /\ \A x \in DOMAIN ledger : ledger'[x] = ledger[x]
         /\ Rolled(k, key).count = ledger'[key] + Cardinality(InFlight(key))
         /\ Rolled(k, key).exhausted <=> key \in spent
         /\ key \notin DOMAIN ledger => Rolled(k, key).count = 0
<1> USE DEF BInv, Good
<1>1. k = Effective /\ k \in Counter
  BY LoadFacts DEF Roll
<1>2. DOMAIN ledger' = DOMAIN ledger \cup {key} /\ \A x \in DOMAIN ledger : ledger'[x] = ledger[x]
  BY DEF Roll
<1>3. CASE k.period = key
  <2>1. Effective.period # NoPeriod
    BY <1>1, <1>3, AbsentAssumption
  <2>2. key \in DOMAIN ledger /\ k.count = Charged(key) /\ (k.exhausted <=> key \in spent)
    BY <1>1, <1>3, <2>1 DEF CounterIsExact
  <2> QED BY <1>1, <1>2, <1>3, <2>2, RolledFacts DEF Charged
<1>4. CASE k.period # key
  <2>1. key \notin DOMAIN ledger
    BY <1>4 DEF Roll
  <2>2. ledger'[key] = 0 /\ key \notin spent
    BY <2>1 DEF Roll
  <2>3. InFlight(key) = {}
    BY <2>1 DEF InFlight, CallOk
  <2>4. Cardinality(InFlight(key)) = 0
    BY <2>3, FS_EmptySet
  <2>5. Rolled(k, key).count = 0 /\ Rolled(k, key).exhausted = FALSE
    BY <1>1, <1>4, RolledFacts, FreshFacts
  <2> QED BY <1>1, <1>2, <2>1, <2>2, <2>4, <2>5
<1> QED BY <1>3, <1>4

(* A step that charges nothing and leaves the counter in force alone. *)
LEMMA ChargesKept ==
  ASSUME CounterIsExact, WithinLimit, UNCHANGED <<spent>>, Good' => Good,
         Good' => Effective' = Effective /\ DOMAIN ledger' = DOMAIN ledger,
         Good' => \A x \in DOMAIN ledger : Charged(x)' = Charged(x)
  PROVE  CounterIsExact' /\ WithinLimit'
<1> SUFFICES ASSUME Good' PROVE CounterIsExact' /\ WithinLimit'
  BY DEF CounterIsExact, WithinLimit, Good
<1>1. CounterIsExact'
  BY DEF CounterIsExact, Good
<1>2. WithinLimit'
  BY DEF WithinLimit, Good
<1> QED BY <1>1, <1>2

(* What is left to show once the calls are known to be in order. *)
LEMMA ServeStep == ASSUME BInv, TypeOK', NEW c \in Call, Serve(c) PROVE BInv'
<1> USE DEF BInv
<1>0. call[c] \in CallState /\ CallOk(c) /\ call \in [Call -> CallState]
  BY DEF TypeOK
<1>1. /\ \A d \in Call \ {c} : call'[d] = call[d]
      /\ excused \subseteq excused' /\ exists' = exists /\ (~exists' => disk' = NoRow)
  BY DEF Serve, Stamp, reserve, release, Answered, QuotaExceeded, MarkQuotaSpent, Persist, Roll, TypeOK
<1>2. Good' => Good
  BY <1>1 DEF Good
<1>3. \A x : c \notin InFlight(x) /\ c \notin InFlight(x)' =>
              Cardinality(InFlight(x))' = Cardinality(InFlight(x))
  BY <1>1, InFlightFacts
<1>4. ASSUME CallOk(c)', DOMAIN ledger \subseteq DOMAIN ledger' \/ ~Good',
             Good' => spent' \subseteq DOMAIN ledger',
             CounterIsExact', WithinLimit'
      PROVE  BInv'
  <2>1. \A d \in Call : CallOk(d)'
    BY <1>1, <1>2, <1>4 DEF CallOk
  <2> QED BY <1>1, <1>4, <2>1
<1>5. CASE Stamp(c)
  <2>1. UNCHANGED <<mem, disk, ledger, spent, excused>>
    BY <1>5 DEF Stamp
  <2>2. PICK plan \in Plan : call' = [call EXCEPT ![c] =
          [stage |-> "stamped", key |-> periodKey(clock, plan.unit), limit |-> plan.limit]]
    BY <1>5 DEF Stamp
  <2>3. periodKey(clock, plan.unit) \in Key /\ periodKey(clock, plan.unit).unit = plan.unit
    BY PlanAssumption, KeyFacts DEF TypeOK
  <2>4. call'[c].stage = "stamped" /\ call'[c].key = periodKey(clock, plan.unit)
        /\ call'[c].limit = plan.limit
    BY <1>0, <2>2
  <2>5. CallOk(c)'
    BY <2>3, <2>4 DEF CallOk
  <2>6. \A x : c \notin InFlight(x) /\ c \notin InFlight(x)'
    BY <1>5, <2>4 DEF Stamp, InFlight
  <2>7. \A x : Charged(x)' = Charged(x)
    BY <1>3, <2>1, <2>6 DEF Charged
  <2>8. Effective' = Effective
    BY <2>1 DEF Effective, Durable
  <2> QED BY <1>2, <1>4, <2>1, <2>5, <2>7, <2>8, ChargesKept
<1>6. CASE reserve(c)
  <2>a. PICK key : key = call[c].key
    OBVIOUS
  <2> DEFINE rolled(k) == Rolled(k, key)
             allow(k) == Allowed(rolled(k), call[c].limit)
             next(k) == IF allow(k) THEN [rolled(k) EXCEPT !.count = @ + 1] ELSE rolled(k)
  <2>0. key \in Key /\ call[c].stage = "stamped" /\ spent' = spent
        /\ \E plan \in Plan : plan.unit = key.unit /\ plan.limit = call[c].limit
    BY <1>0, <1>6, <2>a DEF reserve, CallOk
  <2>1. PICK k \in Loaded :
          /\ mem' = next(k) /\ Roll(k, key)
          /\ call' = [call EXCEPT ![c] = IF allow(k) THEN [@ EXCEPT !.stage = "granted"] ELSE IdleCall]
    BY <1>6, <2>a DEF reserve
  <2>2. rolled(k) \in Counter /\ rolled(k).period = key
    BY <2>0, LoadFacts, RolledFacts
  <2>3. next(k) \in Counter /\ next(k).period = key /\ next(k).exhausted = rolled(k).exhausted
        /\ next(k).count = IF allow(k) THEN rolled(k).count + 1 ELSE rolled(k).count
    BY <2>2 DEF Counter
  <2>4. IF allow(k) THEN call'[c].stage = "granted" /\ call'[c].key = key
                    ELSE call'[c].stage = "idle"
    BY <1>0, <2>1, <2>a, IdleCallFacts
  <2>5. DOMAIN ledger' = DOMAIN ledger \cup {key}
    BY <2>1 DEF Roll
  <2>6. CallOk(c)'
    BY <2>0, <2>4, <2>5 DEF CallOk
  <2>7. \A x : c \notin InFlight(x) /\ (c \in InFlight(x)' <=> allow(k) /\ x = key)
    BY <2>0, <2>4 DEF InFlight
  <2>8. Effective' = next(k)
    BY <2>1, <2>3, AbsentAssumption DEF Effective
  <2> HIDE DEF rolled, allow, next
  <2>9. ASSUME Good' PROVE CounterIsExact' /\ WithinLimit'
    <3>1. Good /\ excused' = {}
      BY <1>2, <2>9 DEF Good
    <3>2. /\ \A x \in DOMAIN ledger : ledger'[x] = ledger[x]
          /\ rolled(k).count = ledger'[key] + Cardinality(InFlight(key))
          /\ rolled(k).exhausted <=> key \in spent
          /\ key \notin DOMAIN ledger => rolled(k).count = 0
      BY <2>0, <2>1, <3>1, RollFacts DEF rolled
    <3>3. Cardinality(InFlight(key))' =
            IF allow(k) THEN Cardinality(InFlight(key)) + 1 ELSE Cardinality(InFlight(key))
      BY <1>1, <2>7, InFlightFacts
    <3>4. ledger'[key] \in Nat /\ Cardinality(InFlight(key)) \in Nat
      BY <1>1, <2>5, InFlightFacts DEF TypeOK
    <3>5. Charged(key)' = next(k).count
      BY <2>3, <3>2, <3>3, <3>4 DEF Charged
    <3>6. CounterIsExact'
      BY <2>0, <2>3, <2>5, <2>8, <3>2, <3>5 DEF CounterIsExact
    <3>7. ASSUME NEW x \in DOMAIN ledger', Limited(x.unit), Charged(x)' > 0
          PROVE  \E plan \in Plan : plan.unit = x.unit /\ Charged(x)' <= plan.limit
      <4>1. CASE x # key
        <5>1. x \in DOMAIN ledger /\ Charged(x)' = Charged(x)
          BY <1>3, <2>5, <2>7, <3>2, <4>1 DEF Charged
        <5> QED BY <3>1, <3>7, <5>1 DEF WithinLimit, Good
      <4>2. CASE x = key /\ allow(k)
        <5>1. PICK plan \in Plan : plan.unit = key.unit /\ plan.limit = call[c].limit
          BY <2>0
        <5>2. plan.limit # NoLimit /\ plan.limit \in Nat
          BY <3>7, <4>2, <5>1, PlanAssumption DEF Limited, Limit
        <5>3. rolled(k).count < plan.limit /\ rolled(k).count \in Nat
          BY <2>2, <4>2, <5>1, <5>2 DEF allow, Allowed, Counter
        <5>4. Charged(x)' <= plan.limit
          BY <2>3, <3>5, <4>2, <5>2, <5>3
        <5> QED BY <4>2, <5>1, <5>4
      <4>3. CASE x = key /\ ~allow(k)
        <5>1. key \in DOMAIN ledger
          BY <2>3, <3>2, <3>5, <3>7, <4>3
        <5>2. Charged(x)' = Charged(x)
          BY <3>2, <3>3, <4>3, <5>1 DEF Charged
        <5> QED BY <3>1, <3>7, <4>3, <5>1, <5>2 DEF WithinLimit, Good
      <4> QED BY <4>1, <4>2, <4>3
    <3>8. WithinLimit'
      BY <3>7 DEF WithinLimit, Limited
    <3> QED BY <3>6, <3>8
  <2>10. CounterIsExact' /\ WithinLimit'
    BY <2>9 DEF CounterIsExact, WithinLimit, Good
  <2> QED BY <1>2, <1>4, <2>0, <2>5, <2>6, <2>10
<1>7. CASE release(c)
  <2>a. PICK key : key = call[c].key
    OBVIOUS
  <2> DEFINE next(k) == IF Refunds(k, key) THEN [k EXCEPT !.count = @ - 1] ELSE k
  <2>0. call[c].stage = "granted" /\ UNCHANGED <<ledger, spent>> /\ call'[c].stage = "idle"
        /\ key \in Key /\ (Good => key \in DOMAIN ledger)
    BY <1>0, <1>7, <2>a, IdleCallFacts DEF release, CallOk
  <2>1. PICK k \in Loaded : mem' = next(k) /\ excused' = excused \cup Lost(k)
    BY <1>7, <2>a DEF release
  <2>2. k \in Counter
    BY LoadFacts
  <2>3. CallOk(c)'
    BY <2>0 DEF CallOk
  <2>4. \A x : c \notin InFlight(x)' /\ (c \in InFlight(x) <=> x = key)
    BY <2>0, <2>a DEF InFlight
  <2>5. next(k) \in Counter /\ next(k).period = k.period /\ next(k).exhausted = k.exhausted
        /\ next(k).count = IF Refunds(k, key) THEN k.count - 1 ELSE k.count
    BY <2>2 DEF Counter, Refunds
  <2>6. Effective' = next(k)
    BY <2>1, <2>5, AbsentAssumption DEF Effective
  <2> HIDE DEF next
  <2>7. ASSUME Good' PROVE CounterIsExact' /\ WithinLimit'
    <3>1. Good /\ k = Effective
      BY <1>2, <2>1, <2>7, LoadFacts DEF Good
    <3>2. /\ Cardinality(InFlight(key)) \in Nat /\ Cardinality(InFlight(key)) > 0
          /\ Cardinality(InFlight(key))' = Cardinality(InFlight(key)) - 1
      BY <1>1, <2>4, InFlightFacts
    <3>3. ledger[key] \in Nat
      BY <2>0, <3>1 DEF TypeOK
    <3>4. Charged(key)' = Charged(key) - 1 /\ Charged(key) \in Nat /\ Charged(key) > 0
      BY <2>0, <3>2, <3>3 DEF Charged
    <3>5. \A x : x # key => Charged(x)' = Charged(x)
      BY <1>3, <2>0, <2>4 DEF Charged
    <3>6. CounterIsExact'
      <4> SUFFICES ASSUME k.period # NoPeriod
                   PROVE  /\ k.period \in DOMAIN ledger
                          /\ next(k).count = Charged(k.period)'
                          /\ next(k).exhausted <=> k.period \in spent
        BY <2>0, <2>5, <2>6 DEF CounterIsExact
      <4>1. k.period \in DOMAIN ledger /\ k.count = Charged(k.period)
            /\ (k.exhausted <=> k.period \in spent)
        BY <3>1 DEF CounterIsExact, Good
      <4>2. CASE k.period = key
        BY <2>5, <3>4, <4>1, <4>2 DEF Refunds
      <4>3. CASE k.period # key
        BY <2>5, <3>5, <4>1, <4>3 DEF Refunds
      <4> QED BY <4>2, <4>3
    <3>7. ASSUME NEW x \in DOMAIN ledger, Limited(x.unit), Charged(x)' > 0
          PROVE  \E plan \in Plan : plan.unit = x.unit /\ Charged(x)' <= plan.limit
      <4>1. CASE x = key
        <5>1. PICK plan \in Plan : plan.unit = x.unit /\ Charged(x) <= plan.limit
          BY <3>1, <3>4, <3>7, <4>1 DEF WithinLimit, Good
        <5>2. plan.limit \in Nat
          BY <3>7, <5>1, PlanAssumption DEF Limited, Limit
        <5> QED BY <3>4, <4>1, <5>1, <5>2
      <4>2. CASE x # key
        BY <3>1, <3>5, <3>7, <4>2 DEF WithinLimit, Good
      <4> QED BY <4>1, <4>2
    <3>8. WithinLimit'
      BY <2>0, <3>7 DEF WithinLimit, Limited
    <3> QED BY <3>6, <3>8
  <2>8. CounterIsExact' /\ WithinLimit'
    BY <2>7 DEF CounterIsExact, WithinLimit, Good
  <2> QED BY <1>2, <1>4, <2>0, <2>3, <2>8
<1>8. CASE Answered(c) \/ QuotaExceeded(c)
  <2>a. PICK key : key = call[c].key
    OBVIOUS
  <2>0. /\ call[c].stage = "granted" /\ UNCHANGED <<mem, disk, spent, excused>>
        /\ ledger' = Spend(key) /\ key \in Key /\ (Good => key \in DOMAIN ledger)
    BY <1>0, <1>8, <2>a DEF Answered, QuotaExceeded, CallOk
  <2>1. call'[c].stage \in {"idle", "refused"}
    <3>1. CASE Answered(c)
      BY <1>0, <3>1, IdleCallFacts DEF Answered
    <3>2. CASE QuotaExceeded(c)
      BY <1>0, <3>2 DEF QuotaExceeded
    <3> QED BY <1>8, <3>1, <3>2
  <2>2. CallOk(c)'
    <3>1. CASE Answered(c)
      BY <1>0, <3>1, IdleCallFacts DEF Answered, CallOk
    <3>2. CASE QuotaExceeded(c)
      <4>1. periodKey(clock, key.unit) \in Key
        BY <2>0, KeyFacts DEF Key, TypeOK
      <4>2. call'[c].stage = "refused" /\ call'[c].key = periodKey(clock, key.unit)
        BY <1>0, <3>2, <2>a DEF QuotaExceeded
      <4> QED BY <4>1, <4>2 DEF CallOk
    <3> QED BY <1>8, <3>1, <3>2
  <2>3. \A x : c \notin InFlight(x)' /\ (c \in InFlight(x) <=> x = key)
    BY <2>0, <2>1, <2>a DEF InFlight
  <2>4. DOMAIN ledger' = DOMAIN ledger
    BY <2>0 DEF Spend
  <2>5. ASSUME Good', NEW x \in DOMAIN ledger PROVE Charged(x)' = Charged(x)
    <3>1. CASE x = key
      <4>1. ledger'[x] = ledger[x] + 1 /\ ledger[x] \in Nat
        BY <2>0, <3>1 DEF Spend, TypeOK
      <4>2. Cardinality(InFlight(x))' = Cardinality(InFlight(x)) - 1
            /\ Cardinality(InFlight(x)) \in Nat
        BY <1>1, <2>3, <3>1, InFlightFacts
      <4> QED BY <4>1, <4>2 DEF Charged
    <3>2. CASE x # key
      BY <1>3, <2>0, <2>3, <3>2 DEF Charged, Spend
    <3> QED BY <3>1, <3>2
  <2>6. Effective' = Effective
    BY <2>0 DEF Effective, Durable
  <2>7. CounterIsExact' /\ WithinLimit'
    BY <1>2, <2>0, <2>4, <2>5, <2>6, ChargesKept
  <2> QED BY <1>2, <1>4, <2>0, <2>2, <2>4, <2>7
<1>9. CASE MarkQuotaSpent(c)
  <2>a. PICK key : key = call[c].key
    OBVIOUS
  <2> DEFINE next(k) == [Rolled(k, key) EXCEPT !.exhausted = TRUE]
  <2>0. key \in Key /\ call[c].stage = "refused" /\ spent' = spent \cup {key}
        /\ call'[c].stage = "idle"
    BY <1>0, <1>9, <2>a, IdleCallFacts DEF MarkQuotaSpent, CallOk
  <2>1. PICK k \in Loaded : mem' = next(k) /\ Roll(k, key)
    BY <1>9, <2>a DEF MarkQuotaSpent
  <2>2. Rolled(k, key) \in Counter /\ Rolled(k, key).period = key
    BY <2>0, LoadFacts, RolledFacts
  <2>3. next(k) \in Counter /\ next(k).period = key /\ next(k).exhausted = TRUE
        /\ next(k).count = Rolled(k, key).count
    BY <2>2 DEF Counter
  <2>4. DOMAIN ledger' = DOMAIN ledger \cup {key}
    BY <2>1 DEF Roll
  <2>5. CallOk(c)'
    BY <2>0 DEF CallOk
  <2>6. \A x : c \notin InFlight(x) /\ c \notin InFlight(x)'
    BY <2>0 DEF InFlight
  <2>7. Effective' = next(k)
    BY <2>1, <2>3, AbsentAssumption DEF Effective
  <2> HIDE DEF next
  <2>8. ASSUME Good' PROVE CounterIsExact' /\ WithinLimit'
    <3>1. Good /\ excused' = {}
      BY <1>2, <2>8 DEF Good
    <3>2. /\ \A x \in DOMAIN ledger : ledger'[x] = ledger[x]
          /\ Rolled(k, key).count = ledger'[key] + Cardinality(InFlight(key))
          /\ key \notin DOMAIN ledger => Rolled(k, key).count = 0
      BY <2>0, <2>1, <3>1, RollFacts
    <3>3. \A x : Charged(x)' = ledger'[x] + Cardinality(InFlight(x))
      BY <1>3, <2>6 DEF Charged
    <3>4. CounterIsExact'
      BY <2>0, <2>3, <2>4, <2>7, <3>2, <3>3 DEF CounterIsExact
    <3>5. ASSUME NEW x \in DOMAIN ledger', Limited(x.unit), Charged(x)' > 0
          PROVE  \E plan \in Plan : plan.unit = x.unit /\ Charged(x)' <= plan.limit
      <4>1. x \in DOMAIN ledger
        BY <2>4, <3>2, <3>3, <3>5
      <4>2. Charged(x)' = Charged(x)
        BY <3>2, <3>3, <4>1 DEF Charged
      <4> QED BY <3>1, <3>5, <4>1, <4>2 DEF WithinLimit, Good
    <3>6. WithinLimit'
      BY <3>5 DEF WithinLimit, Limited
    <3> QED BY <3>4, <3>6
  <2>9. CounterIsExact' /\ WithinLimit'
    BY <2>8 DEF CounterIsExact, WithinLimit, Good
  <2> QED BY <1>2, <1>4, <2>0, <2>4, <2>5, <2>9
<1> QED BY <1>5, <1>6, <1>7, <1>8, <1>9 DEF Serve

-----------------------------------------------------------------------------
(* The steps that serve no call. *)
LEMMA QuietStep ==
  ASSUME BInv, TypeOK', UNCHANGED <<call, ledger, spent>>, exists' => exists,
         ~exists' => disk' = NoRow, excused \subseteq excused',
         Good' => Effective' = Effective
  PROVE  BInv'
<1> USE DEF BInv
<1>1. Good' => Good
  BY DEF Good
<1>2. \A x : Charged(x)' = Charged(x)
  BY DEF Charged, InFlight
<1>3. CounterIsExact' /\ WithinLimit'
  BY <1>1, <1>2, ChargesKept
<1>4. \A c \in Call : CallOk(c)'
  BY <1>1 DEF CallOk
<1>5. Good' => spent' \subseteq DOMAIN ledger'
  BY <1>1
<1> QED BY <1>3, <1>4, <1>5

LEMMA AddStep == ASSUME BInv, TypeOK', Add PROVE BInv'
<1> USE DEF BInv
<1>1. /\ ledger' = NoLedger /\ spent' = {} /\ UNCHANGED <<mem, disk, call>>
      /\ exists' = TRUE /\ disk = NoRow
  BY DEF Add
<1>2. DOMAIN ledger' = {}
  BY <1>1 DEF NoLedger
<1>3. Good' => mem = NotLoaded /\ \A c \in Call : call[c].stage = "idle"
  BY DEF Add, Good
<1>4. Good' => Effective'.period = NoPeriod
  BY <1>1, <1>3, FreshFacts DEF Effective, Durable
<1>5. CounterIsExact'
  BY <1>4 DEF CounterIsExact, Good
<1>6. WithinLimit'
  BY <1>2 DEF WithinLimit
<1>7. \A c \in Call : CallOk(c)'
  BY <1>1, <1>3 DEF CallOk
<1> QED BY <1>1, <1>5, <1>6, <1>7

LEMMA RestartStep == ASSUME BInv, TypeOK', Restart PROVE BInv'
<1> USE DEF BInv
<1>1. /\ UNCHANGED <<disk, exists, spent>> /\ mem' = NotLoaded
      /\ ledger' = [x \in DOMAIN ledger |-> Charged(x)]
      /\ call' = [c \in Call |-> IdleCall]
      /\ excused \subseteq excused'
      /\ Good' => mem \in {NotLoaded, Durable}
  BY DEF Restart, DropMemory, Good
<1>2. Good' => Good
  BY <1>1 DEF Good
<1>3. \A c \in Call : call'[c].stage = "idle"
  BY <1>1, IdleCallFacts
<1>4. \A x : InFlight(x)' = {}
  BY <1>3 DEF InFlight
<1>5. \A x : Cardinality(InFlight(x)') = 0
  BY <1>4, FS_EmptySet
<1>6. ASSUME NEW x \in DOMAIN ledger PROVE Charged(x)' = Charged(x)
  <2>1. ledger'[x] = Charged(x) /\ ledger'[x] \in Nat
    BY <1>1 DEF TypeOK
  <2> QED BY <1>5, <2>1 DEF Charged
<1>7. Good' => Effective' = Effective
  BY <1>1 DEF Effective, Durable
<1>8. CounterIsExact' /\ WithinLimit'
  BY <1>1, <1>2, <1>6, <1>7, ChargesKept
<1>9. \A c \in Call : CallOk(c)'
  BY <1>3 DEF CallOk
<1> QED BY <1>1, <1>2, <1>8, <1>9

LEMMA BInvInit == Init => BInv
<1> SUFFICES ASSUME Init PROVE BInv
  OBVIOUS
<1>1. DOMAIN ledger = {} /\ disk = NoRow /\ mem = NotLoaded /\ spent = {}
  BY DEF Init, NoLedger
<1>2. \A c \in Call : call[c].stage = "idle"
  BY IdleCallFacts DEF Init
<1>3. Effective.period = NoPeriod
  BY <1>1, FreshFacts DEF Effective, Durable
<1>4. CounterIsExact /\ WithinLimit
  BY <1>1, <1>3 DEF CounterIsExact, WithinLimit
<1> QED BY <1>1, <1>2, <1>4, BudgetTypeInit DEF BInv, CallOk

LEMMA BInvStep == ASSUME BInv, [Next]_vars PROVE BInv'
<1>0. TypeOK'
  BY BudgetTypeStep DEF BInv
<1>1. ASSUME NEW c \in Call, Serve(c) PROVE BInv'
  BY <1>0, <1>1, ServeStep
<1>2. CASE Status
  <2>1. PICK k \in Loaded : mem' = k /\ excused' = excused \cup Lost(k)
    BY <1>2 DEF Status
  <2>2. k \in Counter /\ (Lost(k) = {} => k = Effective)
    BY LoadFacts DEF BInv
  <2>3. Good' => Effective' = Effective
    BY <2>1, <2>2, AbsentAssumption DEF Effective, Good
  <2> QED BY <1>0, <1>2, <2>1, <2>3, QuietStep DEF Status, BInv
<1>9. CASE OtherKind
  <2>1. PICK k \in Loaded : mem' = k /\ excused' = excused \cup Lost(k)
    BY <1>9 DEF OtherKind
  <2>2. k \in Counter /\ (Lost(k) = {} => k = Effective)
    BY LoadFacts DEF BInv
  <2>3. Good' => Effective' = Effective
    BY <2>1, <2>2, AbsentAssumption DEF Effective, Good
  <2> QED BY <1>0, <1>9, <2>1, <2>3, QuietStep DEF OtherKind, Persist, BInv
<1>3. CASE Tick
  <2>1. Effective' = Effective
    BY <1>3 DEF Tick, Effective, Durable
  <2> QED BY <1>0, <1>3, <2>1, QuietStep DEF Tick, BInv
<1>4. CASE Delete
  BY <1>0, <1>4, QuietStep DEF Delete, Good
<1>5. CASE ForgetInstance
  <2>1. Good' => Effective' = Effective
    BY <1>5 DEF ForgetInstance, DropMemory, Effective, Durable, Good
  <2>2. excused \subseteq excused'
    BY <1>5 DEF ForgetInstance, DropMemory
  <2> QED BY <1>0, <1>5, <2>1, <2>2, QuietStep DEF ForgetInstance, BInv
<1>6. CASE Add
  BY <1>0, <1>6, AddStep
<1>7. CASE Restart
  BY <1>0, <1>7, RestartStep
<1>8. CASE UNCHANGED vars
  <2>1. Effective' = Effective
    BY <1>8 DEF vars, Effective, Durable
  <2> QED BY <1>0, <1>8, <2>1, QuietStep DEF vars, BInv
<1> QED BY <1>1, <1>2, <1>3, <1>4, <1>5, <1>6, <1>7, <1>8, <1>9 DEF Next

LEMMA BInvHolds == Spec => []BInv
  BY BInvInit, BInvStep, PTL DEF Spec

(* Type correctness of the budget. *)
THEOREM BudgetTypeCorrect == Spec => []TypeOK
<1>1. BInv => TypeOK
  BY DEF BInv
<1> QED BY <1>1, BInvHolds, PTL

(* The counter is exact while no period is reopened, no write lost and no row *)
(* id recycled (reserve, release, MarkQuotaSpent).                           *)
THEOREM CounterExact == Spec => []CounterIsExact
<1>1. BInv => CounterIsExact
  BY DEF BInv
<1> QED BY <1>1, BInvHolds, PTL

(* No period is charged beyond the largest limit an engine was built with. *)
THEOREM LimitHolds == Spec => []WithinLimit
<1>1. BInv => WithinLimit
  BY DEF BInv
<1> QED BY <1>1, BInvHolds, PTL

(* Only reserve grants a unit. *)
LEMMA OnlyReserveGrants ==
  ASSUME TypeOK, [Next]_vars, NEW c \in Call,
         call[c].stage = "stamped", call'[c].stage = "granted"
  PROVE  reserve(c)
<1> USE DEF TypeOK
<1>1. ASSUME NEW d \in Call, Serve(d) PROVE reserve(c)
  <2>1. c = d
    BY <1>1 DEF Serve, Stamp, reserve, release, Answered, QuotaExceeded, MarkQuotaSpent
  <2> QED BY <1>1, <2>1 DEF Serve, Stamp, release, Answered, QuotaExceeded, MarkQuotaSpent
<1>2. ~Restart
  BY IdleCallFacts DEF Restart
<1>3. ~(Status \/ OtherKind \/ Tick \/ Delete \/ ForgetInstance \/ Add \/ UNCHANGED vars)
  BY DEF Status, OtherKind, Tick, Delete, ForgetInstance, Add, vars
<1> QED BY <1>1, <1>2, <1>3 DEF Next

(* Once the tracker declared a period spent, no unit of it is granted. *)
THEOREM LatchHolds == Spec => SpentIsFinal
<1> DEFINE Final(c) ==
       (call[c].stage = "stamped" /\ call'[c].stage = "granted" /\ exists /\ excused' = {})
         => call[c].key \notin spent
<1>1. ASSUME BInv, [Next]_vars, NEW c \in Call PROVE Final(c)
  <2> SUFFICES ASSUME call[c].stage = "stamped", call'[c].stage = "granted", exists, excused' = {}
               PROVE  call[c].key \notin spent
    OBVIOUS
  <2>1. reserve(c)
    BY <1>1, OnlyReserveGrants DEF BInv
  <2>2. PICK key : key = call[c].key
    OBVIOUS
  <2>3. key \in Key /\ call[c] \in CallState
    BY <1>1, <2>2 DEF BInv, CallOk, TypeOK
  <2>4. PICK k \in Loaded :
          /\ Roll(k, key)
          /\ call' = [call EXCEPT ![c] = IF Allowed(Rolled(k, key), call[c].limit)
                                         THEN [@ EXCEPT !.stage = "granted"] ELSE IdleCall]
    BY <2>1, <2>2 DEF reserve
  <2>5. Allowed(Rolled(k, key), call[c].limit)
    BY <1>1, <2>4, IdleCallFacts DEF BInv, TypeOK
  <2>6. Good
    BY <2>4 DEF Roll, Good
  <2>7. Rolled(k, key).exhausted <=> key \in spent
    BY <1>1, <2>3, <2>4, <2>6, RollFacts
  <2> QED BY <2>2, <2>5, <2>7 DEF Allowed
<1>2. BInv /\ [Next]_vars => [\A c \in Call : Final(c)]_vars
  BY <1>1
<1> QED BY <1>2, BInvHolds, PTL DEF Spec, SpentIsFinal

-----------------------------------------------------------------------------
(***************************************************************************)
(* CacheCounters, for any number of requests and indexers: the global total*)
(* of misses is the sum of the instances', and outside the races the code  *)
(* leaves open every miss that ended well is counted once.                 *)
(***************************************************************************)

(* Every lookup under way is of an indexer. *)
LookupsOk == \A t \in Lookup : lookup[t].pc # "idle" => lookup[t].inst \in Inst

(* A flush runs on totals that are complete; a deleted indexer has no row.  *)
StoreOk ==
  /\ persist.by = "flush" => countersRehydrated
  /\ persist.by = "rehydrate" => ~countersRehydrated
  /\ \A i \in Inst : ~alive[i] => countRows[i] = 0

(* During a reset the stored misses are given up, and an indexer it has not  *)
(* come to is still counted as before.                                      *)
Unswept(i) == persist.by = "reset" /\ i \in persist.todo
OwedNow(i) == IF persist.by = "reset" THEN 0 ELSE Owed(i)
ExactOf(i) == instMisses[i] + OwedNow(i) = done[i] + Underway(i)

(* As long as nothing raced, who takes a miss back counted it since the last *)
(* reset, who is to be forgotten is gone, and the retry holds the rows.      *)
ExactOk ==
  /\ \A i \in Inst : alive[i] /\ ~Unswept(i) => ExactOf(i)
  /\ \A t \in Lookup : lookup[t].pc \in {"failed", "undo"} => lookup[t].seen = resetEpoch
  /\ \A i \in dying : ~alive[i]
  /\ persist.by = "rehydrate" => \A i \in persist.todo : alive[i] => persist.rows[i] = countRows[i]

CountersInv == CountersTypeOK /\ LookupsOk /\ StoreOk /\ GlobalIsSum /\ (~raced => ExactOk)

-----------------------------------------------------------------------------
LEMMA CountMoves ==
  ASSUME NEW P \in SUBSET Lookup, NEW Q \in SUBSET Lookup, NEW t \in Lookup, P \ {t} = Q \ {t}
  PROVE  /\ Cardinality(P) \in Nat /\ Cardinality(Q) \in Nat
         /\ Cardinality(Q) = Cardinality(P) - (IF t \in P THEN 1 ELSE 0) + (IF t \in Q THEN 1 ELSE 0)
<1>1. IsFiniteSet(P) /\ IsFiniteSet(Q)
  BY CounterSets, FS_Subset
<1>2. Cardinality(P) \in Nat /\ Cardinality(Q) \in Nat
  BY <1>1, FS_CardinalityType
<1>3. /\ Cardinality(P \ {t}) = IF t \in P THEN Cardinality(P) - 1 ELSE Cardinality(P)
      /\ Cardinality(Q \ {t}) = IF t \in Q THEN Cardinality(Q) - 1 ELSE Cardinality(Q)
  BY <1>1, FS_RemoveElement
<1> QED BY <1>2, <1>3

LEMMA TotalFacts ==
  ASSUME NEW f \in [Inst -> Int]
  PROVE  Total(f) = SumOver(f, Inst) /\ Total(f) \in Int
<1>1. Total(f) = SumOver(f, DOMAIN f)
  BY FoldIsSum DEF Total, FoldFunction
<1>2. SumOver(f, Inst) \in Int
  BY CounterSets, SumFacts
<1> QED BY <1>1, <1>2

LEMMA TotalChanges ==
  ASSUME NEW f \in [Inst -> Int], NEW g \in [Inst -> Int], NEW i \in Inst,
         \A j \in Inst \ {i} : g[j] = f[j]
  PROVE  Total(g) = Total(f) - f[i] + g[i]
<1>1. SumOver(g, Inst) = SumOver(f, Inst) - f[i] + g[i]
  BY CounterSets, SumChanges
<1> QED BY <1>1, TotalFacts

LEMMA TotalOfZeros == Total([i \in Inst |-> 0]) = 0
<1> DEFINE zero == [i \in Inst |-> 0]
<1>1. zero \in [Inst -> Int] /\ \A i \in Inst : zero[i] = 0
  OBVIOUS
<1> HIDE DEF zero
<1>2. SumOver(zero, Inst) = 0
  BY <1>1, CounterSets, SumOfZeros
<1>3. Total(zero) = 0
  BY <1>1, <1>2, TotalFacts
<1> QED BY <1>3 DEF zero

-----------------------------------------------------------------------------
(* A lookup whose miss is in the total of its indexer, since the last reset. *)
Flying(l, i) ==
  l.inst = i /\ l.pc \in {"live", "failed", "undo"} /\ l.seen = resetEpoch
One(b) == IF b THEN 1 ELSE 0
Pending == IF persist.by = "rehydrate"
           THEN Total([i \in Inst |-> IF i \in persist.todo THEN 0 ELSE persist.rows[i]]) ELSE 0

LEMMA CountedFacts ==
  ASSUME CountersTypeOK
  PROVE  /\ At({"global"}) \in Nat /\ At({"undo"}) \in Nat
         /\ \A i \in Inst : Underway(i) \in Nat /\ OwedNow(i) \in Int
<1>1. \A P \in SUBSET Lookup : Cardinality(P) \in Nat
  BY CounterSets, FS_Subset, FS_CardinalityType
<1>2. At({"global"}) \in Nat /\ At({"undo"}) \in Nat
  BY <1>1 DEF At
<1>3. \A i \in Inst : Underway(i) \in Nat
  BY <1>1 DEF Underway, Under
<1> QED BY <1>2, <1>3 DEF OwedNow, Owed, CountersTypeOK

LEMMA PendingInt == CountersInv => Pending \in Int
<1> SUFFICES ASSUME CountersInv, persist.by = "rehydrate" PROVE Pending \in Int
  BY DEF Pending
<1> DEFINE part == [i \in Inst |-> IF i \in persist.todo THEN 0 ELSE persist.rows[i]]
<1>1. part \in [Inst -> Int]
  BY DEF CountersInv, CountersTypeOK
<1>2. Pending = Total(part)
  BY DEF Pending
<1> HIDE DEF part
<1> QED BY <1>1, <1>2, TotalFacts

(* What one lookup does changes the counts by what it is and was itself.    *)
LEMMA LookupMoves ==
  ASSUME CountersInv, NEW t \in Lookup, NEW l \in LookupState,
         l.pc # "idle" => l.inst \in Inst,
         lookup' = [lookup EXCEPT ![t] = l],
         UNCHANGED <<alive, dying, countRows, resetEpoch, countersRehydrated, persist, boots, adds>>
  PROVE  /\ lookup' \in [Lookup -> LookupState] /\ LookupsOk' /\ StoreOk'
         /\ At({"global"})' = At({"global"}) - One(lookup[t].pc = "global") + One(l.pc = "global")
         /\ At({"undo"})' = At({"undo"}) - One(lookup[t].pc = "undo") + One(l.pc = "undo")
         /\ Pending' = Pending
         /\ \A i \in Inst :
              /\ Underway(i)' = Underway(i) - One(Flying(lookup[t], i)) + One(Flying(l, i))
              /\ OwedNow(i)' = OwedNow(i) /\ Unswept(i)' = Unswept(i)
<1>1. lookup' \in [Lookup -> LookupState] /\ lookup'[t] = l /\ \A u \in Lookup \ {t} : lookup'[u] = lookup[u]
  BY DEF CountersInv, CountersTypeOK
<1>2. LookupsOk' /\ StoreOk'
  BY <1>1 DEF CountersInv, LookupsOk, StoreOk
<1>3. ASSUME NEW p \in {"global", "undo"}
      PROVE  At({p})' = At({p}) - One(lookup[t].pc = p) + One(l.pc = p)
  <2> DEFINE P == {u \in Lookup : lookup[u].pc \in {p}}
             Q == {u \in Lookup : lookup'[u].pc \in {p}}
  <2>1. P \in SUBSET Lookup /\ Q \in SUBSET Lookup /\ P \ {t} = Q \ {t}
    BY <1>1
  <2>2. (t \in P <=> lookup[t].pc = p) /\ (t \in Q <=> l.pc = p)
    BY <1>1
  <2> HIDE DEF P, Q
  <2>3. Cardinality(Q) = Cardinality(P) - (IF t \in P THEN 1 ELSE 0) + (IF t \in Q THEN 1 ELSE 0)
    BY <2>1, CountMoves
  <2>4. At({p}) = Cardinality(P) /\ At({p})' = Cardinality(Q)
    BY DEF At, P, Q
  <2> QED BY <2>2, <2>3, <2>4 DEF One
<1>4. ASSUME NEW i \in Inst
      PROVE  Underway(i)' = Underway(i) - One(Flying(lookup[t], i)) + One(Flying(l, i))
  <2> DEFINE P == {u \in Lookup : Flying(lookup[u], i)}
             Q == {u \in Lookup : Flying(lookup'[u], i)}
  <2>1. P \in SUBSET Lookup /\ Q \in SUBSET Lookup /\ P \ {t} = Q \ {t}
    BY <1>1
  <2>2. (t \in P <=> Flying(lookup[t], i)) /\ (t \in Q <=> Flying(l, i))
    BY <1>1
  <2>3. Underway(i) = Cardinality(P) /\ Underway(i)' = Cardinality(Q)
    <3>1. P = {u \in Under(i) : lookup[u].pc \in {"live", "failed", "undo"} /\ lookup[u].seen = resetEpoch}
      BY DEF Under, Flying
    <3>2. Q = {u \in Under(i)' : lookup'[u].pc \in {"live", "failed", "undo"} /\ lookup'[u].seen = resetEpoch'}
      BY DEF Under, Flying
    <3> HIDE DEF P, Q
    <3> QED BY <3>1, <3>2 DEF Underway
  <2> HIDE DEF P, Q
  <2>4. Cardinality(Q) = Cardinality(P) - (IF t \in P THEN 1 ELSE 0) + (IF t \in Q THEN 1 ELSE 0)
    BY <2>1, CountMoves
  <2> QED BY <2>2, <2>3, <2>4 DEF One
<1>5. /\ Pending' = Pending
      /\ \A i \in Inst : OwedNow(i)' = OwedNow(i) /\ Unswept(i)' = Unswept(i)
  BY DEF Pending, OwedNow, Owed, Unswept
<1> QED BY <1>1, <1>2, <1>3, <1>4, <1>5

LEMMA SumIs ==
  /\ GlobalIsSum <=> misses = Total(instMisses) + At({"global"}) - At({"undo"}) - Pending
  /\ GlobalIsSum' <=>
       misses' = Total(instMisses') + At({"global"})' - At({"undo"})' - Pending'
<1>1. GlobalIsSum <=> misses = Total(instMisses) + At({"global"}) - At({"undo"}) - Pending
  BY DEF GlobalIsSum, Pending
<1>2. GlobalIsSum' <=> misses' = Total(instMisses') + At({"global"})' - At({"undo"})' - Pending'
  BY DEF GlobalIsSum, Pending
<1> QED BY <1>1, <1>2

-----------------------------------------------------------------------------
LEMMA LoadEpochStep ==
  ASSUME CountersInv, NEW t \in Lookup, NEW i \in Inst, LoadEpoch(t, i)
  PROVE  CountersInv'
<1> DEFINE l == [pc |-> "start", inst |-> i, seen |-> resetEpoch]
<1>1. l \in LookupState /\ l.pc = "start" /\ l.inst = i
  BY DEF LookupState, CountersInv, CountersTypeOK
<1>2. /\ lookup[t].pc = "idle" /\ lookup' = [lookup EXCEPT ![t] = l]
      /\ UNCHANGED <<alive, dying, boots, adds, countRows, misses, instMisses, resetEpoch,
                     countersRehydrated, persist, done, raced>>
  BY DEF LoadEpoch, rowVars
<1> HIDE DEF l
<1>3. /\ lookup' \in [Lookup -> LookupState] /\ LookupsOk' /\ StoreOk'
      /\ At({"global"})' = At({"global"}) - One(lookup[t].pc = "global") + One(l.pc = "global")
      /\ At({"undo"})' = At({"undo"}) - One(lookup[t].pc = "undo") + One(l.pc = "undo")
      /\ Pending' = Pending
      /\ \A j \in Inst :
           /\ Underway(j)' = Underway(j) - One(Flying(lookup[t], j)) + One(Flying(l, j))
           /\ OwedNow(j)' = OwedNow(j) /\ Unswept(j)' = Unswept(j)
  BY <1>1, <1>2, LookupMoves
<1>4. CountersTypeOK'
  BY <1>2, <1>3 DEF CountersInv, CountersTypeOK
<1>5. At({"global"})' = At({"global"}) /\ At({"undo"})' = At({"undo"})
      /\ \A j \in Inst : Underway(j)' = Underway(j)
  BY <1>1, <1>2, <1>3, CountedFacts DEF One, Flying, CountersInv
<1>6. GlobalIsSum'
  BY <1>2, <1>3, <1>4, <1>5, SumIs DEF CountersInv
<1>7. ASSUME ~raced' PROVE ExactOk'
  <2>1. ExactOk
    BY <1>2, <1>7 DEF CountersInv
  <2>2. \A u \in Lookup : lookup'[u].pc \in {"failed", "undo"} => lookup'[u] = lookup[u]
    BY <1>1, <1>2 DEF CountersInv, CountersTypeOK
  <2> QED BY <1>2, <1>3, <1>5, <2>1, <2>2 DEF ExactOk, ExactOf
<1> QED BY <1>3, <1>4, <1>6, <1>7 DEF CountersInv

LEMMA CountGlobalStep ==
  ASSUME CountersInv, NEW t \in Lookup, CountGlobal(t)
  PROVE  CountersInv'
<1> DEFINE l == [lookup[t] EXCEPT !.pc = "global"]
<1>1. /\ lookup[t] \in LookupState /\ l \in LookupState /\ l.pc = "global"
      /\ l.inst \in Inst /\ l.inst = lookup[t].inst /\ lookup[t].pc = "start"
  BY DEF LookupState, CountersInv, CountersTypeOK, CountGlobal, LookupsOk
<1>2. /\ lookup' = [lookup EXCEPT ![t] = l] /\ misses' = misses + 1
      /\ UNCHANGED <<alive, dying, boots, adds, countRows, instMisses, resetEpoch,
                     countersRehydrated, persist, done, raced>>
  BY DEF CountGlobal, rowVars, Step
<1> HIDE DEF l
<1>3. /\ lookup' \in [Lookup -> LookupState] /\ LookupsOk' /\ StoreOk'
      /\ At({"global"})' = At({"global"}) - One(lookup[t].pc = "global") + One(l.pc = "global")
      /\ At({"undo"})' = At({"undo"}) - One(lookup[t].pc = "undo") + One(l.pc = "undo")
      /\ Pending' = Pending
      /\ \A j \in Inst :
           /\ Underway(j)' = Underway(j) - One(Flying(lookup[t], j)) + One(Flying(l, j))
           /\ OwedNow(j)' = OwedNow(j) /\ Unswept(j)' = Unswept(j)
  BY <1>1, <1>2, LookupMoves
<1>4. /\ At({"global"}) \in Nat /\ At({"undo"}) \in Nat
      /\ \A j \in Inst : Underway(j) \in Nat /\ OwedNow(j) \in Int
  BY CountedFacts DEF CountersInv
<1>5. CountersTypeOK'
  BY <1>2, <1>3 DEF CountersInv, CountersTypeOK
<1>6. GlobalIsSum'
  <2>1. /\ At({"global"})' = At({"global"}) + 1 /\ At({"undo"})' = At({"undo"})
        /\ Total(instMisses') = Total(instMisses) /\ misses \in Int /\ Total(instMisses) \in Int
        /\ misses = Total(instMisses) + At({"global"}) - At({"undo"}) - Pending
    BY <1>1, <1>2, <1>3, <1>4, TotalFacts, SumIs DEF One, CountersInv, CountersTypeOK
  <2> QED BY <1>2, <1>3, <1>4, <2>1, PendingInt, SumIs DEF CountersInv
<1>7. ASSUME ~raced' PROVE ExactOk'
  <2>1. ExactOk
    BY <1>2, <1>7 DEF CountersInv
  <2>2. \A u \in Lookup : lookup'[u].pc \in {"failed", "undo"} => lookup'[u] = lookup[u]
    BY <1>1, <1>2 DEF CountersInv, CountersTypeOK
  <2>3. \A j \in Inst : Underway(j)' = Underway(j)
    BY <1>1, <1>3, <1>4 DEF One, Flying
  <2> QED BY <1>2, <1>3, <2>1, <2>2, <2>3 DEF ExactOk, ExactOf
<1> QED BY <1>3, <1>5, <1>6, <1>7 DEF CountersInv

(* The miss of a lookup that loaded the epoch before a reset is swept yet,   *)
(* or it has raced.                                                         *)
LEMMA CountInstStep ==
  ASSUME CountersInv, NEW t \in Lookup, CountInst(t)
  PROVE  CountersInv'
<1> DEFINE l == [lookup[t] EXCEPT !.pc = "live"]
           i == lookup[t].inst
<1>1. /\ lookup[t] \in LookupState /\ l \in LookupState /\ l.pc = "live"
      /\ i \in Inst /\ l.inst = i /\ lookup[t].pc = "global" /\ l.seen = lookup[t].seen
  BY DEF LookupState, CountersInv, CountersTypeOK, CountInst, LookupsOk
<1>2. /\ lookup' = [lookup EXCEPT ![t] = l]
      /\ instMisses' = [instMisses EXCEPT ![i] = @ + 1]
      /\ raced' = (raced \/ (lookup[t].seen # resetEpoch /\ ~Unswept(i)))
      /\ UNCHANGED <<alive, dying, boots, adds, countRows, misses, resetEpoch,
                     countersRehydrated, persist, done>>
  BY DEF CountInst, rowVars, Step, Unswept
<1> HIDE DEF l, i
<1>3. /\ lookup' \in [Lookup -> LookupState] /\ LookupsOk' /\ StoreOk'
      /\ At({"global"})' = At({"global"}) - One(lookup[t].pc = "global") + One(l.pc = "global")
      /\ At({"undo"})' = At({"undo"}) - One(lookup[t].pc = "undo") + One(l.pc = "undo")
      /\ Pending' = Pending
      /\ \A j \in Inst :
           /\ Underway(j)' = Underway(j) - One(Flying(lookup[t], j)) + One(Flying(l, j))
           /\ OwedNow(j)' = OwedNow(j) /\ Unswept(j)' = Unswept(j)
  BY <1>1, <1>2, LookupMoves
<1>4. /\ At({"global"}) \in Nat /\ At({"undo"}) \in Nat
      /\ \A j \in Inst : Underway(j) \in Nat /\ OwedNow(j) \in Int
  BY CountedFacts DEF CountersInv
<1>5. CountersTypeOK' /\ instMisses' \in [Inst -> Int] /\ instMisses'[i] = instMisses[i] + 1
      /\ \A j \in Inst \ {i} : instMisses'[j] = instMisses[j]
  <2>1. raced' \in BOOLEAN
    BY <1>2 DEF CountersInv, CountersTypeOK
  <2> QED BY <1>1, <1>2, <1>3, <2>1 DEF CountersInv, CountersTypeOK
<1>6. GlobalIsSum'
  <2>1. Total(instMisses') = Total(instMisses) + 1 /\ Total(instMisses) \in Int
    <3>1. instMisses \in [Inst -> Int]
      BY DEF CountersInv, CountersTypeOK
    <3>2. Total(instMisses') = Total(instMisses) - instMisses[i] + instMisses'[i]
      BY <1>1, <1>5, <3>1, TotalChanges
    <3> QED BY <1>1, <1>5, <3>1, <3>2, TotalFacts
  <2>2. /\ At({"global"})' = At({"global"}) - 1 /\ At({"undo"})' = At({"undo"}) /\ misses \in Int
        /\ misses = Total(instMisses) + At({"global"}) - At({"undo"}) - Pending
    BY <1>1, <1>2, <1>3, <1>4, SumIs DEF One, CountersInv, CountersTypeOK
  <2> QED BY <1>2, <1>3, <1>4, <2>1, <2>2, PendingInt, SumIs DEF CountersInv
<1>7. ASSUME ~raced' PROVE ExactOk'
  <2>1. ExactOk /\ (lookup[t].seen # resetEpoch => Unswept(i))
    BY <1>2, <1>7 DEF CountersInv
  <2>2. \A u \in Lookup : lookup'[u].pc \in {"failed", "undo"} => lookup'[u] = lookup[u]
    BY <1>1, <1>2 DEF CountersInv, CountersTypeOK
  <2>3. ASSUME NEW j \in Inst, alive[j], ~Unswept(j)
        PROVE  ExactOf(j)'
    <3>1. ExactOf(j) /\ instMisses[j] \in Int /\ done[j] \in Int
      BY <2>1, <2>3 DEF ExactOk, CountersInv, CountersTypeOK
    <3>2. CASE j = i
      <4>1. Underway(j)' = Underway(j) + 1
        BY <1>1, <1>3, <1>4, <2>1, <2>3, <3>2 DEF One, Flying
      <4> QED BY <1>2, <1>3, <1>4, <1>5, <3>1, <3>2, <4>1 DEF ExactOf
    <3>3. CASE j # i
      <4>1. Underway(j)' = Underway(j)
        BY <1>1, <1>3, <1>4, <3>3 DEF One, Flying
      <4> QED BY <1>2, <1>3, <1>5, <3>1, <3>3, <4>1 DEF ExactOf
    <3> QED BY <3>2, <3>3
  <2> QED BY <1>2, <1>3, <2>1, <2>2, <2>3 DEF ExactOk
<1> QED BY <1>3, <1>5, <1>6, <1>7 DEF CountersInv

(* A miss that ended well counts as done, unless a reset has swept it.      *)
LEMMA LookupEndsStep ==
  ASSUME CountersInv, NEW t \in Lookup, LookupEnds(t)
  PROVE  CountersInv'
<1> DEFINE i == lookup[t].inst
           failed == [lookup[t] EXCEPT !.pc = "failed"]
<1>0. PICK l \in {IdleLookup, failed} :
        /\ lookup' = [lookup EXCEPT ![t] = l]
        /\ \/ ResetSince(t) /\ l = IdleLookup /\ UNCHANGED done
           \/ ~ResetSince(t) /\ l = IdleLookup /\ done' = [done EXCEPT ![i] = @ + 1]
           \/ ~ResetSince(t) /\ l = failed /\ UNCHANGED done
  BY DEF LookupEnds, Step
<1>1. /\ lookup[t] \in LookupState /\ l \in LookupState /\ (l.pc # "idle" => l.inst \in Inst)
      /\ i \in Inst /\ lookup[t].pc = "live" /\ l.pc \in {"idle", "failed"}
      /\ l = IdleLookup => l.pc = "idle"
      /\ l = failed => l.pc = "failed" /\ l.inst = i /\ l.seen = lookup[t].seen
  BY DEF LookupState, CountersInv, CountersTypeOK, LookupEnds, LookupsOk, IdleLookup
<1>2. /\ lookup' = [lookup EXCEPT ![t] = l]
      /\ UNCHANGED <<alive, dying, boots, adds, countRows, misses, instMisses, resetEpoch,
                     countersRehydrated, persist, raced>>
  BY <1>0 DEF LookupEnds, rowVars
<1> HIDE DEF i, failed
<1>3. /\ lookup' \in [Lookup -> LookupState] /\ LookupsOk' /\ StoreOk'
      /\ At({"global"})' = At({"global"}) - One(lookup[t].pc = "global") + One(l.pc = "global")
      /\ At({"undo"})' = At({"undo"}) - One(lookup[t].pc = "undo") + One(l.pc = "undo")
      /\ Pending' = Pending
      /\ \A j \in Inst :
           /\ Underway(j)' = Underway(j) - One(Flying(lookup[t], j)) + One(Flying(l, j))
           /\ OwedNow(j)' = OwedNow(j) /\ Unswept(j)' = Unswept(j)
  BY <1>1, <1>2, LookupMoves
<1>4. /\ At({"global"}) \in Nat /\ At({"undo"}) \in Nat
      /\ \A j \in Inst : Underway(j) \in Nat /\ OwedNow(j) \in Int
  BY CountedFacts DEF CountersInv
<1>5. CountersTypeOK'
  <2>1. done' \in [Inst -> Int]
    BY <1>0, <1>1 DEF CountersInv, CountersTypeOK
  <2> QED BY <1>2, <1>3, <2>1 DEF CountersInv, CountersTypeOK
<1>6. GlobalIsSum'
  <2>1. /\ At({"global"})' = At({"global"}) /\ At({"undo"})' = At({"undo"})
        /\ misses = Total(instMisses) + At({"global"}) - At({"undo"}) - Pending
    BY <1>1, <1>2, <1>3, <1>4, SumIs DEF One, CountersInv
  <2> QED BY <1>2, <1>3, <2>1, SumIs
<1>7. ASSUME ~raced' PROVE ExactOk'
  <2>1. ExactOk
    BY <1>2, <1>7 DEF CountersInv
  <2>2. \A u \in Lookup : lookup'[u].pc \in {"failed", "undo"} => lookup'[u].seen = resetEpoch'
    <3> SUFFICES ASSUME NEW u \in Lookup, lookup'[u].pc \in {"failed", "undo"}
                 PROVE  lookup'[u].seen = resetEpoch'
      OBVIOUS
    <3>1. CASE u = t
      BY <1>0, <1>1, <1>2, <3>1 DEF CountersInv, CountersTypeOK, ResetSince
    <3>2. CASE u # t
      BY <1>2, <2>1, <3>2 DEF CountersInv, CountersTypeOK, ExactOk
    <3> QED BY <3>1, <3>2
  <2>3. ASSUME NEW j \in Inst, alive[j], ~Unswept(j)
        PROVE  ExactOf(j)'
    <3>1. ExactOf(j) /\ instMisses[j] \in Int /\ done[j] \in Int /\ OwedNow(j) \in Int /\ Underway(j) \in Nat
      BY <1>4, <2>1, <2>3 DEF ExactOk, CountersInv, CountersTypeOK
    <3>2. done'[j] - Underway(j) = done[j] - Underway(j)'
      <4>1. CASE ResetSince(t) /\ l = IdleLookup /\ UNCHANGED done
        BY <1>1, <1>3, <3>1, <4>1 DEF One, Flying, ResetSince
      <4>2. CASE ~ResetSince(t) /\ l = IdleLookup /\ done' = [done EXCEPT ![i] = @ + 1]
        <5>1. CASE j = i
          <6>1. Flying(lookup[t], j) /\ ~Flying(l, j)
            BY <1>1, <4>2, <5>1 DEF Flying, ResetSince, i
          <6>2. done'[j] = done[j] + 1
            BY <4>2, <5>1 DEF CountersInv, CountersTypeOK
          <6> QED BY <1>3, <3>1, <6>1, <6>2 DEF One
        <5>2. CASE j # i
          <6>1. ~Flying(lookup[t], j) /\ ~Flying(l, j)
            BY <1>1, <4>2, <5>2 DEF Flying, i
          <6>2. done'[j] = done[j]
            BY <4>2, <5>2 DEF CountersInv, CountersTypeOK
          <6> QED BY <1>3, <3>1, <6>1, <6>2 DEF One
        <5> QED BY <5>1, <5>2
      <4>3. CASE ~ResetSince(t) /\ l = failed /\ UNCHANGED done
        <5>1. Flying(lookup[t], j) <=> Flying(l, j)
          BY <1>1, <4>3 DEF Flying, i
        <5> QED BY <1>3, <3>1, <4>3, <5>1 DEF One
      <4> QED BY <1>0, <4>1, <4>2, <4>3
    <3>3. Underway(j)' \in Int /\ done'[j] \in Int /\ instMisses'[j] = instMisses[j] /\ OwedNow(j)' = OwedNow(j)
      BY <1>2, <1>3, <1>5, <3>1 DEF One, CountersTypeOK
    <3> QED BY <3>1, <3>2, <3>3 DEF ExactOf
  <2> QED BY <1>2, <1>3, <2>1, <2>2, <2>3 DEF ExactOk
<1> QED BY <1>3, <1>5, <1>6, <1>7 DEF CountersInv

LEMMA UndoGlobalStep ==
  ASSUME CountersInv, NEW t \in Lookup, UndoGlobal(t)
  PROVE  CountersInv'
<1> DEFINE l == [lookup[t] EXCEPT !.pc = "undo"]
<1>1. /\ lookup[t] \in LookupState /\ l \in LookupState /\ l.pc = "undo" /\ l.seen = lookup[t].seen
      /\ l.inst \in Inst /\ l.inst = lookup[t].inst /\ lookup[t].pc = "failed"
  BY DEF LookupState, CountersInv, CountersTypeOK, UndoGlobal, LookupsOk
<1>2. /\ lookup' = [lookup EXCEPT ![t] = l] /\ misses' = misses - 1
      /\ UNCHANGED <<alive, dying, boots, adds, countRows, instMisses, resetEpoch,
                     countersRehydrated, persist, done, raced>>
  BY DEF UndoGlobal, rowVars, Step
<1> HIDE DEF l
<1>3. /\ lookup' \in [Lookup -> LookupState] /\ LookupsOk' /\ StoreOk'
      /\ At({"global"})' = At({"global"}) - One(lookup[t].pc = "global") + One(l.pc = "global")
      /\ At({"undo"})' = At({"undo"}) - One(lookup[t].pc = "undo") + One(l.pc = "undo")
      /\ Pending' = Pending
      /\ \A j \in Inst :
           /\ Underway(j)' = Underway(j) - One(Flying(lookup[t], j)) + One(Flying(l, j))
           /\ OwedNow(j)' = OwedNow(j) /\ Unswept(j)' = Unswept(j)
  BY <1>1, <1>2, LookupMoves
<1>4. /\ At({"global"}) \in Nat /\ At({"undo"}) \in Nat
      /\ \A j \in Inst : Underway(j) \in Nat /\ OwedNow(j) \in Int
  BY CountedFacts DEF CountersInv
<1>5. CountersTypeOK'
  BY <1>2, <1>3 DEF CountersInv, CountersTypeOK
<1>6. GlobalIsSum'
  <2>1. /\ At({"global"})' = At({"global"}) /\ At({"undo"})' = At({"undo"}) + 1
        /\ Total(instMisses') = Total(instMisses) /\ misses \in Int /\ Total(instMisses) \in Int
        /\ misses = Total(instMisses) + At({"global"}) - At({"undo"}) - Pending
    BY <1>1, <1>2, <1>3, <1>4, TotalFacts, SumIs DEF One, CountersInv, CountersTypeOK
  <2> QED BY <1>2, <1>3, <1>4, <2>1, PendingInt, SumIs DEF CountersInv
<1>7. ASSUME ~raced' PROVE ExactOk'
  <2>1. ExactOk
    BY <1>2, <1>7 DEF CountersInv
  <2>2. \A u \in Lookup : lookup'[u].pc \in {"failed", "undo"} => lookup'[u].seen = resetEpoch'
    BY <1>1, <1>2, <2>1 DEF CountersInv, CountersTypeOK, ExactOk
  <2>3. \A j \in Inst : Underway(j)' = Underway(j)
    BY <1>1, <1>3, <1>4 DEF One, Flying
  <2> QED BY <1>2, <1>3, <2>1, <2>2, <2>3 DEF ExactOk, ExactOf
<1> QED BY <1>3, <1>5, <1>6, <1>7 DEF CountersInv

LEMMA UndoInstStep ==
  ASSUME CountersInv, NEW t \in Lookup, UndoInst(t)
  PROVE  CountersInv'
<1> DEFINE l == IdleLookup
           i == lookup[t].inst
<1>1. /\ lookup[t] \in LookupState /\ l \in LookupState /\ l.pc = "idle"
      /\ i \in Inst /\ lookup[t].pc = "undo"
  BY DEF LookupState, CountersInv, CountersTypeOK, UndoInst, LookupsOk, IdleLookup
<1>2. /\ lookup' = [lookup EXCEPT ![t] = l]
      /\ instMisses' = [instMisses EXCEPT ![i] = @ - 1]
      /\ UNCHANGED <<alive, dying, boots, adds, countRows, misses, resetEpoch,
                     countersRehydrated, persist, done, raced>>
  BY DEF UndoInst, rowVars
<1> HIDE DEF l
<1>3. /\ lookup' \in [Lookup -> LookupState] /\ LookupsOk' /\ StoreOk'
      /\ At({"global"})' = At({"global"}) - One(lookup[t].pc = "global") + One(l.pc = "global")
      /\ At({"undo"})' = At({"undo"}) - One(lookup[t].pc = "undo") + One(l.pc = "undo")
      /\ Pending' = Pending
      /\ \A j \in Inst :
           /\ Underway(j)' = Underway(j) - One(Flying(lookup[t], j)) + One(Flying(l, j))
           /\ OwedNow(j)' = OwedNow(j) /\ Unswept(j)' = Unswept(j)
  BY <1>1, <1>2, LookupMoves
<1>4. /\ At({"global"}) \in Nat /\ At({"undo"}) \in Nat
      /\ \A j \in Inst : Underway(j) \in Nat /\ OwedNow(j) \in Int
  BY CountedFacts DEF CountersInv
<1>5. CountersTypeOK' /\ instMisses' \in [Inst -> Int] /\ instMisses'[i] = instMisses[i] - 1
      /\ \A j \in Inst \ {i} : instMisses'[j] = instMisses[j]
  BY <1>1, <1>2, <1>3 DEF CountersInv, CountersTypeOK
<1>6. GlobalIsSum'
  <2>1. Total(instMisses') = Total(instMisses) - 1 /\ Total(instMisses) \in Int
    <3>1. instMisses \in [Inst -> Int]
      BY DEF CountersInv, CountersTypeOK
    <3>2. Total(instMisses') = Total(instMisses) - instMisses[i] + instMisses'[i]
      BY <1>1, <1>5, <3>1, TotalChanges
    <3> QED BY <1>1, <1>5, <3>1, <3>2, TotalFacts
  <2>2. /\ At({"global"})' = At({"global"}) /\ At({"undo"})' = At({"undo"}) - 1 /\ misses \in Int
        /\ misses = Total(instMisses) + At({"global"}) - At({"undo"}) - Pending
    BY <1>1, <1>2, <1>3, <1>4, SumIs DEF One, CountersInv, CountersTypeOK
  <2> QED BY <1>2, <1>3, <1>4, <2>1, <2>2, PendingInt, SumIs DEF CountersInv
<1>7. ASSUME ~raced' PROVE ExactOk'
  <2>1. ExactOk /\ lookup[t].seen = resetEpoch
    BY <1>1, <1>2, <1>7 DEF CountersInv, ExactOk
  <2>2. \A u \in Lookup : lookup'[u].pc \in {"failed", "undo"} => lookup'[u] = lookup[u]
    BY <1>1, <1>2 DEF CountersInv, CountersTypeOK
  <2>3. ASSUME NEW j \in Inst, alive[j], ~Unswept(j)
        PROVE  ExactOf(j)'
    <3>1. ExactOf(j) /\ instMisses[j] \in Int /\ done[j] \in Int /\ OwedNow(j) \in Int /\ Underway(j) \in Nat
      BY <1>4, <2>1, <2>3 DEF ExactOk, CountersInv, CountersTypeOK
    <3>2. CASE j = i
      <4>1. Underway(j)' = Underway(j) - 1
        BY <1>1, <1>3, <1>4, <2>1, <3>2 DEF One, Flying
      <4> QED BY <1>2, <1>3, <1>4, <1>5, <3>1, <3>2, <4>1 DEF ExactOf
    <3>3. CASE j # i
      <4>1. Underway(j)' = Underway(j)
        BY <1>1, <1>3, <1>4, <3>3 DEF One, Flying
      <4> QED BY <1>2, <1>3, <1>5, <3>1, <3>3, <4>1 DEF ExactOf
    <3> QED BY <3>2, <3>3
  <2> QED BY <1>2, <1>3, <2>1, <2>2, <2>3 DEF ExactOk
<1> QED BY <1>3, <1>5, <1>6, <1>7 DEF CountersInv

-----------------------------------------------------------------------------
LEMMA CountsStand ==
  /\ UNCHANGED lookup => At({"global"})' = At({"global"}) /\ At({"undo"})' = At({"undo"})
  /\ UNCHANGED <<lookup, resetEpoch>> => \A i \in Inst : Underway(i)' = Underway(i)
BY DEF At, Underway, Under

LEMMA PersistTyped ==
  ASSUME CountersTypeOK
  PROVE  /\ persist \in [by : {Nobody, "rehydrate", "flush", "reset"}, todo : SUBSET Inst,
                         rows : [Inst -> Int], inst : Inst \cup {Nobody}]
         /\ Unlocked \in [by : {Nobody, "rehydrate", "flush", "reset"}, todo : SUBSET Inst,
                         rows : [Inst -> Int], inst : Inst \cup {Nobody}]
         /\ Unlocked.by = Nobody
BY DEF CountersTypeOK, Unlocked

LEMMA ResetBeginStep ==
  ASSUME CountersInv, ResetBegin
  PROVE  CountersInv'
<1>1. /\ persist.by = Nobody /\ resetEpoch' = resetEpoch + 1
      /\ persist' = [Unlocked EXCEPT !.by = "reset", !.todo = Inst]
      /\ raced' = (raced \/ \E t \in Lookup : lookup[t].pc \in {"failed", "undo"})
      /\ UNCHANGED <<alive, dying, boots, adds, countRows, misses, instMisses, countersRehydrated,
                     lookup, done>>
  BY DEF ResetBegin, rowVars
<1> HIDE DEF Unlocked
<1>2. CountersTypeOK' /\ persist'.by = "reset" /\ persist'.todo = Inst
  <2>1. /\ persist' \in [by : {Nobody, "rehydrate", "flush", "reset"}, todo : SUBSET Inst,
                         rows : [Inst -> Int], inst : Inst \cup {Nobody}]
        /\ persist'.by = "reset" /\ persist'.todo = Inst
    BY <1>1, PersistTyped DEF CountersInv
  <2>2. raced' \in BOOLEAN
    BY <1>1 DEF CountersInv, CountersTypeOK
  <2> QED BY <1>1, <2>1, <2>2 DEF CountersInv, CountersTypeOK
<1>3. Pending = 0 /\ Pending' = 0
  BY <1>1, <1>2, CounterNobody DEF Pending
<1>4. GlobalIsSum'
  BY <1>1, <1>3, CountsStand, SumIs DEF CountersInv
<1>5. LookupsOk' /\ StoreOk'
  BY <1>1, <1>2 DEF CountersInv, LookupsOk, StoreOk
<1>6. ASSUME ~raced' PROVE ExactOk'
  <2>1. ExactOk /\ \A t \in Lookup : lookup[t].pc \notin {"failed", "undo"}
    BY <1>1, <1>6 DEF CountersInv
  <2> QED BY <1>1, <1>2, <2>1 DEF ExactOk, Unswept
<1> QED BY <1>2, <1>4, <1>5, <1>6 DEF CountersInv

(* What a sweep or a deletion takes from an indexer it takes from the total. *)
LEMMA SweepFacts ==
  ASSUME CountersInv, NEW i \in Inst, Sweep(i)
  PROVE  /\ instMisses' \in [Inst -> Int] /\ instMisses'[i] = 0
         /\ \A j \in Inst \ {i} : instMisses'[j] = instMisses[j]
         /\ misses' \in Int
         /\ misses' - Total(instMisses') = misses - Total(instMisses)
         /\ Total(instMisses) \in Int /\ Total(instMisses') \in Int /\ misses \in Int
<1>1. instMisses \in [Inst -> Int] /\ misses \in Int
  BY DEF CountersInv, CountersTypeOK
<1>2. /\ instMisses' \in [Inst -> Int] /\ instMisses'[i] = 0
      /\ \A j \in Inst \ {i} : instMisses'[j] = instMisses[j]
      /\ misses' = misses - instMisses[i] /\ misses' \in Int
  BY <1>1 DEF Sweep, Forgotten
<1>3. Total(instMisses') = Total(instMisses) - instMisses[i] + instMisses'[i]
  BY <1>1, <1>2, TotalChanges
<1>4. Total(instMisses) \in Int /\ Total(instMisses') \in Int
  BY <1>1, <1>2, TotalFacts
<1> QED BY <1>1, <1>2, <1>3, <1>4

LEMMA ResetSweepStep ==
  ASSUME CountersInv, NEW i \in Inst, ResetSweep(i)
  PROVE  CountersInv'
<1>1. /\ persist.by = "reset" /\ i \in persist.todo
      /\ persist' = [persist EXCEPT !.todo = @ \ {i}]
      /\ Sweep(i) /\ done' = [done EXCEPT ![i] = 0]
      /\ raced' = (raced \/ \E t \in Under(i) : /\ lookup[t].seen = resetEpoch
                                                /\ lookup[t].pc \in {"live", "failed", "undo"})
      /\ UNCHANGED <<alive, dying, boots, adds, countRows, resetEpoch, countersRehydrated, lookup>>
  BY DEF ResetSweep, rowVars
<1>2. persist' \in [by : {Nobody, "rehydrate", "flush", "reset"}, todo : SUBSET Inst,
                    rows : [Inst -> Int], inst : Inst \cup {Nobody}]
      /\ persist'.by = "reset" /\ persist'.todo = persist.todo \ {i}
  BY <1>1, PersistTyped DEF CountersInv
<1>3. CountersTypeOK'
  <2>1. done' \in [Inst -> Int] /\ raced' \in BOOLEAN
    BY <1>1 DEF CountersInv, CountersTypeOK
  <2> QED BY <1>1, <1>2, <2>1, SweepFacts DEF CountersInv, CountersTypeOK
<1>4. Pending = 0 /\ Pending' = 0
  BY <1>1, <1>2 DEF Pending
<1>5. GlobalIsSum'
  <2>1. /\ misses' - Total(instMisses') = misses - Total(instMisses) /\ misses' \in Int /\ misses \in Int
        /\ Total(instMisses) \in Int /\ Total(instMisses') \in Int
    BY <1>1, SweepFacts
  <2>2. misses = Total(instMisses) + At({"global"}) - At({"undo"}) - Pending
    BY SumIs DEF CountersInv
  <2>3. At({"global"}) \in Nat /\ At({"undo"}) \in Nat
        /\ At({"global"})' = At({"global"}) /\ At({"undo"})' = At({"undo"})
    BY <1>1, CountsStand, CountedFacts DEF CountersInv
  <2> QED BY <1>4, <2>1, <2>2, <2>3, SumIs
<1>6. LookupsOk' /\ StoreOk'
  BY <1>1, <1>2 DEF CountersInv, LookupsOk, StoreOk
<1>7. ASSUME ~raced' PROVE ExactOk'
  <2>1. ExactOk /\ Underway(i) = 0
    <3>1. {t \in Under(i) : /\ lookup[t].pc \in {"live", "failed", "undo"}
                            /\ lookup[t].seen = resetEpoch} = {}
      BY <1>1, <1>7
    <3> QED BY <1>1, <1>7, <3>1, FS_EmptySet DEF CountersInv, Underway
  <2>2. ASSUME NEW j \in Inst, alive'[j], ~Unswept(j)'
        PROVE  ExactOf(j)'
    <3>1. OwedNow(j)' = 0 /\ Underway(j)' = Underway(j)
      BY <1>1, <1>2, CountsStand DEF OwedNow
    <3>2. CASE j = i
      <4>1. instMisses'[i] = 0 /\ done'[i] = 0
        BY <1>1, SweepFacts DEF CountersInv, CountersTypeOK
      <4> QED BY <2>1, <3>1, <3>2, <4>1 DEF ExactOf
    <3>3. CASE j # i
      <4>1. instMisses'[j] = instMisses[j] /\ done'[j] = done[j]
        BY <1>1, <3>3, SweepFacts DEF CountersInv, CountersTypeOK
      <4>2. ExactOf(j) /\ OwedNow(j) = 0
        BY <1>1, <1>2, <2>1, <2>2, <3>3 DEF ExactOk, Unswept, OwedNow
      <4> QED BY <3>1, <4>1, <4>2 DEF ExactOf
    <3> QED BY <3>2, <3>3
  <2> QED BY <1>1, <1>2, <2>1, <2>2 DEF ExactOk
<1> QED BY <1>3, <1>5, <1>6, <1>7 DEF CountersInv

(* The rows are gone with the reset, or a later boot counts them again: not  *)
(* if they were counted before.                                             *)
LEMMA ResetEndStep ==
  ASSUME CountersInv, ResetEnd
  PROVE  CountersInv'
<1>1. /\ persist.by = "reset" /\ persist.todo = {} /\ persist' = Unlocked
      /\ \/ countRows' = [i \in Inst |-> 0] /\ UNCHANGED raced
         \/ UNCHANGED countRows /\ raced' = (raced \/ ~countersRehydrated)
      /\ UNCHANGED <<alive, dying, boots, adds, misses, instMisses, resetEpoch, countersRehydrated,
                     lookup, done>>
  BY DEF ResetEnd, rowVars
<1>2. CountersTypeOK' /\ persist'.by = Nobody
  <2>1. countRows' \in [Inst -> Int]
    <3>1. CASE countRows' = [i \in Inst |-> 0]
      BY <3>1
    <3>2. CASE UNCHANGED countRows
      BY <3>2 DEF CountersInv, CountersTypeOK
    <3> QED BY <1>1, <3>1, <3>2
  <2>2. raced' \in BOOLEAN
    BY <1>1, Zenon DEF CountersInv, CountersTypeOK
  <2> QED BY <1>1, <2>1, <2>2, PersistTyped DEF CountersInv, CountersTypeOK
<1>3. Pending = 0 /\ Pending' = 0
  BY <1>1, <1>2, CounterNobody DEF Pending
<1>4. GlobalIsSum'
  BY <1>1, <1>3, CountsStand, SumIs DEF CountersInv
<1>5. LookupsOk' /\ StoreOk'
  <2>1. \A i \in Inst : ~alive[i] => countRows'[i] = 0
    BY <1>1 DEF CountersInv, StoreOk
  <2> QED BY <1>1, <1>2, <2>1, CounterNobody DEF CountersInv, LookupsOk, StoreOk
<1>6. ASSUME ~raced' PROVE ExactOk'
  <2>1. ExactOk /\ (countersRehydrated \/ countRows' = [i \in Inst |-> 0])
    BY <1>1, <1>6 DEF CountersInv
  <2>2. \A i \in Inst : OwedNow(i)' = 0 /\ OwedNow(i) = 0 /\ ~Unswept(i) /\ Underway(i)' = Underway(i)
    BY <1>1, <1>2, <2>1, CountsStand DEF OwedNow, Owed, Unswept
  <2> QED BY <1>1, <1>2, <2>1, <2>2, CounterNobody DEF ExactOk, ExactOf
<1> QED BY <1>2, <1>4, <1>5, <1>6 DEF CountersInv

-----------------------------------------------------------------------------
LEMMA FlushBeginStep ==
  ASSUME CountersInv, FlushBegin
  PROVE  CountersInv'
<1>1. /\ persist.by = Nobody
      /\ \/ countersRehydrated /\ persist' = [Unlocked EXCEPT !.by = "flush", !.todo = Inst]
         \/ /\ ~countersRehydrated
            /\ persist' = [Unlocked EXCEPT !.by = "rehydrate", !.todo = Inst, !.rows = countRows]
      /\ UNCHANGED <<alive, dying, boots, adds, countRows, misses, instMisses, resetEpoch,
                     countersRehydrated, lookup, done, raced>>
  BY DEF FlushBegin, FlushOrRetry, rowVars
<1> HIDE DEF Unlocked
<1>2. /\ persist' \in [by : {Nobody, "rehydrate", "flush", "reset"}, todo : SUBSET Inst,
                       rows : [Inst -> Int], inst : Inst \cup {Nobody}]
      /\ persist'.todo = Inst
      /\ \/ countersRehydrated /\ persist'.by = "flush"
         \/ ~countersRehydrated /\ persist'.by = "rehydrate" /\ persist'.rows = countRows
  <2>1. CASE countersRehydrated /\ persist' = [Unlocked EXCEPT !.by = "flush", !.todo = Inst]
    BY <2>1, PersistTyped DEF CountersInv
  <2>2. CASE /\ ~countersRehydrated
             /\ persist' = [Unlocked EXCEPT !.by = "rehydrate", !.todo = Inst, !.rows = countRows]
    <3>1. countRows \in [Inst -> Int]
      BY DEF CountersInv, CountersTypeOK
    <3> QED BY <2>2, <3>1, PersistTyped DEF CountersInv
  <2> QED BY <1>1, <2>1, <2>2
<1>3. CountersTypeOK'
  BY <1>1, <1>2 DEF CountersInv, CountersTypeOK
<1>4. Pending = 0 /\ Pending' = 0
  <2>1. [i \in Inst |-> IF i \in persist'.todo THEN 0 ELSE persist'.rows[i]] = [i \in Inst |-> 0]
    BY <1>2
  <2> QED BY <1>1, <2>1, TotalOfZeros, CounterNobody DEF Pending
<1>5. GlobalIsSum'
  BY <1>1, <1>4, CountsStand, SumIs DEF CountersInv
<1>6. LookupsOk' /\ StoreOk'
  BY <1>1, <1>2 DEF CountersInv, LookupsOk, StoreOk
<1>7. ASSUME ~raced' PROVE ExactOk'
  <2>1. ExactOk
    BY <1>1, <1>7 DEF CountersInv
  <2>2. \A i \in Inst : OwedNow(i)' = OwedNow(i) /\ ~Unswept(i) /\ Underway(i)' = Underway(i)
    BY <1>1, <1>2, CountsStand, CounterNobody DEF OwedNow, Owed, Unswept
  <2> QED BY <1>1, <1>2, <2>1, <2>2 DEF ExactOk, ExactOf
<1> QED BY <1>3, <1>5, <1>6, <1>7 DEF CountersInv

(* What the retry adds to an indexer it no longer owes it, and the total     *)
(* waits for all of it.                                                     *)
LEMMA RetryAddStep ==
  ASSUME CountersInv, NEW i \in Inst, RetryAdd(i)
  PROVE  CountersInv'
<1>1. /\ persist.by = "rehydrate" /\ i \in persist.todo
      /\ persist' = [persist EXCEPT !.todo = @ \ {i}]
      /\ instMisses' = [instMisses EXCEPT ![i] = @ + persist.rows[i]]
      /\ UNCHANGED <<alive, dying, boots, adds, countRows, misses, resetEpoch, countersRehydrated,
                     lookup, done, raced>>
  BY DEF RetryAdd, rowVars
<1>2. /\ persist' \in [by : {Nobody, "rehydrate", "flush", "reset"}, todo : SUBSET Inst,
                       rows : [Inst -> Int], inst : Inst \cup {Nobody}]
      /\ persist'.by = "rehydrate" /\ persist'.todo = persist.todo \ {i}
      /\ persist'.rows = persist.rows /\ persist.rows \in [Inst -> Int]
  BY <1>1, PersistTyped DEF CountersInv
<1>3. /\ instMisses \in [Inst -> Int] /\ instMisses' \in [Inst -> Int] /\ misses \in Int
      /\ instMisses'[i] = instMisses[i] + persist.rows[i]
      /\ \A j \in Inst \ {i} : instMisses'[j] = instMisses[j]
  BY <1>1, <1>2 DEF CountersInv, CountersTypeOK
<1>4. CountersTypeOK'
  BY <1>1, <1>2, <1>3 DEF CountersInv, CountersTypeOK
<1>5. Pending' = Pending + persist.rows[i] /\ Pending \in Int
  <2> DEFINE old == [j \in Inst |-> IF j \in persist.todo THEN 0 ELSE persist.rows[j]]
             new == [j \in Inst |-> IF j \in persist'.todo THEN 0 ELSE persist'.rows[j]]
  <2>1. /\ old \in [Inst -> Int] /\ new \in [Inst -> Int]
        /\ old[i] = 0 /\ new[i] = persist.rows[i] /\ \A j \in Inst \ {i} : new[j] = old[j]
    BY <1>1, <1>2
  <2>2. Pending = Total(old) /\ Pending' = Total(new)
    BY <1>1, <1>2 DEF Pending
  <2> HIDE DEF old, new
  <2>3. Total(new) = Total(old) - old[i] + new[i] /\ Total(old) \in Int
    BY <2>1, TotalChanges, TotalFacts
  <2>4. persist.rows[i] \in Int
    BY <1>2
  <2> QED BY <2>1, <2>2, <2>3, <2>4
<1>6. GlobalIsSum'
  <2>1. Total(instMisses') = Total(instMisses) - instMisses[i] + instMisses'[i]
    BY <1>3, TotalChanges
  <2>2. misses = Total(instMisses) + At({"global"}) - At({"undo"}) - Pending
    BY SumIs DEF CountersInv
  <2>3. At({"global"}) \in Nat /\ At({"undo"}) \in Nat
        /\ At({"global"})' = At({"global"}) /\ At({"undo"})' = At({"undo"})
    BY <1>1, CountsStand, CountedFacts DEF CountersInv
  <2>4. Total(instMisses) \in Int /\ instMisses[i] \in Int /\ persist.rows[i] \in Int
    BY <1>2, <1>3, TotalFacts
  <2> QED BY <1>1, <1>3, <1>5, <2>1, <2>2, <2>3, <2>4, SumIs
<1>7. LookupsOk' /\ StoreOk'
  BY <1>1, <1>2 DEF CountersInv, LookupsOk, StoreOk
<1>8. ASSUME ~raced' PROVE ExactOk'
  <2>1. ExactOk /\ ~countersRehydrated
    BY <1>1, <1>8 DEF CountersInv, StoreOk
  <2>2. ASSUME NEW j \in Inst, alive'[j]
        PROVE  ExactOf(j)'
    <3>1. ExactOf(j) /\ Underway(j)' = Underway(j) /\ Underway(j) \in Nat /\ done[j] \in Int
      BY <1>1, <2>1, <2>2, CountsStand, CountedFacts DEF ExactOk, Unswept, CountersInv, CountersTypeOK
    <3>2. CASE j = i
      <4>1. OwedNow(i) = countRows[i] /\ OwedNow(i)' = 0 /\ persist.rows[i] = countRows[i]
        BY <1>1, <1>2, <2>1, <2>2, <3>2 DEF ExactOk, OwedNow, Owed
      <4>2. countRows[i] \in Int /\ instMisses[i] \in Int
        BY DEF CountersInv, CountersTypeOK
      <4> QED BY <1>1, <1>3, <3>1, <3>2, <4>1, <4>2 DEF ExactOf
    <3>3. CASE j # i
      <4>1. OwedNow(j)' = OwedNow(j) /\ instMisses'[j] = instMisses[j]
        BY <1>1, <1>2, <1>3, <3>3 DEF OwedNow, Owed
      <4> QED BY <1>1, <3>1, <4>1 DEF ExactOf
    <3> QED BY <3>2, <3>3
  <2> QED BY <1>1, <1>2, <2>1, <2>2 DEF ExactOk
<1> QED BY <1>4, <1>6, <1>7, <1>8 DEF CountersInv

LEMMA RetryEndStep ==
  ASSUME CountersInv, RetryEnd
  PROVE  CountersInv'
<1>1. /\ persist.by = "rehydrate" /\ persist.todo = {}
      /\ misses' = misses + Total(persist.rows) /\ countersRehydrated' = TRUE
      /\ persist' = [Unlocked EXCEPT !.by = "flush", !.todo = Inst]
      /\ UNCHANGED <<alive, dying, boots, adds, countRows, instMisses, resetEpoch, lookup, done, raced>>
  BY DEF RetryEnd, rowVars
<1> HIDE DEF Unlocked
<1>2. /\ persist' \in [by : {Nobody, "rehydrate", "flush", "reset"}, todo : SUBSET Inst,
                       rows : [Inst -> Int], inst : Inst \cup {Nobody}]
      /\ persist'.by = "flush" /\ persist.rows \in [Inst -> Int]
  BY <1>1, PersistTyped DEF CountersInv
<1>3. Pending = Total(persist.rows) /\ Pending' = 0 /\ Pending \in Int
  <2>1. [i \in Inst |-> IF i \in persist.todo THEN 0 ELSE persist.rows[i]] = persist.rows
    BY <1>1, <1>2
  <2> QED BY <1>1, <1>2, <2>1, TotalFacts DEF Pending
<1>4. CountersTypeOK'
  BY <1>1, <1>2, <1>3 DEF CountersInv, CountersTypeOK
<1>5. GlobalIsSum'
  <2>1. misses = Total(instMisses) + At({"global"}) - At({"undo"}) - Pending
    BY SumIs DEF CountersInv
  <2>2. At({"global"}) \in Nat /\ At({"undo"}) \in Nat
        /\ At({"global"})' = At({"global"}) /\ At({"undo"})' = At({"undo"})
    BY <1>1, CountsStand, CountedFacts DEF CountersInv
  <2>3. Total(instMisses) \in Int /\ Total(instMisses') = Total(instMisses)
    BY <1>1, TotalFacts DEF CountersInv, CountersTypeOK
  <2>4. misses' = misses + Pending
    BY <1>1, <1>3
  <2> HIDE <1>1
  <2> QED BY <1>3, <2>1, <2>2, <2>3, <2>4, SumIs
<1>6. LookupsOk' /\ StoreOk'
  BY <1>1, <1>2 DEF CountersInv, LookupsOk, StoreOk
<1>7. ASSUME ~raced' PROVE ExactOk'
  <2>1. ExactOk
    BY <1>1, <1>7 DEF CountersInv
  <2>2. \A i \in Inst : /\ OwedNow(i)' = OwedNow(i) /\ ~Unswept(i) /\ ~Unswept(i)'
                        /\ Underway(i)' = Underway(i)
    BY <1>1, <1>2, CountsStand DEF OwedNow, Owed, Unswept
  <2> QED BY <1>1, <1>2, <2>1, <2>2 DEF ExactOk, ExactOf
<1> QED BY <1>4, <1>5, <1>6, <1>7 DEF CountersInv

(* A flush changes rows only, and the totals of this session are in memory. *)
LEMMA FlushKeeps ==
  ASSUME CountersInv, persist.by = "flush", persist'.by \in {"flush", Nobody}, CountersTypeOK',
         StoreOk',
         UNCHANGED <<alive, dying, misses, instMisses, resetEpoch, countersRehydrated, lookup, done, raced>>
  PROVE  CountersInv'
<1>1. countersRehydrated /\ Pending = 0 /\ Pending' = 0
  BY CounterNobody DEF CountersInv, StoreOk, Pending
<1>2. GlobalIsSum'
  BY <1>1, CountsStand, SumIs DEF CountersInv
<1>3. LookupsOk'
  BY DEF CountersInv, LookupsOk
<1>4. ASSUME ~raced' PROVE ExactOk'
  <2>1. ExactOk
    BY <1>4 DEF CountersInv
  <2>2. \A i \in Inst : /\ OwedNow(i)' = OwedNow(i) /\ ~Unswept(i) /\ ~Unswept(i)'
                        /\ Underway(i)' = Underway(i)
    BY <1>1, CountsStand, CounterNobody DEF OwedNow, Owed, Unswept
  <2>3. persist'.by # "rehydrate"
    BY CounterNobody
  <2> QED BY <2>1, <2>2, <2>3 DEF ExactOk, ExactOf
<1> QED BY <1>2, <1>3, <1>4 DEF CountersInv

LEMMA FlushSteps ==
  ASSUME CountersInv, (\E i \in Inst : FlushLoad(i)) \/ FlushUpsert \/ FlushEnd
  PROVE  CountersInv'
<1>1. CASE \E i \in Inst : FlushLoad(i)
  <2>1. PICK i \in Inst : FlushLoad(i)
    BY <1>1
  <2>2. /\ persist.by = "flush"
        /\ persist' = [persist EXCEPT !.todo = @ \ {i}, !.inst = i, !.rows[i] = instMisses[i]]
        /\ UNCHANGED <<alive, dying, boots, adds, countRows, misses, instMisses, resetEpoch,
                       countersRehydrated, lookup, done, raced>>
    BY <2>1 DEF FlushLoad, rowVars
  <2>3. persist' \in [by : {Nobody, "rehydrate", "flush", "reset"}, todo : SUBSET Inst,
                      rows : [Inst -> Int], inst : Inst \cup {Nobody}] /\ persist'.by = "flush"
    BY <2>2, PersistTyped DEF CountersInv, CountersTypeOK
  <2>4. CountersTypeOK' /\ StoreOk'
    BY <2>2, <2>3 DEF CountersInv, CountersTypeOK, StoreOk
  <2> QED BY <2>2, <2>3, <2>4, FlushKeeps
<1>2. CASE FlushUpsert
  <2> DEFINE i == persist.inst
  <2>1. /\ persist.by = "flush" /\ i \in Inst
        /\ persist' = [persist EXCEPT !.inst = Nobody, !.rows[i] = 0]
        /\ UNCHANGED countRows \/ (alive[i] /\ countRows' = [countRows EXCEPT ![i] = persist.rows[i]])
        /\ UNCHANGED <<alive, dying, boots, adds, misses, instMisses, resetEpoch,
                       countersRehydrated, lookup, done, raced>>
    BY <1>2, PersistTyped DEF FlushUpsert, rowVars, CountersInv
  <2> HIDE DEF i
  <2>2. persist' \in [by : {Nobody, "rehydrate", "flush", "reset"}, todo : SUBSET Inst,
                      rows : [Inst -> Int], inst : Inst \cup {Nobody}] /\ persist'.by = "flush"
    <3> DEFINE freed == [persist EXCEPT !.rows[i] = 0]
    <3>1. /\ freed \in [by : {Nobody, "rehydrate", "flush", "reset"}, todo : SUBSET Inst,
                        rows : [Inst -> Int], inst : Inst \cup {Nobody}]
          /\ freed.by = "flush"
      BY <2>1, PersistTyped DEF CountersInv
    <3>2. persist' = [freed EXCEPT !.inst = Nobody]
      BY <2>1, PersistTyped DEF CountersInv
    <3> HIDE DEF freed
    <3> QED BY <3>1, <3>2
  <2>3. countRows' \in [Inst -> Int] /\ \A j \in Inst : ~alive[j] => countRows'[j] = 0
    <3>1. CASE UNCHANGED countRows
      BY <3>1 DEF CountersInv, CountersTypeOK, StoreOk
    <3>2. CASE alive[i] /\ countRows' = [countRows EXCEPT ![i] = persist.rows[i]]
      <4>1. persist.rows[i] \in Int /\ countRows \in [Inst -> Int]
        BY <2>1, PersistTyped DEF CountersInv, CountersTypeOK
      <4> QED BY <2>1, <3>2, <4>1 DEF CountersInv, StoreOk
    <3> QED BY <2>1, <3>1, <3>2
  <2>4. CountersTypeOK' /\ StoreOk'
    BY <2>1, <2>2, <2>3 DEF CountersInv, CountersTypeOK, StoreOk
  <2> QED BY <2>1, <2>2, <2>4, FlushKeeps
<1>3. CASE FlushEnd
  <2>1. /\ persist.by = "flush" /\ persist' = Unlocked
        /\ UNCHANGED <<alive, dying, boots, adds, countRows, misses, instMisses, resetEpoch,
                       countersRehydrated, lookup, done, raced>>
    BY <1>3 DEF FlushEnd, rowVars
  <2>2. CountersTypeOK' /\ StoreOk' /\ persist'.by = Nobody
    BY <2>1, PersistTyped, CounterNobody DEF CountersInv, CountersTypeOK, StoreOk
  <2> QED BY <2>1, <2>2, FlushKeeps
<1> QED BY <1>1, <1>2, <1>3

-----------------------------------------------------------------------------
LEMMA DeleteCommitStep ==
  ASSUME CountersInv, NEW i \in Inst, DeleteCommit(i)
  PROVE  CountersInv'
<1>1. /\ alive[i] /\ alive' = [alive EXCEPT ![i] = FALSE] /\ dying' = dying \cup {i}
      /\ countRows' = [countRows EXCEPT ![i] = 0]
      /\ UNCHANGED <<misses, instMisses, resetEpoch, countersRehydrated, persist, lookup, boots,
                     adds, done, raced>>
  BY DEF DeleteCommit
<1>2. /\ alive' \in [Inst -> BOOLEAN] /\ countRows' \in [Inst -> Int]
      /\ ~alive'[i] /\ countRows'[i] = 0
      /\ \A j \in Inst \ {i} : alive'[j] = alive[j] /\ countRows'[j] = countRows[j]
  BY <1>1 DEF CountersInv, CountersTypeOK
<1>3. CountersTypeOK' /\ LookupsOk' /\ StoreOk'
  BY <1>1, <1>2 DEF CountersInv, CountersTypeOK, LookupsOk, StoreOk
<1>4. GlobalIsSum'
  <2>1. Pending' = Pending
    BY <1>1 DEF Pending
  <2> QED BY <1>1, <2>1, CountsStand, SumIs DEF CountersInv
<1>5. ASSUME ~raced' PROVE ExactOk'
  <2>1. ExactOk
    BY <1>1, <1>5 DEF CountersInv
  <2>2. \A j \in Inst \ {i} : /\ OwedNow(j)' = OwedNow(j) /\ Unswept(j)' = Unswept(j)
                              /\ Underway(j)' = Underway(j)
    BY <1>1, <1>2, CountsStand DEF OwedNow, Owed, Unswept
  <2>3. \A j \in Inst : alive'[j] /\ ~Unswept(j)' => ExactOf(j)'
    BY <1>1, <1>2, <2>1, <2>2 DEF ExactOk, ExactOf
  <2>4. \A j \in dying' : ~alive'[j]
    BY <1>1, <1>2, <2>1 DEF ExactOk, CountersInv, CountersTypeOK
  <2>5. persist'.by = "rehydrate" =>
          \A j \in persist'.todo : alive'[j] => persist'.rows[j] = countRows'[j]
    BY <1>1, <1>2, <2>1, PersistTyped DEF ExactOk, CountersInv
  <2>6. \A t \in Lookup : lookup'[t].pc \in {"failed", "undo"} => lookup'[t].seen = resetEpoch'
    BY <1>1, <2>1 DEF ExactOk
  <2> QED BY <2>3, <2>4, <2>5, <2>6 DEF ExactOk
<1> QED BY <1>3, <1>4, <1>5 DEF CountersInv

LEMMA ForgetCountersStep ==
  ASSUME CountersInv, NEW i \in Inst, ForgetCounters(i)
  PROVE  CountersInv'
<1>1. /\ i \in dying /\ dying' = dying \ {i} /\ Sweep(i)
      /\ UNCHANGED <<alive, countRows, resetEpoch, countersRehydrated, persist, lookup, boots, adds,
                     done, raced>>
  BY DEF ForgetCounters
<1>2. CountersTypeOK' /\ LookupsOk' /\ StoreOk'
  BY <1>1, SweepFacts DEF CountersInv, CountersTypeOK, LookupsOk, StoreOk
<1>3. GlobalIsSum'
  <2>1. /\ misses' - Total(instMisses') = misses - Total(instMisses) /\ misses' \in Int /\ misses \in Int
        /\ Total(instMisses) \in Int /\ Total(instMisses') \in Int
    BY <1>1, SweepFacts
  <2>2. misses = Total(instMisses) + At({"global"}) - At({"undo"}) - Pending /\ Pending' = Pending
    BY <1>1, SumIs DEF CountersInv, Pending
  <2>3. At({"global"}) \in Nat /\ At({"undo"}) \in Nat /\ Pending \in Int
        /\ At({"global"})' = At({"global"}) /\ At({"undo"})' = At({"undo"})
    BY <1>1, CountsStand, CountedFacts, PendingInt DEF CountersInv
  <2> QED BY <2>1, <2>2, <2>3, SumIs
<1>4. ASSUME ~raced' PROVE ExactOk'
  <2>1. ExactOk /\ ~alive[i]
    BY <1>1, <1>4 DEF CountersInv, ExactOk
  <2>2. \A j \in Inst \ {i} : /\ OwedNow(j)' = OwedNow(j) /\ Unswept(j)' = Unswept(j)
                              /\ Underway(j)' = Underway(j) /\ instMisses'[j] = instMisses[j]
    BY <1>1, SweepFacts, CountsStand DEF OwedNow, Owed, Unswept
  <2> QED BY <1>1, <2>1, <2>2 DEF ExactOk, ExactOf
<1> QED BY <1>2, <1>3, <1>4 DEF CountersInv

(* An indexer under a reused id starts from nothing, or it has raced.       *)
LEMMA AddAgainStep ==
  ASSUME CountersInv, NEW i \in Inst, AddAgain(i)
  PROVE  CountersInv'
<1>1. /\ ~alive[i] /\ adds' = adds + 1
      /\ alive' = [alive EXCEPT ![i] = TRUE] /\ done' = [done EXCEPT ![i] = 0]
      /\ raced' = \/ raced \/ i \in dying \/ instMisses[i] # 0 \/ Under(i) # {}
                  \/ persist.by \in {"rehydrate", "flush"}
      /\ UNCHANGED <<dying, countRows, misses, instMisses, resetEpoch, countersRehydrated, persist,
                     lookup, boots>>
  BY DEF AddAgain
<1>2. /\ alive' \in [Inst -> BOOLEAN] /\ done' \in [Inst -> Int] /\ done'[i] = 0
      /\ \A j \in Inst \ {i} : alive'[j] = alive[j] /\ done'[j] = done[j]
  BY <1>1 DEF CountersInv, CountersTypeOK
<1>3. CountersTypeOK' /\ LookupsOk' /\ StoreOk'
  <2>1. raced' \in BOOLEAN /\ adds' \in Nat
    BY <1>1 DEF CountersInv, CountersTypeOK
  <2>2. \A j \in Inst : ~alive'[j] => countRows'[j] = 0
    BY <1>1, <1>2 DEF CountersInv, CountersTypeOK, StoreOk
  <2> QED BY <1>1, <1>2, <2>1, <2>2 DEF CountersInv, CountersTypeOK, LookupsOk, StoreOk
<1>4. GlobalIsSum'
  <2>1. Pending' = Pending
    BY <1>1 DEF Pending
  <2> QED BY <1>1, <2>1, CountsStand, SumIs DEF CountersInv
<1>5. ASSUME ~raced' PROVE ExactOk'
  <2>1. /\ ExactOk /\ i \notin dying /\ instMisses[i] = 0 /\ Under(i) = {}
        /\ persist.by \notin {"rehydrate", "flush"}
    BY <1>1, <1>5 DEF CountersInv
  <2>2. Underway(i) = 0
    <3>1. {t \in Under(i) : /\ lookup[t].pc \in {"live", "failed", "undo"}
                            /\ lookup[t].seen = resetEpoch} = {}
      BY <2>1
    <3> QED BY <3>1, FS_EmptySet DEF Underway
  <2>3. OwedNow(i)' = 0
    BY <1>1 DEF OwedNow, Owed, CountersInv, StoreOk
  <2>4. \A j \in Inst : /\ OwedNow(j)' = OwedNow(j) /\ Unswept(j)' = Unswept(j)
                        /\ Underway(j)' = Underway(j)
    BY <1>1, CountsStand DEF OwedNow, Owed, Unswept
  <2>5. \A j \in Inst : alive'[j] /\ ~Unswept(j)' => ExactOf(j)'
    <3> SUFFICES ASSUME NEW j \in Inst, alive'[j], ~Unswept(j)' PROVE ExactOf(j)'
      OBVIOUS
    <3>1. CASE j = i
      BY <1>1, <1>2, <2>1, <2>2, <2>3, <2>4, <3>1 DEF ExactOf
    <3>2. CASE j # i
      BY <1>1, <1>2, <2>1, <2>4, <3>2 DEF ExactOf, ExactOk
    <3> QED BY <3>1, <3>2
  <2>6. \A j \in dying' : ~alive'[j]
    BY <1>1, <1>2, <2>1 DEF ExactOk, CountersInv, CountersTypeOK
  <2>7. \A t \in Lookup : lookup'[t].pc \in {"failed", "undo"} => lookup'[t].seen = resetEpoch'
    BY <1>1, <2>1 DEF ExactOk
  <2> QED BY <1>1, <2>1, <2>5, <2>6, <2>7 DEF ExactOk
<1> QED BY <1>3, <1>4, <1>5 DEF CountersInv

-----------------------------------------------------------------------------
(* A session starts with every row counted or every row owed, and nobody    *)
(* under way.                                                               *)
LEMMA NobodyCounts ==
  /\ (lookup = [t \in Lookup |-> IdleLookup]) =>
       At({"global"}) = 0 /\ At({"undo"}) = 0 /\ \A i \in Inst : Underway(i) = 0
  /\ (lookup' = [t \in Lookup |-> IdleLookup]) =>
       At({"global"})' = 0 /\ At({"undo"})' = 0 /\ \A i \in Inst : Underway(i)' = 0
<1>1. ASSUME lookup = [t \in Lookup |-> IdleLookup]
      PROVE  At({"global"}) = 0 /\ At({"undo"}) = 0 /\ \A i \in Inst : Underway(i) = 0
  <2>1. /\ {t \in Lookup : lookup[t].pc \in {"global"}} = {}
        /\ {t \in Lookup : lookup[t].pc \in {"undo"}} = {}
        /\ \A i \in Inst : {t \in Under(i) : /\ lookup[t].pc \in {"live", "failed", "undo"}
                                              /\ lookup[t].seen = resetEpoch} = {}
    BY <1>1 DEF Under, IdleLookup
  <2> QED BY <2>1, FS_EmptySet DEF At, Underway
<1>2. ASSUME lookup' = [t \in Lookup |-> IdleLookup]
      PROVE  At({"global"})' = 0 /\ At({"undo"})' = 0 /\ \A i \in Inst : Underway(i)' = 0
  <2>1. /\ {t \in Lookup : lookup'[t].pc \in {"global"}} = {}
        /\ {t \in Lookup : lookup'[t].pc \in {"undo"}} = {}
        /\ \A i \in Inst : {t \in Under(i)' : /\ lookup'[t].pc \in {"live", "failed", "undo"}
                                               /\ lookup'[t].seen = resetEpoch'} = {}
    BY <1>2 DEF Under, IdleLookup
  <2> QED BY <2>1, FS_EmptySet DEF At, Underway
<1> QED BY <1>1, <1>2

LEMMA CountersStart == CountersInit => CountersInv
<1> SUFFICES ASSUME CountersInit PROVE CountersInv
  OBVIOUS
<1>1. /\ alive = [i \in Inst |-> TRUE] /\ dying = {} /\ boots = 0 /\ adds = 0
      /\ countRows \in [Inst -> 0 .. 1] /\ resetEpoch = 0 /\ persist = Unlocked
      /\ lookup = [t \in Lookup |-> IdleLookup] /\ done = countRows /\ raced = FALSE
      /\ \/ instMisses = countRows /\ misses = Total(countRows) /\ countersRehydrated = TRUE
         \/ instMisses = [i \in Inst |-> 0] /\ misses = 0 /\ countersRehydrated = FALSE
  BY DEF CountersInit
<1>2. /\ countRows \in [Inst -> Int] /\ instMisses \in [Inst -> Int]
      /\ misses = Total(instMisses) /\ misses \in Int /\ countersRehydrated \in BOOLEAN
  <2>1. countRows \in [Inst -> Int] /\ [i \in Inst |-> 0] \in [Inst -> Int]
    BY <1>1
  <2> QED BY <1>1, <2>1, TotalFacts, TotalOfZeros
<1>3. CountersTypeOK
  <2>1. \A t \in Lookup : IdleLookup \in LookupState
    BY DEF IdleLookup, LookupState
  <2>2. Unlocked \in [by : {Nobody, "rehydrate", "flush", "reset"}, todo : SUBSET Inst,
                      rows : [Inst -> Int], inst : Inst \cup {Nobody}]
    BY DEF Unlocked
  <2>3. /\ alive \in [Inst -> BOOLEAN] /\ lookup \in [Lookup -> LookupState]
        /\ boots \in Nat /\ adds \in Nat /\ resetEpoch \in Nat /\ raced \in BOOLEAN
    BY <1>1, <2>1
  <2> QED BY <1>1, <1>2, <2>2, <2>3 DEF CountersTypeOK
<1>4. persist.by = Nobody
  BY <1>1 DEF Unlocked
<1>5. LookupsOk /\ StoreOk
  BY <1>1, <1>4, CounterNobody DEF LookupsOk, StoreOk, IdleLookup
<1>6. GlobalIsSum
  BY <1>1, <1>2, <1>4, NobodyCounts, TotalFacts, CounterNobody, SumIs DEF Pending
<1>7. ExactOk
  <2>1. \A i \in Inst : instMisses[i] + OwedNow(i) = countRows[i] /\ Underway(i) = 0
    BY <1>1, <1>2, <1>4, NobodyCounts, CounterNobody DEF OwedNow, Owed
  <2>2. \A t \in Lookup : lookup[t].pc \notin {"failed", "undo"}
    BY <1>1 DEF IdleLookup
  <2> QED BY <1>1, <1>2, <1>4, <2>1, <2>2, CounterNobody DEF ExactOk, ExactOf
<1> QED BY <1>3, <1>5, <1>6, <1>7 DEF CountersInv

LEMMA CountersRestartStep ==
  ASSUME CountersInv, CountersRestart
  PROVE  CountersInv'
<1>1. /\ boots' = boots + 1 /\ dying' = {} /\ resetEpoch' = 0 /\ persist' = Unlocked
      /\ lookup' = [t \in Lookup |-> IdleLookup] /\ done' = countRows
      /\ UNCHANGED <<alive, countRows, adds, raced>>
      /\ \/ instMisses' = countRows /\ misses' = Total(countRows) /\ countersRehydrated' = TRUE
         \/ instMisses' = [i \in Inst |-> 0] /\ misses' = 0 /\ countersRehydrated' = FALSE
  BY DEF CountersRestart, BootCounters
<1>2. /\ countRows \in [Inst -> Int] /\ instMisses' \in [Inst -> Int]
      /\ misses' = Total(instMisses') /\ misses' \in Int /\ countersRehydrated' \in BOOLEAN
  <2>1. countRows \in [Inst -> Int] /\ [i \in Inst |-> 0] \in [Inst -> Int]
    BY DEF CountersInv, CountersTypeOK
  <2> QED BY <1>1, <2>1, TotalFacts, TotalOfZeros
<1>3. CountersTypeOK'
  <2>1. IdleLookup \in LookupState
    BY DEF IdleLookup, LookupState
  <2>2. Unlocked \in [by : {Nobody, "rehydrate", "flush", "reset"}, todo : SUBSET Inst,
                      rows : [Inst -> Int], inst : Inst \cup {Nobody}]
    BY DEF Unlocked
  <2>3. alive' \in [Inst -> BOOLEAN] /\ boots' \in Nat /\ adds' \in Nat /\ raced' \in BOOLEAN
        /\ lookup' \in [Lookup -> LookupState]
    BY <1>1, <2>1 DEF CountersInv, CountersTypeOK
  <2> QED BY <1>1, <1>2, <2>2, <2>3 DEF CountersTypeOK
<1>4. persist'.by = Nobody
  BY <1>1 DEF Unlocked
<1>5. LookupsOk' /\ StoreOk'
  BY <1>1, <1>4, CounterNobody DEF CountersInv, LookupsOk, StoreOk, IdleLookup
<1>6. GlobalIsSum'
  <2>1. Pending' = 0
    BY <1>4, CounterNobody DEF Pending
  <2> QED BY <1>1, <1>2, <2>1, NobodyCounts, SumIs
<1>7. ExactOk'
  <2>1. \A i \in Inst : instMisses'[i] + OwedNow(i)' = countRows[i] /\ Underway(i)' = 0
    BY <1>1, <1>2, <1>4, NobodyCounts, CounterNobody DEF OwedNow, Owed
  <2>2. \A t \in Lookup : lookup'[t].pc \notin {"failed", "undo"}
    BY <1>1 DEF IdleLookup
  <2> QED BY <1>1, <1>2, <1>4, <2>1, <2>2, CounterNobody DEF ExactOk, ExactOf
<1> QED BY <1>3, <1>5, <1>6, <1>7 DEF CountersInv

-----------------------------------------------------------------------------
LEMMA CountersStep == CountersInv /\ [CountersNext]_counterVars => CountersInv'
<1> SUFFICES ASSUME CountersInv, [CountersNext]_counterVars PROVE CountersInv'
  OBVIOUS
<1>1. CASE UNCHANGED counterVars
  <2>1. CountersTypeOK' /\ LookupsOk' /\ StoreOk'
    BY <1>1 DEF counterVars, CountersInv, CountersTypeOK, LookupsOk, StoreOk
  <2>2. GlobalIsSum'
    BY <1>1, CountsStand, SumIs DEF counterVars, CountersInv, Pending
  <2>3. ~raced' => ExactOk'
    <3>1. \A i \in Inst : /\ OwedNow(i)' = OwedNow(i) /\ Unswept(i)' = Unswept(i)
                          /\ Underway(i)' = Underway(i)
      BY <1>1, CountsStand DEF counterVars, OwedNow, Owed, Unswept
    <3> QED BY <1>1, <3>1 DEF counterVars, CountersInv, ExactOk, ExactOf
  <2> QED BY <2>1, <2>2, <2>3 DEF CountersInv
<1>2. CASE CountersNext
  <2>1. CASE \E t \in Lookup : \/ \E i \in Inst : LoadEpoch(t, i)
                              \/ CountGlobal(t) \/ CountInst(t) \/ LookupEnds(t)
                              \/ UndoGlobal(t) \/ UndoInst(t)
    BY <2>1, LoadEpochStep, CountGlobalStep, CountInstStep, LookupEndsStep, UndoGlobalStep,
       UndoInstStep
  <2>2. CASE ResetBegin \/ ResetEnd \/ FlushBegin \/ RetryEnd \/ FlushUpsert \/ FlushEnd
    BY <2>2, ResetBeginStep, ResetEndStep, FlushBeginStep, RetryEndStep, FlushSteps
  <2>3. CASE \E i \in Inst : \/ ResetSweep(i) \/ RetryAdd(i) \/ FlushLoad(i)
                            \/ DeleteCommit(i) \/ ForgetCounters(i) \/ AddAgain(i)
    BY <2>3, ResetSweepStep, RetryAddStep, FlushSteps, DeleteCommitStep, ForgetCountersStep,
       AddAgainStep
  <2>4. CASE CountersRestart
    BY <2>4, CountersRestartStep
  <2> QED BY <1>2, <2>1, <2>2, <2>3, <2>4 DEF CountersNext
<1> QED BY <1>1, <1>2

LEMMA CountersInvariant == CountersSpec => []CountersInv
BY CountersStart, CountersStep, PTL DEF CountersSpec

(* Types: the rows, the totals, the mutex and the lookups.                  *)
THEOREM CountersTypeCorrect == CountersSpec => []CountersTypeOK
<1>1. CountersInv => CountersTypeOK
  BY DEF CountersInv
<1> QED BY <1>1, CountersInvariant, PTL

(* For any lookups, indexers, resets, retries, deletes and restarts: the     *)
(* global total is the sum of the indexers' but for the steps that have       *)
(* changed one of the two, and unless one of the races came in that the code  *)
(* does not guard against, every miss that ended well counts once             *)
(* (searchcache_counters.go).                                                *)
THEOREM CountersAlwaysAgree == CountersSpec => []CountersAgree
<1>1. CountersInv => CountersAgree
  <2> SUFFICES ASSUME CountersInv PROVE CountersAgree
    OBVIOUS
  <2>1. MissesExact
    BY DEF CountersInv, ExactOk, ExactOf, Unswept, OwedNow, MissesExact
  <2> QED BY <2>1 DEF CountersInv, CountersAgree
<1> QED BY <1>1, CountersInvariant, PTL

---------------------------------------------------------------------------
(***************************************************************************)
(* Announce, for any number of write-backs, releases and batches: a release *)
(* is found new once, and none is suppressed that never was new.            *)
(***************************************************************************)

FillState == [pc : FillPc, page : SUBSET Guid, todo : SUBSET Guid, prior : SUBSET Guid,
              out : SUBSET Guid]

(* The window remembers what was observed, and was found new when it was;   *)
(* so was all the row shows, and what a write-back has tapped of its page.  *)
WindowOk == observed = seenAt /\ DOMAIN seenAt \subseteq chosen /\ row \subseteq chosen
TapOk(f) == fill[f].prior \subseteq chosen /\ fill[f].page \ fill[f].todo \subseteq chosen
TodoOk(f) == ~FillAt(f, "mark") => fill[f].todo = {}

TapInv ==
  AnnounceTypeOK /\ AnnouncedOnce /\ WindowOk /\ \A f \in Fill : TapOk(f) /\ TodoOk(f)

-----------------------------------------------------------------------------
LEMMA TapStart == AnnounceInit => TapInv
<1> SUFFICES ASSUME AnnounceInit PROVE TapInv
  OBVIOUS
<1> USE AnnounceAssumption DEF AnnounceAssumption, AnnounceInit
<1>1. NoFill \in FillState
  BY DEF NoFill, FillState, FillPc
<1>2. DOMAIN seenAt = {} /\ Cardinality({}) = 0
  BY FS_EmptySet
<1>3. AnnounceTypeOK
  BY <1>1, <1>2 DEF AnnounceTypeOK, FillState, Time
<1> QED BY <1>2, <1>3 DEF TapInv, AnnouncedOnce, WindowOk, TapOk, TodoOk, NoFill

(* pruneLocked keeps at most MaxSeen releases, and nothing that was not there. *)
LEMMA Pruned ==
  ASSUME NEW at, NEW kept \in SUBSET DOMAIN at, pruneLocked(at, kept)
  PROVE  /\ DOMAIN Only(at, kept) = kept
         /\ Cardinality(DOMAIN Only(at, kept)) <= MaxSeen
         /\ \A h \in kept : Only(at, kept)[h] = at[h]
<1>1. DOMAIN Only(at, kept) = kept /\ \A h \in kept : Only(at, kept)[h] = at[h]
  BY DEF Only
<1>2. Cardinality(kept) <= MaxSeen
  BY AnnounceAssumption DEF AnnounceAssumption, pruneLocked
<1> QED BY <1>1, <1>2

(* A step of one write-back leaves the others as they were.                 *)
LEMMA OneFill ==
  ASSUME TapInv, NEW f \in Fill, NEW new \in FillState, fill' = [fill EXCEPT ![f] = new],
         chosen \subseteq chosen',
         new.prior \subseteq chosen', new.page \ new.todo \subseteq chosen',
         new.pc # "mark" => new.todo = {}
  PROVE  /\ fill' \in [Fill -> FillState]
         /\ \A e \in Fill : TapOk(e)' /\ TodoOk(e)'
<1> USE DEF TapInv
<1>1. fill \in [Fill -> FillState]
  BY DEF AnnounceTypeOK, FillState
<1>2. /\ fill' \in [Fill -> FillState] /\ fill'[f] = new
      /\ \A e \in Fill \ {f} : fill'[e] = fill[e]
  BY <1>1
<1>3. \A e \in Fill : TapOk(e)'
  BY <1>2 DEF TapOk
<1>4. \A e \in Fill : TodoOk(e)'
  BY <1>2 DEF TodoOk, FillAt
<1> QED BY <1>2, <1>3, <1>4

LEMMA TapReadsStep ==
  ASSUME TapInv, NEW f \in Fill, NEW page \in SUBSET Guid, TapReads(f, page)
  PROVE  TapInv'
<1> USE AnnounceAssumption DEF AnnounceAssumption
<1>1. PICK prior \in {row, {}} :
        /\ annFaults' \in 0 .. MaxAnnFault
        /\ fill' = [fill EXCEPT ![f] =
             IF page = {} THEN [NoFill EXCEPT !.pc = "store"]
             ELSE [pc |-> "mark", page |-> page, todo |-> page, prior |-> prior, out |-> {}]]
  <2>1. PICK prior \in {row, {}} :
          /\ IF prior = row THEN UNCHANGED annFaults ELSE AnnFault
          /\ fill' = [fill EXCEPT ![f] =
               IF page = {} THEN [NoFill EXCEPT !.pc = "store"]
               ELSE [pc |-> "mark", page |-> page, todo |-> page, prior |-> prior, out |-> {}]]
    BY DEF TapReads, priorGUIDs
  <2>2. annFaults' \in 0 .. MaxAnnFault
    BY <2>1 DEF AnnFault, TapInv, AnnounceTypeOK
  <2> QED BY <2>1, <2>2
<1>2. UNCHANGED <<tapClock, row, seenAt, queued, annHistory>>
  BY DEF TapReads
<1>3. prior \subseteq Guid /\ prior \subseteq chosen
  BY DEF TapInv, AnnounceTypeOK, WindowOk
<1>4. PICK new \in FillState :
        /\ fill' = [fill EXCEPT ![f] = new]
        /\ new.prior \subseteq chosen /\ new.page \ new.todo \subseteq chosen
        /\ new.pc # "mark" => new.todo = {}
  <2>1. CASE page = {}
    <3>1. [NoFill EXCEPT !.pc = "store"] \in FillState
      BY DEF NoFill, FillState, FillPc
    <3> QED BY <1>1, <2>1, <3>1 DEF NoFill
  <2>2. CASE page # {}
    <3>1. [pc |-> "mark", page |-> page, todo |-> page, prior |-> prior, out |-> {}] \in FillState
      BY <1>3 DEF FillState, FillPc
    <3> QED BY <1>1, <1>3, <2>2, <3>1
  <2> QED BY <2>1, <2>2
<1>5. fill' \in [Fill -> FillState] /\ \A e \in Fill : TapOk(e)' /\ TodoOk(e)'
  BY <1>2, <1>4, OneFill DEF annHistory
<1>6. AnnounceTypeOK'
  BY <1>1, <1>2, <1>5 DEF TapInv, AnnounceTypeOK, FillState, annHistory
<1> QED BY <1>2, <1>5, <1>6 DEF TapInv, AnnouncedOnce, WindowOk, annHistory

(* Whatever a release was, it was found new once it is marked.              *)
LEMMA TapReleaseStep ==
  ASSUME TapInv, NEW f \in Fill, NEW g \in Guid, TapRelease(f, g)
  PROVE  TapInv'
<1> USE AnnounceAssumption DEF AnnounceAssumption
<1> DEFINE marked == Marked(seenAt, g)
           new == ~Suppressed(f, g)
           todo == fill[f].todo \ {g}
           out == fill[f].out \cup (IF new THEN {g} ELSE {})
           pc == IF todo # {} THEN "mark" ELSE IF out # {} THEN "hand" ELSE "store"
           then == [pc |-> pc, page |-> fill[f].page, todo |-> todo, out |-> out,
                    prior |-> IF pc = "mark" THEN fill[f].prior ELSE {}]
<1>1. /\ g \in fill[f].todo
      /\ fill' = [fill EXCEPT ![f] = then]
      /\ chosen' = IF new THEN chosen \cup {g} ELSE chosen
      /\ repeated' = IF new /\ g \in chosen /\ Within(observed, g) THEN repeated \cup {g}
                     ELSE repeated
      /\ silenced' = IF ~new /\ g \notin chosen THEN silenced \cup {g} ELSE silenced
      /\ missed' \in {missed, missed \cup {g}} /\ dropped' \in {dropped, dropped \ {g}}
      /\ UNCHANGED <<tapClock, row, queued, annFaults>>
  BY DEF TapRelease
<1>2. PICK kept \in SUBSET DOMAIN marked :
        /\ pruneLocked(marked, kept)
        /\ seenAt' = Only(marked, kept)
        /\ observed' = IF kept = DOMAIN marked THEN Marked(observed, g)
                       ELSE Only(Marked(observed, g), kept)
  BY DEF TapRelease, seenAndMark
<1> HIDE DEF pc, out
<1>3. g \in chosen' /\ chosen \subseteq chosen' /\ repeated' = {} /\ silenced' = {}
  <2>1. Suppressed(f, g) => g \in chosen
    BY DEF Suppressed, TapInv, WindowOk, TapOk, Within
  <2>2. new => ~Within(observed, g)
    BY DEF Suppressed, TapInv, WindowOk
  <2> QED BY <1>1, <2>1, <2>2 DEF TapInv, AnnouncedOnce
<1>4. /\ DOMAIN marked = DOMAIN seenAt \cup {g}
      /\ \A h \in DOMAIN marked : marked[h] \in Time
      /\ DOMAIN marked \subseteq Guid
  BY DEF Marked, TapInv, AnnounceTypeOK
<1>5. observed' = seenAt'
  <2>1. Only(marked, DOMAIN marked) = marked
    BY DEF Only, Marked
  <2> QED BY <1>2, <2>1 DEF TapInv, WindowOk
<1> HIDE DEF marked
<1>6. /\ DOMAIN seenAt' \subseteq Guid /\ \A h \in DOMAIN seenAt' : seenAt'[h] \in Time
      /\ DOMAIN seenAt' \subseteq chosen'
      /\ Cardinality(DOMAIN seenAt') <= MaxSeen
  <2>1. /\ DOMAIN seenAt' = kept /\ Cardinality(DOMAIN seenAt') <= MaxSeen
        /\ \A h \in kept : seenAt'[h] = marked[h]
    BY <1>2, Pruned
  <2> QED BY <1>3, <1>4, <2>1 DEF TapInv, WindowOk
<1>7. fill' \in [Fill -> FillState] /\ \A e \in Fill : TapOk(e)' /\ TodoOk(e)'
  <2>1. fill[f] \in FillState
    BY DEF TapInv, AnnounceTypeOK, FillState
  <2>2. out \subseteq Guid /\ pc \in FillPc
    BY <2>1 DEF out, pc, FillState, FillPc
  <2>3. then \in FillState
    BY <2>1, <2>2 DEF FillState
  <2>4. pc # "mark" => todo = {}
    BY DEF pc
  <2>5. then.prior \subseteq chosen' /\ then.page \ then.todo \subseteq chosen'
    BY <1>3 DEF TapInv, TapOk
  <2> HIDE DEF todo
  <2>6. then.pc # "mark" => then.todo = {}
    BY <2>4
  <2> HIDE DEF then
  <2> QED BY <1>1, <1>3, <2>3, <2>5, <2>6, OneFill
<1>8. AnnounceTypeOK'
  <2>1. chosen' \subseteq Guid /\ missed' \subseteq Guid /\ dropped' \subseteq Guid
    BY <1>1 DEF TapInv, AnnounceTypeOK
  <2>2. /\ tapClock' \in Time /\ row' \subseteq Guid /\ queued' \in 0 .. QueueCap
        /\ annFaults' \in 0 .. MaxAnnFault
    BY <1>1 DEF TapInv, AnnounceTypeOK
  <2> QED BY <1>3, <1>5, <1>6, <1>7, <2>1, <2>2 DEF AnnounceTypeOK, FillState, Time
<1>9. WindowOk' /\ AnnouncedOnce'
  BY <1>1, <1>3, <1>5, <1>6 DEF TapInv, WindowOk, AnnouncedOnce
<1> QED BY <1>7, <1>8, <1>9 DEF TapInv

(* The queue, and the upsert at the end.                                    *)
LEMMA SinkStep ==
  ASSUME TapInv, NEW f \in Fill, Enqueue(f) \/ QueueFull(f) \/ DropBatch(f) \/ StorePage(f)
  PROVE  TapInv'
<1> USE AnnounceAssumption DEF AnnounceAssumption
<1>1. fill[f] \in FillState /\ fill[f].pc # "mark"
  BY DEF TapInv, AnnounceTypeOK, FillState, Enqueue, QueueFull, DropBatch, StorePage, FillAt
<1>2. fill[f].page \subseteq chosen /\ fill[f].todo = {} /\ fill[f].prior \subseteq chosen
  BY <1>1 DEF TapInv, TapOk, TodoOk, FillAt
<1>3. PICK new \in FillState :
        /\ fill' = [fill EXCEPT ![f] = new]
        /\ new.prior \subseteq chosen /\ new.page \ new.todo \subseteq chosen
        /\ new.todo = {}
  <2>1. CASE Enqueue(f) \/ DropBatch(f)
    <3> DEFINE n == [fill[f] EXCEPT !.pc = "store", !.out = {}]
    <3>1. fill' = [fill EXCEPT ![f] = n]
      BY <2>1 DEF Enqueue, DropBatch, Handed
    <3>2. n \in FillState
      BY <1>1 DEF FillState, FillPc
    <3>3. n.prior = fill[f].prior /\ n.page = fill[f].page /\ n.todo = fill[f].todo
      BY <1>1 DEF FillState
    <3> HIDE DEF n
    <3> QED BY <1>2, <3>1, <3>2, <3>3
  <2>2. CASE QueueFull(f)
    <3> DEFINE n == [fill[f] EXCEPT !.pc = "wait"]
    <3>1. fill' = [fill EXCEPT ![f] = n]
      BY <2>2 DEF QueueFull
    <3>2. n \in FillState
      BY <1>1 DEF FillState, FillPc
    <3>3. n.prior = fill[f].prior /\ n.page = fill[f].page /\ n.todo = fill[f].todo
      BY <1>1 DEF FillState
    <3> HIDE DEF n
    <3> QED BY <1>2, <3>1, <3>2, <3>3
  <2>3. CASE StorePage(f)
    <3>1. NoFill \in FillState
      BY DEF NoFill, FillState, FillPc
    <3> QED BY <2>3, <3>1 DEF StorePage, NoFill
  <2> QED BY <2>1, <2>2, <2>3
<1>4. /\ UNCHANGED <<tapClock, seenAt, observed, chosen, repeated, silenced, missed>>
      /\ row' \in {row, fill[f].page} /\ dropped' \in {dropped, dropped \cup fill[f].out}
      /\ queued' \in 0 .. QueueCap /\ annFaults' \in 0 .. MaxAnnFault
  BY DEF TapInv, AnnounceTypeOK, Enqueue, QueueFull, DropBatch, StorePage, AnnFault, annHistory
<1>5. fill' \in [Fill -> FillState] /\ \A e \in Fill : TapOk(e)' /\ TodoOk(e)'
  BY <1>3, <1>4, OneFill
<1>6. row' \subseteq Guid /\ dropped' \subseteq Guid /\ row' \subseteq chosen
  BY <1>1, <1>2, <1>4 DEF TapInv, AnnounceTypeOK, FillState, WindowOk
<1>7. AnnounceTypeOK'
  BY <1>4, <1>5, <1>6 DEF TapInv, AnnounceTypeOK, FillState
<1> QED BY <1>4, <1>5, <1>6, <1>7 DEF TapInv, AnnouncedOnce, WindowOk

(* What happens to the tap from outside.                                    *)
LEMMA AroundStep ==
  ASSUME TapInv,
         WorkerTakes \/ LoseRow \/ AnnTick \/ AnnRestart \/ UNCHANGED announceVars
  PROVE  TapInv'
<1> USE AnnounceAssumption DEF AnnounceAssumption
<1>1. CASE WorkerTakes \/ LoseRow \/ AnnTick \/ UNCHANGED announceVars
  <2>1. /\ UNCHANGED <<seenAt, fill, annFaults, annHistory>>
        /\ row' \in {row, {}} /\ queued' \in 0 .. QueueCap /\ tapClock' \in Time
    BY <1>1
    DEF TapInv, AnnounceTypeOK, WorkerTakes, LoseRow, AnnTick, announceVars, annHistory, Time
  <2>2. AnnounceTypeOK'
    BY <2>1 DEF TapInv, AnnounceTypeOK, annHistory
  <2> QED BY <2>1, <2>2 DEF TapInv, AnnouncedOnce, WindowOk, TapOk, TodoOk, FillAt, annHistory
<1>2. CASE AnnRestart
  <2>1. NoFill \in FillState
    BY DEF NoFill, FillState, FillPc
  <2>2. DOMAIN << >> = {} /\ Cardinality({}) = 0
    BY FS_EmptySet
  <2>3. /\ seenAt' = << >> /\ observed' = << >> /\ fill' = [f \in Fill |-> NoFill]
        /\ queued' = 0 /\ annFaults' \in 0 .. MaxAnnFault
        /\ UNCHANGED <<tapClock, row, chosen, dropped, repeated, silenced, missed>>
    BY <1>2 DEF AnnRestart, AnnFault, TapInv, AnnounceTypeOK
  <2>4. AnnounceTypeOK'
    BY <2>1, <2>2, <2>3 DEF TapInv, AnnounceTypeOK, FillState
  <2> QED BY <2>2, <2>3, <2>4 DEF TapInv, AnnouncedOnce, WindowOk, TapOk, TodoOk, NoFill
<1> QED BY <1>1, <1>2

LEMMA TapStep == TapInv /\ [AnnounceNext]_announceVars => TapInv'
<1> QED BY TapReadsStep, TapReleaseStep, SinkStep, AroundStep DEF AnnounceNext

LEMMA TapInvariant == AnnounceSpec => []TapInv
<1> QED BY TapStart, TapStep, PTL DEF AnnounceSpec

-----------------------------------------------------------------------------
(* The types of the tap, with the size of its window and of its queue      *)
(* (registry/searchcache_announce.go).                                     *)
THEOREM AnnounceTypeCorrect == AnnounceSpec => []AnnounceTypeOK
<1>1. TapInv => AnnounceTypeOK
  BY DEF TapInv
<1> QED BY <1>1, TapInvariant, PTL

(* For any number of overlapping write-backs and any size of the window, a   *)
(* release is found new once as long as it is observed within every window,  *)
(* and none is suppressed that never was new (tapAnnounce).                 *)
THEOREM ReleasesAnnouncedOnce == AnnounceSpec => []AnnouncedOnce
<1>1. TapInv => AnnouncedOnce
  BY DEF TapInv
<1> QED BY <1>1, TapInvariant, PTL

---------------------------------------------------------------------------
(***************************************************************************)
(* Health, for any number of searches, grabs, tests and events: once the    *)
(* records are in, the status follows the newest failure or success, in     *)
(* whatever order they arrived.                                             *)
(***************************************************************************)

Event == [id : Nat \ {0}, at : Nat \ {0}]

(* What a failed rehydration still has to bring back counts as known.       *)
QueryKnown == IF rehydrated THEN stat.query ELSE Later(stat.query, saved.query)
SuccessKnown == IF rehydrated THEN stat.success ELSE Later(stat.success, saved.success)

(* Every instant on its way to the store was read from the clock.           *)
InstantsOk ==
  /\ \A e \in events : e.id <= MaxEvent /\ e.at <= now
  /\ \A a \in Attempt : ~Busy(a, "idle") => 0 < attempt[a].at /\ attempt[a].at <= now

(* The newest success is on record, and so is the newest failure.           *)
SuccessOk == okAt = Later(SuccessKnown, recovery.at)
FailureOk == failAt <= QueryKnown \/ \E e \in events : failAt <= e.at

(* A query newer than every failure and success is one whose success is     *)
(* about to be recorded.                                                    *)
QueryOk ==
  QueryKnown <= failAt \/ QueryKnown <= okAt
    \/ \E a \in Attempt : Busy(a, "success") /\ QueryKnown <= attempt[a].at

(* An event is of a failure, or covered by the watermark, or of a promotion *)
(* whose watermark is about to be written.                                  *)
EventOk(e) ==
  \/ e.at <= failAt
  \/ e.at <= recovery.at /\ e.id <= recovery.through
  \/ \E a \in Attempt :
       Busy(a, "watermark") /\ attempt[a].kind = "promotion" /\ e.at <= attempt[a].at

HealthInv ==
  /\ HealthTypeOK /\ InstantsOk
  /\ ~masked => SuccessOk /\ FailureOk /\ QueryOk /\ \A e \in events : EventOk(e)

-----------------------------------------------------------------------------
LEMMA LaterFacts ==
  ASSUME NEW m \in Nat, NEW n \in Nat
  PROVE  Later(m, n) \in Nat /\ m <= Later(m, n) /\ n <= Later(m, n) /\ Later(m, n) \in {m, n}
<1> QED BY DEF Later

(* The newest event is of the latest instant.                               *)
LEMMA NewestFacts ==
  ASSUME HealthTypeOK, InstantsOk, events # {}
  PROVE  Newest \in events /\ \A e \in events : e.at <= Newest.at
<1> USE HealthBounds DEF HealthTypeOK
<1> DEFINE Ats == {e.at : e \in events}
<1>1. Ats \in SUBSET (0 .. now) /\ Ats # {} /\ now \in Nat
  BY DEF InstantsOk
<1>2. PICK t \in Ats : \A u \in Ats : u <= t
  BY <1>1, BoundedMax
<1> DEFINE Ids == {e.id : e \in {x \in events : x.at = t}}
<1>3. Ids \in SUBSET (0 .. MaxEvent) /\ Ids # {} /\ MaxEvent \in Nat
  BY <1>2 DEF InstantsOk
<1>4. PICK i \in Ids : \A j \in Ids : j <= i
  BY <1>3, BoundedMax
<1>5. PICK e \in events : e.at = t /\ e.id = i
  BY <1>4
<1>6. \A x \in events : x.at < e.at \/ (x.at = e.at /\ x.id <= e.id)
  <2> SUFFICES ASSUME NEW x \in events PROVE x.at < e.at \/ (x.at = e.at /\ x.id <= e.id)
    OBVIOUS
  <2>1. x.at <= t /\ x.at \in Nat /\ t \in Nat
    BY <1>1, <1>2
  <2>2. x.at = t => x.id <= i
    BY <1>4
  <2> QED BY <1>5, <2>1, <2>2
<1>7. /\ Newest \in events
      /\ \A x \in events : x.at < Newest.at \/ (x.at = Newest.at /\ x.id <= Newest.id)
  BY <1>6 DEF Newest
<1> QED BY <1>7

(* The next event's id is above all that are in the table.                  *)
LEMMA TopIdFacts ==
  ASSUME HealthTypeOK, InstantsOk
  PROVE  TopId \in Nat /\ \A e \in events : e.id <= TopId
<1> USE HealthBounds DEF HealthTypeOK
<1> DEFINE Ids == {e.id : e \in events}
<1>1. CASE events = {}
  BY <1>1 DEF TopId
<1>2. CASE events # {}
  <2>1. Ids \in SUBSET (0 .. MaxEvent) /\ Ids # {} /\ MaxEvent \in Nat
    BY <1>2 DEF InstantsOk
  <2>2. PICK i \in Ids : \A j \in Ids : j <= i
    BY <2>1, BoundedMax
  <2>3. \A e \in events : e.id <= i
    BY <2>2
  <2>4. TopId \in Ids /\ \A e \in events : e.id <= TopId
    BY <1>2, <2>2, <2>3 DEF TopId
  <2> QED BY <2>1, <2>4
<1> QED BY <1>1, <1>2

LEMMA IdleTyped == IdleAttempt \in AttemptState
<1> QED BY DEF IdleAttempt, AttemptState, AttemptKind

LEMMA HealthStart == HealthInit => HealthInv
<1> SUFFICES ASSUME HealthInit PROVE HealthInv
  OBVIOUS
<1> USE DEF HealthInit
<1>1. HealthTypeOK
  <2>1. /\ attempt \in [Attempt -> AttemptState] /\ stat \in Instants /\ saved \in Instants
        /\ recovery \in [through : Nat, at : Nat]
    BY IdleTyped DEF Instants
  <2>2. now \in Nat \ {0} /\ rehydrated \in BOOLEAN
    OBVIOUS
  <2>3. events \subseteq Event
    OBVIOUS
  <2>4. attempts \in Nat /\ relaunches \in Nat /\ okAt \in Nat /\ failAt \in Nat
    OBVIOUS
  <2>5. masked \in BOOLEAN
    OBVIOUS
  <2> HIDE DEF HealthInit
  <2> QED BY <2>1, <2>2, <2>3, <2>4, <2>5 DEF HealthTypeOK, Event
<1>2. InstantsOk
  BY DEF InstantsOk, Busy, IdleAttempt
<1>3. SuccessOk /\ FailureOk /\ QueryOk
  BY DEF SuccessOk, FailureOk, QueryOk, SuccessKnown, QueryKnown, Later
<1> QED BY <1>1, <1>2, <1>3 DEF HealthInv

-----------------------------------------------------------------------------
(* One attempt moves, and the others stay where they are.                   *)
LEMMA Moves ==
  ASSUME HealthTypeOK, InstantsOk, NEW a \in Attempt, NEW new \in AttemptState,
         attempt' = [attempt EXCEPT ![a] = new], now' = now,
         new.pc # "idle" => 0 < new.at /\ new.at <= now
  PROVE  /\ attempt' \in [Attempt -> AttemptState]
         /\ attempt'[a] = new /\ \A b \in Attempt \ {a} : attempt'[b] = attempt[b]
         /\ \A b \in Attempt : ~Busy(b, "idle")' => 0 < attempt'[b].at /\ attempt'[b].at <= now'
<1>1. /\ attempt' \in [Attempt -> AttemptState]
      /\ attempt'[a] = new /\ \A b \in Attempt \ {a} : attempt'[b] = attempt[b]
  BY DEF HealthTypeOK
<1> QED BY <1>1 DEF InstantsOk, Busy

LEMMA ReturnsStep ==
  ASSUME HealthInv, NEW a \in Attempt, NEW kind \in AttemptKind, NEW ok \in BOOLEAN,
         NEW classified \in BOOLEAN, Returns(a, kind, ok, classified)
  PROVE  HealthInv'
<1> DEFINE next == IF kind = "search" THEN "query" ELSE After(kind, ok, classified)
           new == [kind |-> kind, at |-> now, pc |-> next,
                   ok |-> kind = "search" /\ ok, classified |-> kind = "search" /\ classified]
<1>1. next \in {"idle", "query", "event", "watermark", "success"}
  BY DEF After, AttemptKind
<1>2. /\ Busy(a, "idle") /\ attempts' = attempts + 1
      /\ attempt' = [attempt EXCEPT ![a] = new]
      /\ UNCHANGED <<now, events, recovery, stat, saved, rehydrated, relaunches, okAt, failAt, masked>>
  BY DEF Returns
<1> HIDE DEF next
<1>3. new \in AttemptState /\ new.at = now /\ now \in Nat \ {0}
  BY <1>1 DEF AttemptState, HealthInv, HealthTypeOK
<1> HIDE DEF new
<1>4. /\ attempt' \in [Attempt -> AttemptState]
      /\ attempt'[a] = new /\ \A b \in Attempt \ {a} : attempt'[b] = attempt[b]
      /\ \A b \in Attempt : ~Busy(b, "idle")' => 0 < attempt'[b].at /\ attempt'[b].at <= now'
  <2>1. new.pc # "idle" => 0 < new.at /\ new.at <= now
    BY <1>3
  <2> QED BY <1>2, <1>3, <2>1, Moves DEF HealthInv
<1>5. HealthTypeOK' /\ InstantsOk'
  BY <1>2, <1>4 DEF HealthInv, HealthTypeOK, InstantsOk
<1>6. (SuccessOk => SuccessOk') /\ (FailureOk => FailureOk')
  BY <1>2 DEF SuccessOk, FailureOk, SuccessKnown, QueryKnown
<1>7. QueryOk => QueryOk'
  BY <1>2, <1>4 DEF QueryOk, QueryKnown, Busy
<1>8. ASSUME NEW e \in events, EventOk(e) PROVE EventOk(e)'
  BY <1>2, <1>4, <1>8 DEF EventOk, Busy
<1> QED BY <1>2, <1>5, <1>6, <1>7, <1>8 DEF HealthInv

(* A query is stored, and then its outcome is next.                         *)
LEMMA RecordQueryStep ==
  ASSUME HealthInv, NEW a \in Attempt, RecordQuery(a)
  PROVE  HealthInv'
<1> DEFINE at == attempt[a].at
           next == After("search", attempt[a].ok, attempt[a].classified)
           then == [IdleAttempt EXCEPT !.pc = next, !.at = now,
                      !.kind = IF next = "watermark" THEN attempt[a].kind ELSE @]
           new == IF next = "idle" THEN IdleAttempt ELSE then
<1>1. /\ Busy(a, "query") /\ stat' = [stat EXCEPT !.query = at]
      /\ attempt' = [attempt EXCEPT ![a] = new]
      /\ failAt' = IF attempt[a].ok THEN failAt ELSE Later(failAt, at)
      /\ masked' = (masked \/ at < stat.query)
      /\ UNCHANGED <<now, events, recovery, saved, rehydrated, attempts, relaunches, okAt>>
  BY DEF RecordQuery, Rest, Become
<1>2. /\ attempt[a] \in AttemptState /\ at \in Nat /\ at <= now
      /\ now \in Nat \ {0} /\ failAt \in Nat /\ okAt \in Nat
      /\ stat \in Instants /\ saved \in Instants /\ recovery \in [through : Nat, at : Nat]
  BY <1>1 DEF HealthInv, HealthTypeOK, AttemptState, InstantsOk, Busy
<1>3. /\ next \in {"idle", "event", "success"}
      /\ attempt[a].ok => next = "success"
  BY <1>2 DEF After, AttemptState
<1> HIDE DEF next
<1>4. new \in AttemptState /\ (new.pc # "idle" => new.at = now) /\ new.pc = next
  <2>1. then \in AttemptState /\ then.at = now /\ then.pc = next
    BY <1>2, <1>3 DEF IdleAttempt, AttemptState, AttemptKind
  <2>2. IdleAttempt.pc = "idle"
    BY DEF IdleAttempt
  <2> HIDE DEF then
  <2> QED BY <2>1, <2>2, IdleTyped
<1> HIDE DEF new, at
<1>5. /\ attempt' \in [Attempt -> AttemptState]
      /\ attempt'[a] = new /\ \A b \in Attempt \ {a} : attempt'[b] = attempt[b]
      /\ \A b \in Attempt : ~Busy(b, "idle")' => 0 < attempt'[b].at /\ attempt'[b].at <= now'
  <2>1. new.pc # "idle" => 0 < new.at /\ new.at <= now
    BY <1>2, <1>4
  <2> QED BY <1>1, <1>4, <2>1, Moves DEF HealthInv
<1>6. stat' \in Instants /\ stat'.query = at /\ stat'.success = stat.success
  BY <1>1, <1>2 DEF Instants
<1>7. failAt' \in Nat /\ failAt <= failAt' /\ (~attempt[a].ok => at <= failAt')
  BY <1>1, <1>2, LaterFacts
<1>8. HealthTypeOK' /\ InstantsOk'
  <2>1. masked' \in BOOLEAN
    BY <1>1 DEF HealthInv, HealthTypeOK
  <2> QED BY <1>1, <1>5, <1>6, <1>7, <2>1 DEF HealthInv, HealthTypeOK, InstantsOk
<1>9. ASSUME ~masked' PROVE SuccessOk' /\ FailureOk' /\ QueryOk' /\ \A e \in events' : EventOk(e)'
  <2>1. ~masked /\ stat.query <= at
    <3>1. ~masked /\ ~(at < stat.query)
      BY <1>1, <1>9, Zenon
    <3> QED BY <1>2, <3>1 DEF Instants
  <2>2. SuccessOk /\ FailureOk /\ QueryOk /\ \A e \in events : EventOk(e)
    BY <2>1 DEF HealthInv
  <2>3. SuccessOk'
    BY <1>1, <1>6, <2>2 DEF SuccessOk, SuccessKnown
  <2>4. /\ QueryKnown' = IF rehydrated THEN at ELSE Later(at, saved.query)
        /\ QueryKnown <= QueryKnown' /\ at <= QueryKnown' /\ QueryKnown' \in {at, QueryKnown}
        /\ QueryKnown \in Nat /\ QueryKnown' \in Nat
    BY <1>1, <1>2, <1>6, <2>1 DEF QueryKnown, Instants, Later
  <2>5. FailureOk'
    <3>1. failAt' \in {failAt, at}
      BY <1>1, <1>2, LaterFacts
    <3>2. CASE failAt' = at
      BY <2>4, <3>2 DEF FailureOk
    <3>3. CASE failAt' = failAt
      BY <1>1, <1>2, <2>2, <2>4, <3>3 DEF FailureOk
    <3> QED BY <3>1, <3>2, <3>3
  <2>6. QueryOk'
    <3>1. CASE QueryKnown' = at
      <4>1. CASE attempt[a].ok
        <5>1. Busy(a, "success")' /\ at <= attempt'[a].at
          BY <1>2, <1>3, <1>4, <1>5, <4>1 DEF Busy
        <5> QED BY <3>1, <5>1 DEF QueryOk
      <4>2. CASE ~attempt[a].ok
        BY <1>7, <3>1, <4>2 DEF QueryOk
      <4> QED BY <4>1, <4>2
    <3>2. CASE QueryKnown' = QueryKnown
      <4>1. CASE QueryKnown <= failAt \/ QueryKnown <= okAt
        BY <1>1, <1>2, <1>7, <2>4, <3>2, <4>1 DEF QueryOk
      <4>2. CASE \E b \in Attempt : Busy(b, "success") /\ QueryKnown <= attempt[b].at
        <5>1. PICK b \in Attempt : Busy(b, "success") /\ QueryKnown <= attempt[b].at
          BY <4>2
        <5>2. b # a
          BY <1>1, <5>1 DEF Busy
        <5> QED BY <1>5, <3>2, <5>1, <5>2 DEF QueryOk, Busy
      <4> QED BY <2>2, <4>1, <4>2 DEF QueryOk
    <3> QED BY <2>4, <3>1, <3>2
  <2>7. ASSUME NEW e \in events PROVE EventOk(e)'
    <3>1. EventOk(e) /\ e.at \in Nat
      BY <2>2 DEF HealthInv, HealthTypeOK
    <3>2. \A b \in Attempt : Busy(b, "watermark") => attempt'[b] = attempt[b]
      BY <1>1, <1>5 DEF Busy
    <3> QED BY <1>1, <1>2, <1>7, <3>1, <3>2 DEF EventOk, Busy
  <2> QED BY <1>1, <2>3, <2>5, <2>6, <2>7
<1> QED BY <1>8, <1>9 DEF HealthInv

Becoming(a, pc) ==
  [IdleAttempt EXCEPT !.pc = pc, !.at = now,
                      !.kind = IF pc = "watermark" THEN attempt[a].kind ELSE @]

LEMMA BecomingTyped ==
  ASSUME HealthTypeOK, NEW a \in Attempt, NEW pc \in {"event", "watermark", "success"}
  PROVE  /\ Becoming(a, pc) \in AttemptState
         /\ Becoming(a, pc).pc = pc /\ Becoming(a, pc).at = now
         /\ pc = "watermark" => Becoming(a, pc).kind = attempt[a].kind
<1>1. attempt[a] \in AttemptState /\ now \in Nat
  BY DEF HealthTypeOK
<1> QED BY <1>1 DEF Becoming, IdleAttempt, AttemptState, AttemptKind

(* An event is stored, or is not: a failure ends there, a promotion's       *)
(* watermark is next.                                                       *)
LEMMA RecordEventStep ==
  ASSUME HealthInv, NEW a \in Attempt, RecordEvent(a)
  PROVE  HealthInv'
<1> USE HealthBounds
<1> DEFINE promotes == attempt[a].kind = "promotion"
           new == IF promotes THEN Becoming(a, "watermark") ELSE IdleAttempt
           fresh == [id |-> TopId + 1, at |-> attempt[a].at]
<1>1. /\ Busy(a, "event") /\ TopId < MaxEvent
      /\ attempt' = [attempt EXCEPT ![a] = new]
      /\ UNCHANGED <<now, recovery, stat, saved, rehydrated, attempts, relaunches, okAt, masked>>
  BY DEF RecordEvent, Rest, Become, Becoming
<1>2. \/ /\ events' = events \cup {fresh}
         /\ failAt' = IF promotes THEN failAt ELSE Later(failAt, attempt[a].at)
      \/ UNCHANGED <<events, failAt>>
  BY DEF RecordEvent
<1>3. /\ attempt[a] \in AttemptState /\ 0 < attempt[a].at /\ attempt[a].at <= now
      /\ attempt[a].at \in Nat /\ now \in Nat \ {0} /\ failAt \in Nat /\ okAt \in Nat
      /\ TopId \in Nat
  BY <1>1, TopIdFacts DEF HealthInv, HealthTypeOK, AttemptState, InstantsOk, Busy
<1>4. /\ new \in AttemptState /\ (new.pc # "idle" => new.at = now)
      /\ promotes => new.pc = "watermark" /\ new.kind = "promotion" /\ new.at = now
  BY BecomingTyped, IdleTyped DEF HealthInv, IdleAttempt
<1> HIDE DEF new
<1>5. /\ attempt' \in [Attempt -> AttemptState]
      /\ attempt'[a] = new /\ \A b \in Attempt \ {a} : attempt'[b] = attempt[b]
      /\ \A b \in Attempt : ~Busy(b, "idle")' => 0 < attempt'[b].at /\ attempt'[b].at <= now'
  <2>1. new.pc # "idle" => 0 < new.at /\ new.at <= now
    BY <1>3, <1>4
  <2> QED BY <1>1, <1>4, <2>1, Moves DEF HealthInv
<1>6. /\ fresh \in Event /\ fresh.id <= MaxEvent /\ fresh.at <= now /\ fresh.at = attempt[a].at
  BY <1>1, <1>3 DEF Event
<1> HIDE DEF fresh
<1>7. failAt' \in Nat /\ failAt <= failAt' /\ events \subseteq events' /\ events' \subseteq events \cup {fresh}
  <2>1. Later(failAt, attempt[a].at) \in Nat /\ failAt <= Later(failAt, attempt[a].at)
    BY <1>3, LaterFacts
  <2> QED BY <1>2, <1>3, <2>1
<1>8. HealthTypeOK' /\ InstantsOk'
  <2>1. events' \subseteq Event /\ \A e \in events' : e.id <= MaxEvent /\ e.at <= now
    BY <1>6, <1>7 DEF HealthInv, HealthTypeOK, InstantsOk, Event
  <2> QED BY <1>1, <1>5, <1>7, <2>1 DEF HealthInv, HealthTypeOK, InstantsOk, Event
<1>9. ASSUME ~masked' PROVE SuccessOk' /\ FailureOk' /\ QueryOk' /\ \A e \in events' : EventOk(e)'
  <2>1. SuccessOk /\ FailureOk /\ QueryOk /\ \A e \in events : EventOk(e)
    BY <1>1, <1>9 DEF HealthInv
  <2>2. SuccessOk' /\ QueryKnown' = QueryKnown /\ QueryKnown \in Nat
    BY <1>1, <2>1, LaterFacts
    DEF SuccessOk, SuccessKnown, QueryKnown, HealthInv, HealthTypeOK, Instants
  <2>3. FailureOk'
    <3>1. CASE failAt' = failAt
      BY <1>7, <2>1, <2>2, <3>1 DEF FailureOk
    <3>2. CASE failAt' # failAt
      <4>1. fresh \in events' /\ failAt' <= fresh.at
        <5>1. fresh \in events' /\ failAt' = Later(failAt, attempt[a].at)
          BY <1>2, <3>2
        <5>2. failAt' \in {failAt, attempt[a].at}
          BY <1>3, <5>1, LaterFacts
        <5> QED BY <1>3, <1>6, <3>2, <5>1, <5>2
      <4> QED BY <4>1 DEF FailureOk
    <3> QED BY <3>1, <3>2
  <2>4. QueryOk'
    <3>1. CASE QueryKnown <= failAt \/ QueryKnown <= okAt
      BY <1>1, <1>3, <1>7, <2>2, <3>1 DEF QueryOk
    <3>2. CASE \E b \in Attempt : Busy(b, "success") /\ QueryKnown <= attempt[b].at
      <4>1. PICK b \in Attempt : Busy(b, "success") /\ QueryKnown <= attempt[b].at
        BY <3>2
      <4>2. b # a
        BY <1>1, <4>1 DEF Busy
      <4> QED BY <1>5, <2>2, <4>1, <4>2 DEF QueryOk, Busy
    <3> QED BY <2>1, <3>1, <3>2 DEF QueryOk
  <2>5. ASSUME NEW e \in events PROVE EventOk(e)'
    <3>1. EventOk(e) /\ e.at \in Nat
      BY <2>1 DEF HealthInv, HealthTypeOK
    <3>2. \A b \in Attempt : Busy(b, "watermark") => attempt'[b] = attempt[b]
      BY <1>1, <1>5 DEF Busy
    <3> QED BY <1>1, <1>3, <1>7, <3>1, <3>2 DEF EventOk, Busy
  <2>6. ASSUME NEW e \in events' \ events PROVE EventOk(e)'
    <3>1. e = fresh /\ e.at = attempt[a].at
      BY <1>6, <1>7
    <3>2. CASE promotes
      BY <1>1, <1>3, <1>4, <1>5, <3>1, <3>2 DEF EventOk, Busy
    <3>3. CASE ~promotes
      <4>1. failAt' = Later(failAt, attempt[a].at)
        BY <1>2, <3>1, <3>3
      <4> QED BY <1>3, <3>1, <4>1, LaterFacts DEF EventOk
    <3> QED BY <3>2, <3>3
  <2> QED BY <1>7, <2>2, <2>3, <2>4, <2>5, <2>6
<1> QED BY <1>8, <1>9 DEF HealthInv

(* The watermark covers every event, and the success of its attempt follows. *)
LEMMA RecordRecoveryStep ==
  ASSUME HealthInv, NEW a \in Attempt, RecordRecovery(a)
  PROVE  HealthInv'
<1> DEFINE at == attempt[a].at
           promotes == attempt[a].kind = "promotion"
<1>1. /\ Busy(a, "watermark")
      /\ UNCHANGED <<now, events, stat, saved, rehydrated, attempts, relaunches, failAt>>
      /\ \/ /\ recovery' = [through |-> TopId, at |-> at] /\ okAt' = Later(okAt, at)
            /\ masked' = (masked \/ at < recovery.at)
         \/ /\ UNCHANGED <<recovery, okAt>>
            /\ masked' = (masked \/ promotes)
  BY DEF RecordRecovery
<1>2. /\ attempt[a] \in AttemptState /\ 0 < at /\ at <= now /\ at \in Nat
      /\ now \in Nat \ {0} /\ failAt \in Nat /\ okAt \in Nat
      /\ recovery \in [through : Nat, at : Nat] /\ stat \in Instants /\ saved \in Instants
  BY <1>1 DEF HealthInv, HealthTypeOK, AttemptState, InstantsOk, Busy
<1>3. TopId \in Nat /\ \A e \in events : e.id <= TopId
  BY TopIdFacts DEF HealthInv
<1> HIDE DEF at
<1>4. PICK new \in {IdleAttempt, Becoming(a, "success")} : attempt' = [attempt EXCEPT ![a] = new]
  BY DEF RecordRecovery, Rest, Become, Becoming
<1>5. new \in AttemptState /\ (new.pc # "idle" => new.at = now)
  <2>1. CASE new = IdleAttempt
    BY <2>1, IdleTyped DEF IdleAttempt
  <2>2. CASE new = Becoming(a, "success")
    BY <2>2, BecomingTyped DEF HealthInv
  <2> QED BY <1>4, <2>1, <2>2
<1>6. /\ attempt' \in [Attempt -> AttemptState]
      /\ attempt'[a] = new /\ \A b \in Attempt \ {a} : attempt'[b] = attempt[b]
      /\ \A b \in Attempt : ~Busy(b, "idle")' => 0 < attempt'[b].at /\ attempt'[b].at <= now'
  <2>1. new.pc # "idle" => 0 < new.at /\ new.at <= now
    BY <1>2, <1>5
  <2> QED BY <1>1, <1>4, <1>5, <2>1, Moves DEF HealthInv
<1>7. HealthTypeOK' /\ InstantsOk'
  <2>1. recovery' \in [through : Nat, at : Nat] /\ okAt' \in Nat
    <3>1. Later(okAt, at) \in Nat
      BY <1>2, LaterFacts
    <3>2. [through |-> TopId, at |-> at] \in [through : Nat, at : Nat]
      BY <1>2, <1>3
    <3> QED BY <1>1, <1>2, <3>1, <3>2
  <2>2. masked' \in BOOLEAN
    BY <1>1 DEF HealthInv, HealthTypeOK
  <2> QED BY <2>2, <1>1, <1>6, <2>1 DEF HealthInv, HealthTypeOK, InstantsOk
<1>8. ASSUME ~masked' PROVE SuccessOk' /\ FailureOk' /\ QueryOk' /\ \A e \in events' : EventOk(e)'
  <2>1. /\ ~masked
        /\ \/ /\ recovery' = [through |-> TopId, at |-> at] /\ okAt' = Later(okAt, at)
              /\ ~(at < recovery.at)
           \/ UNCHANGED <<recovery, okAt>> /\ ~promotes
    BY <1>1, <1>8, Zenon
  <2>2. SuccessOk /\ FailureOk /\ QueryOk /\ \A e \in events : EventOk(e)
    BY <2>1 DEF HealthInv
  <2>3. QueryKnown' = QueryKnown /\ SuccessKnown' = SuccessKnown
        /\ QueryKnown \in Nat /\ SuccessKnown \in Nat
    BY <1>1, <1>2, LaterFacts DEF QueryKnown, SuccessKnown, Instants
  <2>4. SuccessOk'
    BY <1>2, <2>1, <2>2, <2>3 DEF SuccessOk, Later
  <2>5. FailureOk'
    BY <1>1, <2>2, <2>3 DEF FailureOk
  <2>6. okAt' \in Nat /\ okAt <= okAt'
    <3>1. Later(okAt, at) \in Nat /\ okAt <= Later(okAt, at)
      BY <1>2, LaterFacts
    <3> QED BY <1>2, <2>1, <3>1
  <2>7. QueryOk'
    <3>1. CASE QueryKnown <= failAt \/ QueryKnown <= okAt
      BY <1>1, <1>2, <2>3, <2>6, <3>1 DEF QueryOk
    <3>2. CASE \E b \in Attempt : Busy(b, "success") /\ QueryKnown <= attempt[b].at
      <4>1. PICK b \in Attempt : Busy(b, "success") /\ QueryKnown <= attempt[b].at
        BY <3>2
      <4>2. b # a
        BY <1>1, <4>1 DEF Busy
      <4> QED BY <1>6, <2>3, <4>1, <4>2 DEF QueryOk, Busy
    <3> QED BY <2>2, <3>1, <3>2 DEF QueryOk
  <2>8. ASSUME NEW e \in events PROVE EventOk(e)'
    <3>1. EventOk(e) /\ e.at \in Nat /\ e.id <= TopId
      BY <1>3, <2>2 DEF HealthInv, HealthTypeOK
    <3>2. CASE e.at <= failAt
      BY <1>1, <3>2 DEF EventOk
    <3>3. CASE e.at <= recovery.at /\ e.id <= recovery.through
      BY <1>2, <2>1, <3>1, <3>3 DEF EventOk
    <3>4. ASSUME NEW b \in Attempt, Busy(b, "watermark"), attempt[b].kind = "promotion",
                 e.at <= attempt[b].at
          PROVE  EventOk(e)'
      <4>1. CASE b # a
        BY <1>6, <3>4, <4>1 DEF EventOk, Busy
      <4>2. CASE b = a
        BY <2>1, <3>1, <3>4, <4>2 DEF EventOk, at
      <4> QED BY <4>1, <4>2
    <3> QED BY <3>1, <3>2, <3>3, <3>4 DEF EventOk
  <2> QED BY <1>1, <2>4, <2>5, <2>7, <2>8
<1> QED BY <1>7, <1>8 DEF HealthInv

LEMMA RecordSuccessStep ==
  ASSUME HealthInv, NEW a \in Attempt, RecordSuccess(a)
  PROVE  HealthInv'
<1> DEFINE at == attempt[a].at
<1>1. /\ Busy(a, "success")
      /\ stat' = [stat EXCEPT !.success = Later(stat.success, at)]
      /\ okAt' = Later(okAt, at)
      /\ attempt' = [attempt EXCEPT ![a] = IdleAttempt]
      /\ UNCHANGED <<now, events, recovery, saved, rehydrated, attempts, relaunches, failAt, masked>>
  BY DEF RecordSuccess, Rest, storeIfGreater
<1>2. /\ at \in Nat /\ failAt \in Nat /\ okAt \in Nat /\ stat \in Instants /\ saved \in Instants
      /\ recovery \in [through : Nat, at : Nat]
  BY DEF HealthInv, HealthTypeOK, AttemptState
<1> HIDE DEF at
<1>3. /\ attempt' \in [Attempt -> AttemptState]
      /\ attempt'[a] = IdleAttempt /\ \A b \in Attempt \ {a} : attempt'[b] = attempt[b]
      /\ \A b \in Attempt : ~Busy(b, "idle")' => 0 < attempt'[b].at /\ attempt'[b].at <= now'
  <2>1. IdleAttempt.pc = "idle"
    BY DEF IdleAttempt
  <2> QED BY <1>1, <2>1, IdleTyped, Moves DEF HealthInv
<1>4. /\ stat' \in Instants /\ stat'.query = stat.query /\ stat'.success = Later(stat.success, at)
      /\ okAt' \in Nat /\ okAt <= okAt' /\ at <= okAt'
  <2>1. stat.success \in Nat /\ Later(stat.success, at) \in Nat
    BY <1>2, LaterFacts DEF Instants
  <2> QED BY <1>1, <1>2, <2>1, LaterFacts DEF Instants
<1>5. HealthTypeOK' /\ InstantsOk'
  BY <1>1, <1>3, <1>4 DEF HealthInv, HealthTypeOK, InstantsOk
<1>6. ASSUME ~masked' PROVE SuccessOk' /\ FailureOk' /\ QueryOk' /\ \A e \in events' : EventOk(e)'
  <2>1. SuccessOk /\ FailureOk /\ QueryOk /\ \A e \in events : EventOk(e)
    BY <1>1, <1>6 DEF HealthInv
  <2>2. QueryKnown' = QueryKnown /\ QueryKnown \in Nat
    BY <1>1, <1>2, <1>4, LaterFacts DEF QueryKnown, Instants
  <2>3. SuccessKnown \in Nat /\ SuccessKnown' = Later(SuccessKnown, at)
    BY <1>1, <1>2, <1>4 DEF SuccessKnown, Instants, Later
  <2>4. SuccessOk'
    BY <1>1, <1>2, <2>1, <2>3 DEF SuccessOk, Later
  <2>5. FailureOk'
    BY <1>1, <2>1, <2>2 DEF FailureOk
  <2>6. QueryOk'
    <3>1. CASE QueryKnown <= failAt \/ QueryKnown <= okAt
      BY <1>1, <1>2, <1>4, <2>2, <3>1 DEF QueryOk
    <3>2. CASE \E b \in Attempt : Busy(b, "success") /\ QueryKnown <= attempt[b].at
      <4>1. PICK b \in Attempt : Busy(b, "success") /\ QueryKnown <= attempt[b].at
        BY <3>2
      <4>2. CASE b # a
        BY <1>3, <2>2, <4>1, <4>2 DEF QueryOk, Busy
      <4>3. CASE b = a
        BY <1>2, <1>4, <2>2, <4>1, <4>3 DEF QueryOk, at
      <4> QED BY <4>2, <4>3
    <3> QED BY <2>1, <3>1, <3>2 DEF QueryOk
  <2>7. ASSUME NEW e \in events PROVE EventOk(e)'
    <3>1. \A b \in Attempt : Busy(b, "watermark") => attempt'[b] = attempt[b]
      BY <1>1, <1>3 DEF Busy
    <3> QED BY <1>1, <2>1, <3>1 DEF EventOk, Busy
  <2> QED BY <1>1, <2>4, <2>5, <2>6, <2>7
<1> QED BY <1>5, <1>6 DEF HealthInv

-----------------------------------------------------------------------------
LEMMA ClockAndFlushStep ==
  ASSUME HealthInv, HealthTick \/ FlushInstants \/ UNCHANGED healthVars
  PROVE  HealthInv'
<1>1. CASE HealthTick \/ UNCHANGED healthVars
  <2>1. /\ now' \in Nat \ {0} /\ now <= now'
        /\ UNCHANGED <<events, recovery, stat, saved, rehydrated, attempt, attempts, relaunches,
                       okAt, failAt, masked>>
    BY <1>1 DEF HealthTick, healthVars, HealthInv, HealthTypeOK
  <2>2. HealthTypeOK'
    BY <2>1 DEF HealthInv, HealthTypeOK
  <2>3. InstantsOk'
    <3>1. \A e \in events : e.at \in Nat
      BY DEF HealthInv, HealthTypeOK
    <3>2. \A a \in Attempt : attempt[a].at \in Nat
      BY DEF HealthInv, HealthTypeOK, AttemptState
    <3>3. now \in Nat
      BY DEF HealthInv, HealthTypeOK
    <3> QED BY <2>1, <3>1, <3>2, <3>3 DEF HealthInv, InstantsOk, Busy
  <2>4. /\ SuccessOk => SuccessOk'
        /\ FailureOk => FailureOk'
        /\ QueryOk => QueryOk'
        /\ \A e \in events : EventOk(e) => EventOk(e)'
    BY <2>1 DEF SuccessOk, FailureOk, QueryOk, EventOk, SuccessKnown, QueryKnown, Busy
  <2> QED BY <2>1, <2>2, <2>3, <2>4 DEF HealthInv
<1>2. CASE FlushInstants
  <2>1. /\ stat' = IF rehydrated THEN stat ELSE Folded
        /\ rehydrated' = TRUE /\ saved' = stat'
        /\ UNCHANGED <<now, events, recovery, attempt, attempts, relaunches, okAt, failAt, masked>>
    BY <1>2 DEF FlushInstants
  <2>2. stat \in Instants /\ saved \in Instants
    BY DEF HealthInv, HealthTypeOK
  <2>3. stat' \in Instants /\ stat'.query = QueryKnown /\ stat'.success = SuccessKnown
    BY <2>1, <2>2 DEF Instants, Folded, QueryKnown, SuccessKnown, Later
  <2>4. HealthTypeOK' /\ InstantsOk'
    BY <2>1, <2>3 DEF HealthInv, HealthTypeOK, InstantsOk, Busy
  <2>5. QueryKnown' = QueryKnown /\ SuccessKnown' = SuccessKnown
    BY <2>1, <2>3 DEF QueryKnown, SuccessKnown
  <2>6. /\ SuccessOk => SuccessOk'
        /\ FailureOk => FailureOk'
        /\ QueryOk => QueryOk'
        /\ \A e \in events : EventOk(e) => EventOk(e)'
    BY <2>1, <2>5 DEF SuccessOk, FailureOk, QueryOk, EventOk, Busy
  <2> QED BY <2>1, <2>4, <2>6 DEF HealthInv
<1> QED BY <1>1, <1>2

(* The retention takes the record of a failure only together with `masked`.  *)
LEMMA PurgeEventsStep ==
  ASSUME HealthInv, PurgeEvents
  PROVE  HealthInv'
<1>1. /\ events' \subseteq events
      /\ masked' = (masked \/ (stat.query < failAt /\ \A e \in events' : e.at < failAt))
      /\ UNCHANGED <<now, recovery, stat, saved, rehydrated, attempt, attempts, relaunches, okAt,
                     failAt>>
  BY DEF PurgeEvents
<1>2. HealthTypeOK' /\ InstantsOk'
  <2>1. masked' \in BOOLEAN
    BY <1>1 DEF HealthInv, HealthTypeOK
  <2> QED BY <1>1, <2>1 DEF HealthInv, HealthTypeOK, InstantsOk, Busy
<1>3. ASSUME ~masked' PROVE SuccessOk' /\ FailureOk' /\ QueryOk' /\ \A e \in events' : EventOk(e)'
  <2>1. ~masked /\ ~(stat.query < failAt /\ \A e \in events' : e.at < failAt)
    BY <1>1, <1>3, Zenon
  <2>2. SuccessOk /\ QueryOk /\ \A e \in events : EventOk(e)
    BY <2>1 DEF HealthInv
  <2>3. /\ failAt \in Nat /\ stat \in Instants /\ saved \in Instants
        /\ \A e \in events' : e.at \in Nat
    BY <1>1 DEF HealthInv, HealthTypeOK
  <2>4. FailureOk'
    <3>1. CASE ~(stat.query < failAt)
      BY <1>1, <2>3, <3>1 DEF FailureOk, QueryKnown, Instants, Later
    <3>2. CASE \E e \in events' : ~(e.at < failAt)
      BY <1>1, <2>3, <3>2 DEF FailureOk
    <3> QED BY <2>1, <3>1, <3>2
  <2>5. SuccessOk' /\ QueryOk'
    BY <1>1, <2>2 DEF SuccessOk, QueryOk, SuccessKnown, QueryKnown, Busy
  <2>6. \A e \in events' : EventOk(e)'
    BY <1>1, <2>2 DEF EventOk, Busy
  <2> QED BY <2>4, <2>5, <2>6
<1> QED BY <1>2, <1>3 DEF HealthInv

(* After a restart the newest event stands for a failure.                   *)
LEMMA HealthRestartStep ==
  ASSUME HealthInv, HealthRestart
  PROVE  HealthInv'
<1>1. /\ relaunches' = relaunches + 1
      /\ \/ stat' = saved /\ rehydrated' = TRUE
         \/ stat' = [query |-> 0, success |-> 0] /\ rehydrated' = FALSE
      /\ attempt' = [a \in Attempt |-> IdleAttempt]
      /\ okAt' = Later(saved.success, recovery.at)
      /\ failAt' = Later(saved.query, NewestAt)
      /\ UNCHANGED <<now, events, recovery, saved, attempts, masked>>
  BY DEF HealthRestart
<1>2. /\ saved \in Instants /\ recovery \in [through : Nat, at : Nat]
      /\ events \subseteq Event /\ saved.success \in Nat /\ saved.query \in Nat
  BY DEF HealthInv, HealthTypeOK, Event, Instants
<1>3. /\ NewestAt \in Nat /\ \A e \in events : e.at <= NewestAt
      /\ events # {} => \E e \in events : NewestAt = e.at
  <2>1. CASE events = {}
    BY <2>1 DEF NewestAt
  <2>2. CASE events # {}
    BY <1>2, <2>2, NewestFacts DEF HealthInv, NewestAt, Event
  <2> QED BY <2>1, <2>2
<1> HIDE DEF NewestAt
<1>4. /\ failAt' \in Nat /\ saved.query <= failAt' /\ NewestAt <= failAt'
      /\ failAt' \in {saved.query, NewestAt} /\ okAt' \in Nat
  BY <1>1, <1>2, <1>3, LaterFacts
<1>5. /\ stat' \in Instants /\ QueryKnown' = saved.query /\ SuccessKnown' = saved.success
      /\ rehydrated' \in BOOLEAN
  <2>1. CASE stat' = saved /\ rehydrated' = TRUE
    BY <1>1, <1>2, <2>1 DEF QueryKnown, SuccessKnown
  <2>2. CASE stat' = [query |-> 0, success |-> 0] /\ rehydrated' = FALSE
    <3>1. stat'.query = 0 /\ stat'.success = 0 /\ stat' \in Instants
      BY <2>2 DEF Instants
    <3>2. Later(0, saved.query) = saved.query /\ Later(0, saved.success) = saved.success
      BY <1>2 DEF Later
    <3> QED BY <1>1, <2>2, <3>1, <3>2 DEF QueryKnown, SuccessKnown
  <2> QED BY <1>1, <2>1, <2>2
<1>6. HealthTypeOK'
  <2>1. attempt' \in [Attempt -> AttemptState] /\ relaunches' \in Nat
    BY <1>1, IdleTyped DEF HealthInv, HealthTypeOK
  <2> QED BY <1>1, <1>4, <1>5, <2>1 DEF HealthInv, HealthTypeOK
<1>7. InstantsOk'
  BY <1>1 DEF HealthInv, InstantsOk, Busy, IdleAttempt
<1>8. SuccessOk' /\ QueryOk'
  BY <1>1, <1>4, <1>5 DEF SuccessOk, QueryOk
<1>9. FailureOk'
  <2>1. CASE failAt' = saved.query
    BY <1>2, <1>5, <2>1 DEF FailureOk
  <2>2. CASE failAt' = NewestAt
    <3>1. CASE events = {}
      BY <1>2, <1>4, <1>5, <2>2, <3>1 DEF FailureOk, NewestAt
    <3>2. CASE events # {}
      BY <1>1, <1>3, <2>2, <3>2 DEF FailureOk
    <3> QED BY <3>1, <3>2
  <2> QED BY <1>4, <2>1, <2>2
<1>10. \A e \in events' : EventOk(e)'
  <2>1. \A e \in events : e.at \in Nat
    BY <1>2 DEF Event
  <2> QED BY <1>1, <1>3, <1>4, <2>1 DEF EventOk
<1> QED BY <1>6, <1>7, <1>8, <1>9, <1>10 DEF HealthInv

LEMMA HealthStep == HealthInv /\ [HealthNext]_healthVars => HealthInv'
<1> QED BY ReturnsStep, RecordQueryStep, RecordEventStep, RecordRecoveryStep, RecordSuccessStep,
           ClockAndFlushStep, PurgeEventsStep, HealthRestartStep DEF HealthNext

LEMMA HealthInvariant == HealthSpec => []HealthInv
<1> QED BY HealthStart, HealthStep, PTL DEF HealthSpec

-----------------------------------------------------------------------------
(* The types of an indexer's health records (database/health.go,           *)
(* registry/indexerstats.go).                                              *)
THEOREM HealthTypeCorrect == HealthSpec => []HealthTypeOK
<1>1. HealthInv => HealthTypeOK
  BY DEF HealthInv
<1> QED BY <1>1, HealthInvariant, PTL

(* For any number of overlapping attempts, any retention and any bounds: once *)
(* every attempt has recorded what it learned, the status is that of the last *)
(* thing that happened, unless a record of a failure was lost or overwritten  *)
(* (manage.go deriveStatus).                                                 *)
THEOREM StatusIsTheLatest == HealthSpec => []StatusFollows
<1>1. ASSUME HealthInv, Settled
      PROVE  /\ failAt > okAt => deriveStatus = "failing"
             /\ okAt > failAt => deriveStatus = "healthy"
  <2>1. /\ HealthTypeOK /\ InstantsOk /\ SuccessOk /\ FailureOk /\ QueryOk
        /\ \A e \in events : EventOk(e)
        /\ rehydrated /\ \A a \in Attempt : Busy(a, "idle")
    BY <1>1 DEF HealthInv, Settled
  <2>2. /\ failAt \in Nat /\ okAt \in Nat /\ stat.query \in Nat /\ stat.success \in Nat
        /\ recovery.at \in Nat /\ recovery.through \in Nat
        /\ \A e \in events : e.at \in Nat \ {0} /\ e.id \in Nat
    BY <2>1 DEF HealthTypeOK, Instants
  <2>3. successAt = okAt
    BY <2>1 DEF successAt, SuccessOk, SuccessKnown
  <2>4. recovery.at <= okAt
    BY <2>1, <2>2, LaterFacts DEF SuccessOk, SuccessKnown
  <2>5. QueryKnown = stat.query
    BY <2>1 DEF QueryKnown
  <2>6. stat.query <= failAt \/ stat.query <= okAt
    BY <2>1, <2>5 DEF QueryOk, Busy
  <2>7. \A e \in events : e.at <= failAt \/ (e.at <= recovery.at /\ e.id <= recovery.through)
    BY <2>1 DEF EventOk, Busy
  <2>8. events # {} => Newest \in events /\ \A e \in events : e.at <= Newest.at
    BY <2>1, NewestFacts
  <2>9. ASSUME failAt > okAt PROVE deriveStatus = "failing"
    <3>1. CASE failAt <= stat.query
      BY <2>2, <2>3, <2>9, <3>1 DEF deriveStatus, queriedSince
    <3>2. CASE \E e \in events : failAt <= e.at
      <4>1. Newest \in events /\ failAt <= Newest.at
        BY <2>2, <2>8, <3>2
      <4>2. failureAfterRecovery(Newest) /\ successAt <= Newest.at
        BY <2>2, <2>3, <2>4, <2>9, <4>1 DEF failureAfterRecovery
      <4> QED BY <4>1, <4>2 DEF deriveStatus, failingNow
    <3> QED BY <2>1, <2>5, <3>1, <3>2 DEF FailureOk
  <2>10. ASSUME okAt > failAt PROVE deriveStatus = "healthy"
    <3>1. ~queriedSince /\ successAt # 0
      BY <2>2, <2>3, <2>6, <2>10 DEF queriedSince
    <3>2. ~failingNow
      <4> SUFFICES ASSUME events # {}, failureAfterRecovery(Newest), successAt <= Newest.at
                   PROVE  FALSE
        BY DEF failingNow
      <4> QED BY <2>2, <2>3, <2>7, <2>8, <2>10 DEF failureAfterRecovery
    <3> QED BY <3>1, <3>2 DEF deriveStatus
  <2> QED BY <2>9, <2>10
<1>2. HealthInv => StatusFollows
  BY <1>1 DEF StatusFollows, FailureStands, SuccessClears
<1> QED BY <1>2, HealthInvariant, PTL

---------------------------------------------------------------------------
(***************************************************************************)
(* Backup, for any tables, changes and bundles: the references of the       *)
(* tables hold, and an untorn bundle restores every connection.             *)
(***************************************************************************)

Profile == [kept : BOOLEAN, members : SUBSET Id]
BundleType ==
  [ready : BOOLEAN, whole : BOOLEAN, indexers : [Id -> Slug \cup {NoSlug}],
   profiles : [Id -> Profile], keys : [Id -> {0} \cup Id],
   links : [Link -> [profile : {0} \cup Id, key : {0} \cup Id, scope : {"", "selected"},
                     picked : SUBSET Id]],
   fed : [Link -> SUBSET (Slug \cup {NoSlug})], held : [Link -> {0} \cup Id]]

(* What a bundle says of a connection: its selection, and the indexers it is  *)
(* fed and the key it holds by the bundle's own tables.                       *)
PickedIn(b, l) ==
  IF l \in Minting(b) THEN b.links[l].picked
  ELSE IF b.links[l].profile = 0 THEN {} ELSE b.profiles[b.links[l].profile].members
RowsFed(b, l) == IF PickedIn(b, l) = {} THEN IndexerRows(b.indexers) ELSE PickedIn(b, l)
Says(b, l) ==
  /\ PickedIn(b, l) \subseteq IndexerRows(b.indexers)
  /\ b.links[l].profile \in {0} \cup ProfileRows(b.profiles)
  /\ b.links[l].key \in {0} \cup KeyRowsIn(b.keys)
  /\ b.fed[l] = {b.indexers[r] : r \in RowsFed(b, l)}
  /\ b.held[l] = IF b.links[l].key = 0 THEN 0 ELSE b.keys[b.links[l].key]
BundleOk ==
  bundle # NoBundle =>
    /\ bundle \in BundleType
    /\ bundle.whole => \A l \in Link : Says(bundle, l)

(* What an export has read is how the tables are, unless a change tore it.    *)
ExportOk ==
  export # NoExport =>
    /\ export.pc # "idle" /\ export.torn \in BOOLEAN /\ export.got \in BundleType /\ export.got.ready
    /\ export = [pc |-> export.pc, torn |-> export.torn, got |-> export.got]
    /\ ~export.torn =>
         /\ export.pc = "members" =>
              \A p \in Id : export.got.profiles[p] = [kept |-> profiles[p].kept, members |-> {}]
         /\ export.pc \in {"keys", "indexers", "links"} => export.got.profiles = profiles
         /\ export.pc \in {"indexers", "links"} => export.got.keys = keys
         /\ export.pc = "links" => export.got.indexers = indexers

BackupInv ==
  /\ BackupTypeOK
  /\ \A p \in Id : ~profiles[p].kept => profiles[p].members = {}
  /\ BundleOk
  /\ ExportOk

-----------------------------------------------------------------------------
(* The new ids of rows: distinct, and among the ids there are.              *)
LEMMA IdFacts ==
  /\ IsFiniteSet(Id) /\ Cardinality(Id) = MaxId /\ MaxId \in Nat \ {0}
  /\ \A r \in Id : r \in Nat \ {0} /\ r <= MaxId
<1>1. MaxId \in Nat \ {0}
  BY BackupAssumption DEF BackupAssumption
<1>2. IsFiniteSet(1 .. MaxId) /\ Cardinality(1 .. MaxId) = MaxId
  BY <1>1, FS_Interval
<1> QED BY <1>1, <1>2 DEF Id

LEMMA IdMapFacts ==
  ASSUME NEW rows \in SUBSET Id
  PROVE  /\ idMap(rows) \in [rows -> Id]
         /\ \A q, r \in rows : idMap(rows)[q] = idMap(rows)[r] => q = r
<1> DEFINE upto(r) == {q \in rows : q <= r}
<1>1. ASSUME NEW r \in rows
      PROVE  IsFiniteSet(upto(r)) /\ Cardinality(upto(r)) \in Nat /\ Cardinality(upto(r)) <= MaxId
             /\ upto(r) # {}
  <2>1. upto(r) \subseteq Id /\ r \in upto(r)
    BY IdFacts
  <2> HIDE DEF upto
  <2> QED BY <2>1, IdFacts, FS_Subset, FS_CardinalityType
<1>2. ASSUME NEW r \in rows PROVE Cardinality(upto(r)) \in Id
  <2> HIDE DEF upto
  <2>1. Cardinality(upto(r)) # 0
    BY <1>1, FS_EmptySet
  <2> QED BY <1>1, <2>1, IdFacts DEF Id
<1>3. ASSUME NEW q \in rows, NEW r \in rows, q < r
      PROVE  Cardinality(upto(q)) # Cardinality(upto(r))
  <2>1. upto(q) \subseteq upto(r) /\ r \in upto(r) /\ r \notin upto(q)
    BY <1>3, IdFacts
  <2> HIDE DEF upto
  <2> QED BY <1>1, <2>1, FS_Subset
<1>4. idMap(rows) = [r \in rows |-> Cardinality(upto(r))]
  BY DEF idMap
<1>5. ASSUME NEW q \in rows, NEW r \in rows, Cardinality(upto(q)) = Cardinality(upto(r))
      PROVE  q = r
  <2>1. q \in Nat /\ r \in Nat
    BY IdFacts
  <2>2. ~ (q < r) /\ ~ (r < q)
    BY <1>3, <1>5
  <2> QED BY <2>1, <2>2
<1> HIDE DEF upto
<1> QED BY <1>2, <1>4, <1>5

LEMMA LoadedFacts ==
  ASSUME NEW rows \in SUBSET Id, NEW t, NEW none
  PROVE  /\ LoadedTable(t, rows, none) = [r \in Id |-> LoadedTable(t, rows, none)[r]]
         /\ \A q \in rows : LoadedTable(t, rows, none)[idMap(rows)[q]] = t[q]
         /\ \A r \in Id : (\A q \in rows : idMap(rows)[q] # r)
                             => LoadedTable(t, rows, none)[r] = none
<1> DEFINE loadedRow(r) == CHOOSE q \in rows : idMap(rows)[q] = r
           L == [r \in Id |-> IF \E q \in rows : idMap(rows)[q] = r THEN t[loadedRow(r)] ELSE none]
<1>1. LoadedTable(t, rows, none) = L
  BY Zenon DEF LoadedTable
<1>2. ASSUME NEW q \in rows PROVE L[idMap(rows)[q]] = t[q]
  <2>1. idMap(rows)[q] \in Id /\ loadedRow(idMap(rows)[q]) = q
    BY IdMapFacts
  <2> HIDE DEF loadedRow
  <2> QED BY <2>1
<1>3. ASSUME NEW r \in Id, \A q \in rows : idMap(rows)[q] # r PROVE L[r] = none
  BY <1>3
<1>4. L = [r \in Id |-> L[r]]
  OBVIOUS
<1> HIDE DEF L
<1> QED BY <1>1, <1>2, <1>3, <1>4

(* Of a set of values that holds those of the rows and the one of no row.    *)
LEMMA LoadedType ==
  ASSUME NEW rows \in SUBSET Id, NEW V, NEW t, \A q \in rows : t[q] \in V, NEW none \in V
  PROVE  LoadedTable(t, rows, none) \in [Id -> V]
<1>1. ASSUME NEW r \in Id PROVE LoadedTable(t, rows, none)[r] \in V
  <2>1. CASE \A q \in rows : idMap(rows)[q] # r
    BY <2>1, LoadedFacts
  <2>2. CASE \E q \in rows : idMap(rows)[q] = r
    <3>1. PICK q \in rows : idMap(rows)[q] = r
      BY <2>2
    <3>2. LoadedTable(t, rows, none)[idMap(rows)[q]] = t[q]
      BY LoadedFacts
    <3> QED BY <3>1, <3>2
  <2> QED BY <2>1, <2>2
<1>2. LoadedTable(t, rows, none) = [r \in Id |-> LoadedTable(t, rows, none)[r]]
  BY LoadedFacts
<1> QED BY <1>1, <1>2

(* The rows that are filled are the new ids of those that were.             *)
LEMMA LoadedRows ==
  ASSUME NEW t \in [Id -> Slug \cup {NoSlug}]
  PROVE  IndexerRows(LoadedTable(t, IndexerRows(t), NoSlug))
           = {idMap(IndexerRows(t))[q] : q \in IndexerRows(t)}
<1> DEFINE rows == IndexerRows(t)
           L == LoadedTable(t, rows, NoSlug)
<1>1. rows \in SUBSET Id /\ \A q \in rows : t[q] # NoSlug
  BY DEF IndexerRows
<1> HIDE DEF rows
<1>2. \A q \in rows : idMap(rows)[q] \in Id /\ L[idMap(rows)[q]] = t[q]
  BY <1>1, IdMapFacts, LoadedFacts
<1>3. \A r \in Id : (\A q \in rows : idMap(rows)[q] # r) => L[r] = NoSlug
  BY <1>1, LoadedFacts
<1> HIDE DEF L
<1>4. IndexerRows(L) = {idMap(rows)[q] : q \in rows}
  BY <1>1, <1>2, <1>3 DEF IndexerRows
<1> QED BY <1>4 DEF L, rows

LEMMA RemapInstances ==
  ASSUME NEW b, NEW old \in SUBSET IndexerRows(b.indexers)
  PROVE  /\ remapInstanceIDs(b, old) = {idMap(IndexerRows(b.indexers))[r] : r \in old}
         /\ old = {} <=> remapInstanceIDs(b, old) = {}
<1> DEFINE rows == IndexerRows(b.indexers)
<1>1. DOMAIN idMap(rows) = rows
  BY DEF idMap
<1>2. instanceIDs(b) = idMap(rows)
  BY DEF instanceIDs
<1> HIDE DEF rows
<1>3. old \cap rows = old
  BY DEF rows
<1>4. remapInstanceIDs(b, old) = {idMap(rows)[r] : r \in old}
  BY <1>1, <1>2, <1>3 DEF remapInstanceIDs
<1> QED BY <1>4 DEF rows

(* A bundle's rows, wherever they are loaded.                               *)
LEMMA BundleRows ==
  ASSUME NEW b \in BundleType
  PROVE  /\ IndexerRows(b.indexers) \in SUBSET Id /\ ProfileRows(b.profiles) \in SUBSET Id
         /\ KeyRowsIn(b.keys) \in SUBSET Id
         /\ b.indexers \in [Id -> Slug \cup {NoSlug}] /\ b.profiles \in [Id -> Profile]
         /\ b.keys \in [Id -> {0} \cup Id]
         /\ \A l \in Link : /\ b.links[l].profile \in {0} \cup Id /\ b.links[l].key \in {0} \cup Id
                            /\ b.links[l].picked \in SUBSET Id
BY DEF BundleType, IndexerRows, ProfileRows, KeyRowsIn

LEMMA RemapFacts ==
  ASSUME NEW rows \in SUBSET Id, NEW old
  PROVE  /\ old \in rows => remap(idMap(rows), old) = idMap(rows)[old] /\ remap(idMap(rows), old) \in Id
         /\ old \notin rows => remap(idMap(rows), old) = 0
<1>1. DOMAIN idMap(rows) = rows
  BY DEF idMap
<1> QED BY <1>1, IdMapFacts DEF remap

LEMMA ProfilesLoaded ==
  ASSUME NEW b \in BundleType
  PROVE  /\ loadSyncProfiles(b) \in [Id -> Profile]
         /\ \A p \in Id : /\ loadSyncProfiles(b)[p].members
                               \subseteq IndexerRows(LoadedTable(b.indexers, IndexerRows(b.indexers), NoSlug))
                          /\ ~loadSyncProfiles(b)[p].kept => loadSyncProfiles(b)[p].members = {}
         /\ \A p \in ProfileRows(b.profiles) :
              /\ loadSyncProfiles(b)[idMap(ProfileRows(b.profiles))[p]].kept
              /\ loadSyncProfiles(b)[idMap(ProfileRows(b.profiles))[p]].members
                   = remapInstanceIDs(b, b.profiles[p].members)
<1> DEFINE rows == ProfileRows(b.profiles)
           irows == IndexerRows(b.indexers)
           L == LoadedTable(b.profiles, rows, NoProfile)
           I == LoadedTable(b.indexers, irows, NoSlug)
<1>1. rows \in SUBSET Id /\ \A p \in rows : b.profiles[p] \in Profile /\ b.profiles[p].kept
  BY BundleRows DEF ProfileRows
<1>2. NoProfile \in Profile /\ NoProfile.members = {} /\ NoProfile.kept = FALSE
  BY DEF NoProfile, Profile
<1> HIDE DEF rows
<1>3. L \in [Id -> Profile]
  BY <1>1, <1>2, LoadedType
<1>4. /\ \A q \in rows : idMap(rows)[q] \in Id /\ L[idMap(rows)[q]] = b.profiles[q]
      /\ \A r \in Id : (\A q \in rows : idMap(rows)[q] # r) => L[r] = NoProfile
  BY <1>1, LoadedFacts, IdMapFacts
<1>5. IndexerRows(I) = {idMap(irows)[q] : q \in irows}
  BY BundleRows, LoadedRows
<1>6. ASSUME NEW old \in SUBSET Id
      PROVE  remapInstanceIDs(b, old) \subseteq IndexerRows(I) /\ remapInstanceIDs(b, old) \in SUBSET Id
             /\ (old = {} => remapInstanceIDs(b, old) = {})
  <2>1. remapInstanceIDs(b, old) = {idMap(irows)[r] : r \in old \cap DOMAIN idMap(irows)}
    BY DEF remapInstanceIDs, instanceIDs
  <2>2. DOMAIN idMap(irows) = irows
    BY DEF idMap
  <2>3. irows \in SUBSET Id
    BY BundleRows
  <2> HIDE DEF irows
  <2>4. \A r \in irows : idMap(irows)[r] \in Id
    BY <2>3, IdMapFacts
  <2> QED BY <1>5, <2>1, <2>2, <2>4
<1> HIDE DEF irows, I
<1>7. loadSyncProfiles(b) = [p \in Id |-> [L[p] EXCEPT !.members = remapInstanceIDs(b, L[p].members)]]
  BY DEF loadSyncProfiles, L, rows
<1> HIDE DEF L
<1>8. ASSUME NEW p \in Id
      PROVE  /\ loadSyncProfiles(b)[p] \in Profile
             /\ loadSyncProfiles(b)[p].members = remapInstanceIDs(b, L[p].members)
             /\ loadSyncProfiles(b)[p].kept = L[p].kept
             /\ L[p].members \in SUBSET Id
  <2>1. L[p].members \in SUBSET Id /\ L[p] \in Profile
    BY <1>3 DEF Profile
  <2>2. remapInstanceIDs(b, L[p].members) \in SUBSET Id
    BY <1>6, <2>1
  <2> QED BY <1>7, <2>1, <2>2 DEF Profile
<1>9. loadSyncProfiles(b) \in [Id -> Profile]
  BY <1>7, <1>8
<1>10. ASSUME NEW p \in Id
       PROVE  /\ loadSyncProfiles(b)[p].members \subseteq IndexerRows(I)
              /\ ~loadSyncProfiles(b)[p].kept => loadSyncProfiles(b)[p].members = {}
  <2>1. CASE \A q \in rows : idMap(rows)[q] # p
    BY <1>2, <1>4, <1>6, <1>8, <2>1
  <2>2. CASE \E q \in rows : idMap(rows)[q] = p
    <3>1. PICK q \in rows : idMap(rows)[q] = p
      BY <2>2
    <3>2. L[p].kept
      BY <1>1, <1>4, <3>1
    <3> QED BY <1>6, <1>8, <3>2
  <2> QED BY <2>1, <2>2
<1>11. ASSUME NEW p \in rows
       PROVE  /\ loadSyncProfiles(b)[idMap(rows)[p]].kept
              /\ loadSyncProfiles(b)[idMap(rows)[p]].members = remapInstanceIDs(b, b.profiles[p].members)
  BY <1>1, <1>4, <1>8
<1> QED BY <1>9, <1>10, <1>11 DEF I, irows, rows

(* After a load: the tables, and a connection's selection under new ids.      *)
LoadedTables(b) ==
  /\ indexers' = LoadedTable(b.indexers, IndexerRows(b.indexers), NoSlug)
  /\ keys' = LoadedTable(b.keys, KeyRowsIn(b.keys), 0)
  /\ \A l \in Link : links'[l].key = remap(idMap(KeyRowsIn(b.keys)), b.links[l].key)
ProfilesHold ==
  /\ profiles' \in [Id -> Profile]
  /\ \A p \in Id : /\ profiles'[p].members \subseteq IndexerRows(indexers')
                   /\ ~profiles'[p].kept => profiles'[p].members = {}
LinksHold ==
  links' \in [Link -> [profile : {0} \cup ProfileRows(profiles'), key : {0} \cup KeyRowsIn(keys')]]
Selected(b, l) ==
  /\ PickedIn(b, l) = {} => links'[l].profile = 0 \/ profiles'[links'[l].profile].members = {}
  /\ PickedIn(b, l) # {} => /\ links'[l].profile # 0
                           /\ profiles'[links'[l].profile].members
                                = remapInstanceIDs(b, PickedIn(b, l))

LEMMA LoadTables ==
  ASSUME NEW b \in BundleType, load(b)
  PROVE  /\ LoadedTables(b) /\ ProfilesHold /\ LinksHold
         /\ \A l \in Link : Says(b, l) => Selected(b, l)
<1> DEFINE S == loadSyncProfiles(b)
           rows == ProfileRows(b.profiles)
           krows == KeyRowsIn(b.keys)
           irows == IndexerRows(b.indexers)
           I == LoadedTable(b.indexers, irows, NoSlug)
           K == LoadedTable(b.keys, krows, 0)
<1>1. PICK minted \in [Minting(b) -> Id \ ProfileRows(S)] :
        /\ \A l, m \in Minting(b) : minted[l] = minted[m] => l = m
        /\ keys' = K
        /\ indexers' = I
        /\ profiles' = [p \in Id |->
             IF \E l \in Minting(b) : minted[l] = p
             THEN [kept |-> TRUE,
                   members |-> remapInstanceIDs(b, b.links[CHOOSE m \in Minting(b) : minted[m] = p].picked)]
             ELSE S[p]]
        /\ links' = [l \in Link |->
             [profile |-> IF l \in Minting(b) THEN minted[l] ELSE remap(idMap(rows), b.links[l].profile),
              key |-> remap(idMap(krows), b.links[l].key)]]
  BY Zenon DEF load
<1>2. Minting(b) \subseteq Link /\ \A l \in Minting(b) : b.links[l].picked \in SUBSET Id /\ b.links[l].picked # {}
  BY BundleRows DEF Minting
<1>3. /\ S \in [Id -> Profile]
      /\ \A p \in Id : S[p].members \subseteq IndexerRows(I) /\ (~S[p].kept => S[p].members = {})
      /\ \A p \in rows : /\ S[idMap(rows)[p]].kept
                         /\ S[idMap(rows)[p]].members = remapInstanceIDs(b, b.profiles[p].members)
  BY ProfilesLoaded
<1>4. ASSUME NEW old \in SUBSET Id
      PROVE  remapInstanceIDs(b, old) \subseteq IndexerRows(I) /\ remapInstanceIDs(b, old) \in SUBSET Id
  <2>1. remapInstanceIDs(b, old) = {idMap(irows)[r] : r \in old \cap DOMAIN idMap(irows)}
    BY DEF remapInstanceIDs, instanceIDs
  <2>2. DOMAIN idMap(irows) = irows
    BY DEF idMap
  <2>3. irows \in SUBSET Id
    BY BundleRows
  <2>4. IndexerRows(I) = {idMap(irows)[q] : q \in irows}
    BY BundleRows, LoadedRows
  <2> HIDE DEF irows, I
  <2>5. \A r \in irows : idMap(irows)[r] \in Id
    BY <2>3, IdMapFacts
  <2> QED BY <2>1, <2>2, <2>4, <2>5
<1>5. rows \in SUBSET Id /\ krows \in SUBSET Id
  BY BundleRows
<1>6. ProfileRows(S) = {p \in Id : S[p].kept}
  BY DEF ProfileRows
<1>7. KeyRowsIn(keys') = {r \in Id : K[r] # 0}
  BY <1>1 DEF KeyRowsIn
<1>8. \A q \in krows : K[idMap(krows)[q]] # 0
  BY <1>5, LoadedFacts DEF KeyRowsIn
<1> HIDE DEF S, rows, krows, irows, I, K
<1>9. ASSUME NEW l \in Minting(b)
      PROVE  /\ minted[l] \in Id /\ profiles'[minted[l]].kept
             /\ profiles'[minted[l]].members = remapInstanceIDs(b, b.links[l].picked)
             /\ links'[l].profile = minted[l]
  <2>1. minted[l] \in Id
    BY <1>1
  <2>2. (CHOOSE m \in Minting(b) : minted[m] = minted[l]) = l
    BY <1>1
  <2>3. profiles'[minted[l]] = [kept |-> TRUE, members |-> remapInstanceIDs(b, b.links[l].picked)]
    BY <1>1, <2>1, <2>2
  <2>4. links'[l].profile = minted[l]
    BY <1>1, <1>2
  <2> QED BY <2>1, <2>3, <2>4
<1>10. ASSUME NEW p \in Id, \A l \in Minting(b) : minted[l] # p PROVE profiles'[p] = S[p]
  BY <1>1, <1>10
<1>11. ASSUME NEW p \in Id
       PROVE  /\ profiles'[p] \in Profile /\ profiles'[p].members \subseteq IndexerRows(I)
              /\ ~profiles'[p].kept => profiles'[p].members = {}
  <2>1. CASE \A l \in Minting(b) : minted[l] # p
    BY <1>3, <1>10, <2>1
  <2>2. CASE \E l \in Minting(b) : minted[l] = p
    <3>1. PICK l \in Minting(b) : minted[l] = p
      BY <2>2
    <3>2. (CHOOSE m \in Minting(b) : minted[m] = p) = l
      BY <1>1, <3>1
    <3>3. profiles'[p] = [kept |-> TRUE, members |-> remapInstanceIDs(b, b.links[l].picked)]
      BY <1>1, <3>1, <3>2
    <3> QED BY <1>2, <1>4, <3>3 DEF Profile
  <2> QED BY <2>1, <2>2
<1>12. profiles' \in [Id -> Profile]
  <2>1. profiles' = [p \in Id |-> profiles'[p]]
    BY <1>1
  <2> QED BY <1>11, <2>1
<1>13. ASSUME NEW p \in rows
       PROVE  /\ idMap(rows)[p] \in Id
              /\ profiles'[idMap(rows)[p]].kept
              /\ profiles'[idMap(rows)[p]].members = remapInstanceIDs(b, b.profiles[p].members)
  <2>1. idMap(rows)[p] \in Id
    BY <1>5, IdMapFacts
  <2>2. S[idMap(rows)[p]].kept
    BY <1>3
  <2>3. \A l \in Minting(b) : minted[l] # idMap(rows)[p]
    BY <1>1, <1>6, <2>1, <2>2
  <2> QED BY <1>3, <1>10, <2>1, <2>3
<1>14. ASSUME NEW l \in Link
       PROVE  /\ links'[l].profile \in {0} \cup ProfileRows(profiles')
              /\ links'[l].key \in {0} \cup KeyRowsIn(keys')
              /\ links'[l] = [profile |-> links'[l].profile, key |-> links'[l].key]
              /\ links'[l].key = remap(idMap(krows), b.links[l].key)
  <2>1. links'[l] = [profile |-> IF l \in Minting(b) THEN minted[l]
                                 ELSE remap(idMap(rows), b.links[l].profile),
                     key |-> remap(idMap(krows), b.links[l].key)]
    BY <1>1
  <2>2. links'[l].profile \in {0} \cup ProfileRows(profiles')
    <3>1. CASE l \in Minting(b)
      BY <1>9, <3>1 DEF ProfileRows
    <3>2. CASE l \notin Minting(b) /\ b.links[l].profile \in rows
      <4>1. links'[l].profile = idMap(rows)[b.links[l].profile]
        BY <1>5, <2>1, <3>2, RemapFacts
      <4> QED BY <1>13, <3>2, <4>1 DEF ProfileRows
    <3>3. CASE l \notin Minting(b) /\ b.links[l].profile \notin rows
      BY <1>5, <2>1, <3>3, RemapFacts
    <3> QED BY <3>1, <3>2, <3>3
  <2>3. links'[l].key \in {0} \cup KeyRowsIn(keys')
    <3>1. CASE b.links[l].key \in krows
      BY <1>5, <1>7, <1>8, <2>1, <3>1, RemapFacts
    <3>2. CASE b.links[l].key \notin krows
      BY <1>5, <2>1, <3>2, RemapFacts
    <3> QED BY <3>1, <3>2
  <2> QED BY <2>1, <2>2, <2>3
<1>15. links' \in [Link -> [profile : {0} \cup ProfileRows(profiles'), key : {0} \cup KeyRowsIn(keys')]]
  <2>1. links' = [l \in Link |-> links'[l]]
    BY <1>1
  <2>2. ASSUME NEW l \in Link
        PROVE  links'[l] \in [profile : {0} \cup ProfileRows(profiles'), key : {0} \cup KeyRowsIn(keys')]
    <3> DEFINE p == links'[l].profile
               k == links'[l].key
    <3>1. p \in {0} \cup ProfileRows(profiles') /\ k \in {0} \cup KeyRowsIn(keys')
          /\ links'[l] = [profile |-> p, key |-> k]
      BY <1>14
    <3> HIDE DEF p, k
    <3> QED BY <3>1
  <2> QED BY <2>1, <2>2, Zenon
<1>16. ASSUME NEW l \in Link, Says(b, l) PROVE Selected(b, l)
  <2>1. CASE l \in Minting(b)
    <3>1. PickedIn(b, l) = b.links[l].picked
      BY <2>1 DEF PickedIn
    <3>2. minted[l] # 0
      BY <1>9, <2>1, IdFacts
    <3> QED BY <1>2, <1>9, <2>1, <3>1, <3>2 DEF Selected
  <2>2. CASE l \notin Minting(b) /\ b.links[l].profile = 0
    <3>1. PickedIn(b, l) = {}
      BY <2>2 DEF PickedIn
    <3>2. 0 \notin rows
      BY <1>5, IdFacts
    <3>3. links'[l].profile = 0
      BY <1>1, <1>5, <2>2, <3>2, RemapFacts
    <3> QED BY <3>1, <3>3 DEF Selected
  <2>3. CASE l \notin Minting(b) /\ b.links[l].profile # 0
    <3>1. PickedIn(b, l) = b.profiles[b.links[l].profile].members /\ b.links[l].profile \in rows
          /\ PickedIn(b, l) \subseteq IndexerRows(b.indexers)
      BY <1>16, <2>3 DEF PickedIn, Says, rows
    <3>2. links'[l].profile = idMap(rows)[b.links[l].profile]
      BY <1>1, <1>5, <2>3, <3>1, RemapFacts
    <3>3. profiles'[links'[l].profile].members = remapInstanceIDs(b, PickedIn(b, l))
      BY <1>13, <3>1, <3>2
    <3>4. links'[l].profile # 0
      BY <1>13, <3>1, <3>2, IdFacts
    <3>5. PickedIn(b, l) = {} => remapInstanceIDs(b, PickedIn(b, l)) = {}
      BY <3>1, RemapInstances
    <3> QED BY <3>3, <3>4, <3>5 DEF Selected
  <2> QED BY <2>1, <2>2, <2>3
<1>17. indexers' = I /\ keys' = K
  BY <1>1
<1>18. ProfilesHold
  BY <1>11, <1>12, <1>17 DEF ProfilesHold
<1>19. LoadedTables(b)
  BY <1>14, <1>17 DEF LoadedTables, I, K, irows, krows
<1>20. LinksHold
  BY <1>15 DEF LinksHold
<1> QED BY <1>16, <1>18, <1>19, <1>20

(* The rows a connection is fed from, under their new ids.                   *)
LEMMA RestoredLink ==
  ASSUME NEW b \in BundleType, load(b), NEW l \in Link, Says(b, l)
  PROVE  Fed(l)' = b.fed[l] /\ KeyHeld(l)' = b.held[l]
<1> DEFINE irows == IndexerRows(b.indexers)
           krows == KeyRowsIn(b.keys)
           m == idMap(irows)
           P == PickedIn(b, l)
           p == links'[l].profile
           Q == IF p = 0 THEN {} ELSE profiles'[p].members
<1>1. /\ irows \in SUBSET Id /\ krows \in SUBSET Id /\ P \subseteq irows
      /\ b.fed[l] = {b.indexers[r] : r \in IF P = {} THEN irows ELSE P}
  BY BundleRows DEF Says, RowsFed
<1>2. /\ indexers' = LoadedTable(b.indexers, irows, NoSlug)
      /\ keys' = LoadedTable(b.keys, krows, 0)
      /\ links'[l].key = remap(idMap(krows), b.links[l].key)
  BY LoadTables DEF LoadedTables
<1>3. /\ P = {} => Q = {}
      /\ P # {} => Q = remapInstanceIDs(b, P)
  BY LoadTables DEF Selected
<1>4. remapInstanceIDs(b, P) = {m[r] : r \in P} /\ (P # {} => remapInstanceIDs(b, P) # {})
  BY <1>1, RemapInstances
<1>5. IndexerRows(indexers') = {m[q] : q \in irows}
  BY <1>2, BundleRows, LoadedRows
<1>6. \A q \in irows : indexers'[m[q]] = b.indexers[q]
  BY <1>1, <1>2, LoadedFacts
<1>7. Fed(l)' = {indexers'[r] : r \in IF Q = {} THEN IndexerRows(indexers') ELSE Q}
  BY DEF Fed
<1>8. KeyHeld(l)' = IF links'[l].key = 0 THEN 0 ELSE keys'[links'[l].key]
  BY DEF KeyHeld
<1> HIDE DEF irows, m, P, Q
<1>9. Fed(l)' = b.fed[l]
  <2>1. CASE P = {}
    BY <1>1, <1>3, <1>5, <1>6, <1>7, <2>1
  <2>2. CASE P # {}
    BY <1>1, <1>3, <1>4, <1>6, <1>7, <2>2
  <2> QED BY <2>1, <2>2
<1>10. KeyHeld(l)' = b.held[l]
  <2>1. b.held[l] = (IF b.links[l].key = 0 THEN 0 ELSE b.keys[b.links[l].key])
        /\ b.links[l].key \in {0} \cup krows
    BY DEF Says
  <2>2. 0 \notin krows
    BY <1>1, IdFacts
  <2> HIDE DEF krows
  <2>3. CASE b.links[l].key = 0
    BY <1>1, <1>2, <1>8, <2>1, <2>2, <2>3, RemapFacts
  <2>4. CASE b.links[l].key \in krows
    <3>1. links'[l].key = idMap(krows)[b.links[l].key] /\ links'[l].key \in Id
      BY <1>1, <1>2, <2>4, RemapFacts
    <3>2. keys'[links'[l].key] = b.keys[b.links[l].key]
      BY <1>1, <1>2, <2>4, <3>1, LoadedFacts
    <3>3. links'[l].key # 0 /\ b.links[l].key # 0
      BY <2>2, <2>4, <3>1, IdFacts
    <3> QED BY <1>8, <2>1, <3>2, <3>3
  <2> QED BY <2>1, <2>3, <2>4
<1> QED BY <1>9, <1>10

-----------------------------------------------------------------------------
(* What is put in a bundle, and what an operator's change leaves of an export. *)
LEMMA BlankFacts ==
  /\ BlankBundle \in BundleType /\ BlankBundle.ready = TRUE
  /\ NoExport.pc = "idle" /\ NoExport.torn = FALSE
<1>1. NoProfiles \in [Id -> Profile]
  BY DEF NoProfiles, NoProfile, Profile
<1>2. /\ Empty \in [Id -> Slug \cup {NoSlug}] /\ NoKeys \in [Id -> {0} \cup Id]
      /\ [l \in Link |-> {}] \in [Link -> SUBSET (Slug \cup {NoSlug})]
      /\ [l \in Link |-> 0] \in [Link -> {0} \cup Id]
  BY DEF Empty, NoKeys
<1>3. [l \in Link |-> BundledLink(0, 0, "", {})]
        \in [Link -> [profile : {0} \cup Id, key : {0} \cup Id, scope : {"", "selected"},
                      picked : SUBSET Id]]
  BY DEF BundledLink
<1> QED BY <1>1, <1>2, <1>3 DEF BlankBundle, BundleType, NoExport

LEMMA BundledFacts ==
  ASSUME NEW p \in {0} \cup Id, NEW k \in {0} \cup Id, NEW scope \in {"", "selected"},
         NEW picked \in SUBSET Id
  PROVE  /\ BundledLink(p, k, scope, picked)
              \in [profile : {0} \cup Id, key : {0} \cup Id, scope : {"", "selected"},
                   picked : SUBSET Id]
         /\ BundledLink(p, k, scope, picked).profile = p /\ BundledLink(p, k, scope, picked).key = k
         /\ BundledLink(p, k, scope, picked).scope = scope
         /\ BundledLink(p, k, scope, picked).picked = picked
BY DEF BundledLink

LEMMA TornExport ==
  ASSUME ExportOk, export' = Torn(export)
  PROVE  ExportOk'
<1>1. CASE export = NoExport
  BY <1>1, BlankFacts DEF Torn, ExportOk
<1>2. CASE export # NoExport
  <2>1. /\ export.pc # "idle" /\ export.got \in BundleType /\ export.got.ready
        /\ export = [pc |-> export.pc, torn |-> export.torn, got |-> export.got]
    BY <1>2 DEF ExportOk
  <2>2. export' = [pc |-> export.pc, torn |-> TRUE, got |-> export.got]
    BY <2>1 DEF Torn
  <2> QED BY <2>1, <2>2 DEF ExportOk
<1> QED BY <1>1, <1>2

LEMMA BundleStays == ASSUME BundleOk, UNCHANGED bundle PROVE BundleOk'
BY DEF BundleOk, Says, PickedIn, RowsFed, Minting, IndexerRows, ProfileRows, KeyRowsIn

(* The tables of a state: its rows refer to rows there are.                 *)
LEMMA TableFacts ==
  ASSUME BackupInv
  PROVE  /\ indexers \in [Id -> Slug \cup {NoSlug}] /\ keys \in [Id -> {0} \cup Id]
         /\ profiles \in [Id -> Profile]
         /\ \A p \in Id : profiles[p].members \subseteq IndexerRows(indexers)
         /\ links \in [Link -> [profile : {0} \cup ProfileRows(profiles), key : {0} \cup KeyRowsIn(keys)]]
         /\ \A l \in Link : /\ links[l].profile \in {0} \cup Id /\ links[l].key \in {0} \cup Id
                            /\ links[l].profile \in {0} \cup ProfileRows(profiles)
                            /\ links[l].key \in {0} \cup KeyRowsIn(keys)
         /\ IndexerRows(indexers) \in SUBSET Id
<1>1. IndexerRows(indexers) \in SUBSET Id
  BY DEF IndexerRows
<1>2. ProfileRows(profiles) \in SUBSET Id /\ KeyRowsIn(keys) \in SUBSET Id
  BY DEF ProfileRows, KeyRowsIn
<1>3. ASSUME NEW p \in Id
      PROVE  profiles[p] \in Profile /\ profiles[p].members \subseteq IndexerRows(indexers)
  BY <1>1 DEF BackupInv, BackupTypeOK, Profile
<1>4. profiles \in [Id -> Profile]
  BY <1>3 DEF BackupInv, BackupTypeOK
<1>5. links \in [Link -> [profile : {0} \cup ProfileRows(profiles), key : {0} \cup KeyRowsIn(keys)]]
  BY DEF BackupInv, BackupTypeOK
<1>6. ASSUME NEW l \in Link
      PROVE  /\ links[l].profile \in {0} \cup ProfileRows(profiles)
             /\ links[l].key \in {0} \cup KeyRowsIn(keys)
             /\ links[l].profile \in {0} \cup Id /\ links[l].key \in {0} \cup Id
  BY <1>2, <1>5
<1> QED BY <1>1, <1>3, <1>4, <1>5, <1>6 DEF BackupInv, BackupTypeOK

LEMMA BackupStart == BackupInit => BackupInv
<1> SUFFICES ASSUME BackupInit PROVE BackupInv
  OBVIOUS
<1>1. indexers \in [Id -> Slug \cup {NoSlug}] /\ IndexerRows(indexers) \in SUBSET Id
  BY DEF BackupInit, IndexerRows
<1>2. PICK p \in Id, members \in SUBSET IndexerRows(indexers) :
        profiles = [NoProfiles EXCEPT ![p] = [kept |-> TRUE, members |-> members]]
  BY DEF BackupInit
<1>3. /\ profiles \in [Id -> [kept : BOOLEAN, members : SUBSET IndexerRows(indexers)]]
      /\ \A q \in Id : ~profiles[q].kept => profiles[q].members = {}
      /\ ProfileRows(profiles) \subseteq Id
  BY <1>2 DEF NoProfiles, NoProfile, ProfileRows
<1>4. keys \in [Id -> {0} \cup Id]
  BY DEF BackupInit
<1>5. links \in [Link -> [profile : {0} \cup ProfileRows(profiles), key : {0} \cup KeyRowsIn(keys)]]
  BY DEF BackupInit
<1>6. export.pc = "idle" /\ changes \in 0 .. MaxChange /\ restores \in 0 .. MaxImport /\ ExportOk
  BY BlankFacts, BackupAssumption DEF BackupInit, ExportOk, BackupAssumption
<1>7. BackupTypeOK
  BY <1>1, <1>3, <1>4, <1>5, <1>6 DEF BackupTypeOK
<1>8. ASSUME bundle # NoBundle PROVE bundle \in BundleType /\ \A l \in Link : Says(bundle, l)
  <2>1. PICK m \in SUBSET IndexerRows(indexers) : bundle = Legacy(indexers, m)
    BY <1>8 DEF BackupInit
  <2> DEFINE P == [NoProfiles EXCEPT ![1].kept = TRUE]
             L == [l \in Link |-> BundledLink(1, 0, "selected", m)]
             F == [l \in Link |-> {indexers[r] : r \in IF m = {} THEN IndexerRows(indexers) ELSE m}]
  <2>2. 1 \in Id /\ m \in SUBSET Id
    BY <1>1, IdFacts DEF Id
  <2>3. P \in [Id -> Profile] /\ P[1].kept /\ P[1].members = {}
    BY <2>2 DEF NoProfiles, NoProfile, Profile
  <2>4. /\ L \in [Link -> [profile : {0} \cup Id, key : {0} \cup Id, scope : {"", "selected"},
                          picked : SUBSET Id]]
        /\ \A l \in Link : /\ L[l].profile = 1 /\ L[l].key = 0 /\ L[l].scope = "selected"
                           /\ L[l].picked = m
    <3>1. \A l \in Link : L[l] = BundledLink(1, 0, "selected", m)
      OBVIOUS
    <3>2. L = [l \in Link |-> L[l]]
      OBVIOUS
    <3> DEFINE b == BundledLink(1, 0, "selected", m)
    <3>3. /\ b \in [profile : {0} \cup Id, key : {0} \cup Id, scope : {"", "selected"},
                   picked : SUBSET Id]
          /\ b.profile = 1 /\ b.key = 0 /\ b.scope = "selected" /\ b.picked = m
      <4>1. 1 \in {0} \cup Id /\ 0 \in {0} \cup Id /\ "selected" \in {"", "selected"}
        BY <2>2
      <4> QED BY <2>2, <4>1 DEF BundledLink
    <3> HIDE DEF L, b
    <3>4. \A l \in Link : L[l] = b
      BY <3>1 DEF b
    <3> QED BY <3>2, <3>3, <3>4
  <2>5. F \in [Link -> SUBSET (Slug \cup {NoSlug})]
    BY <1>1
  <2>6. bundle = [BlankBundle EXCEPT !.indexers = indexers, !.profiles = P, !.links = L, !.fed = F]
    BY <2>1, Zenon DEF Legacy
  <2>7. \A l \in Link : F[l] = {indexers[r] : r \in IF m = {} THEN IndexerRows(indexers) ELSE m}
    OBVIOUS
  <2> HIDE DEF P, L, F
  <2>8. /\ bundle \in BundleType
        /\ bundle.indexers = indexers /\ bundle.profiles = P /\ bundle.links = L /\ bundle.fed = F
        /\ bundle.held = BlankBundle.held
    BY <1>1, <2>3, <2>4, <2>5, <2>6, BlankFacts DEF BundleType
  <2>9. \A l \in Link : bundle.held[l] = 0
    BY <2>8 DEF BlankBundle
  <2>10. ASSUME NEW l \in Link PROVE Says(bundle, l)
    <3>1. l \in Minting(bundle) <=> m # {}
      BY <2>4, <2>8 DEF Minting
    <3>2. PickedIn(bundle, l) = m
      BY <2>3, <2>4, <2>8, <3>1 DEF PickedIn
    <3>3. bundle.links[l].profile \in ProfileRows(bundle.profiles)
      BY <2>2, <2>3, <2>4, <2>8 DEF ProfileRows
    <3>4. RowsFed(bundle, l) = IF m = {} THEN IndexerRows(indexers) ELSE m
      BY <2>8, <3>2 DEF RowsFed
    <3>5. bundle.fed[l] = {bundle.indexers[r] : r \in RowsFed(bundle, l)}
      BY <2>7, <2>8, <3>4
    <3>6. PickedIn(bundle, l) \subseteq IndexerRows(bundle.indexers)
      BY <2>8, <3>2
    <3> QED BY <2>4, <2>8, <2>9, <3>3, <3>5, <3>6 DEF Says
  <2> QED BY <2>8, <2>10
<1> QED BY <1>3, <1>6, <1>7, <1>8 DEF BackupInv, BundleOk

-----------------------------------------------------------------------------
(* The operator's changes: the references of the tables follow.             *)
LEMMA ChangeStep ==
  ASSUME BackupInv, Change,
         indexers' \in [Id -> Slug \cup {NoSlug}], keys' \in [Id -> {0} \cup Id],
         profiles' \in [Id -> [kept : BOOLEAN, members : SUBSET IndexerRows(indexers')]],
         \A p \in Id : ~profiles'[p].kept => profiles'[p].members = {},
         links' \in [Link -> [profile : {0} \cup ProfileRows(profiles'), key : {0} \cup KeyRowsIn(keys')]]
  PROVE  BackupInv'
<1>1. /\ changes' = changes + 1 /\ changes < MaxChange /\ export' = Torn(export)
      /\ UNCHANGED <<bundle, restores>>
      /\ changes \in 0 .. MaxChange /\ restores \in 0 .. MaxImport
      /\ export.pc \in {"idle", "members", "keys", "indexers", "links"}
  BY DEF Change, BackupInv, BackupTypeOK
<1>2. changes' \in 0 .. MaxChange /\ restores' \in 0 .. MaxImport
  BY <1>1, BackupAssumption DEF BackupAssumption
<1>3. export'.pc = export.pc
  BY <1>1, BlankFacts DEF Torn, BackupInv, ExportOk
<1>4. BundleOk' /\ ExportOk'
  BY <1>1, BundleStays, TornExport DEF BackupInv
<1>5. BackupTypeOK'
  BY <1>1, <1>2, <1>3 DEF BackupTypeOK
<1> QED BY <1>4, <1>5 DEF BackupInv

LEMMA OperatorStep ==
  ASSUME BackupInv,
         \/ \E s \in Slug : AddSlug(s)
         \/ \E r \in Id : DeleteSlug(r) \/ DeleteProfile(r) \/ RevokeKey(r)
         \/ \E m \in SUBSET Id : CreateProfile(m) \/ \E p \in Id : UpdateProfile(p, m)
         \/ \E l \in Link, p \in 0 .. MaxId : SetProfile(l, p)
  PROVE  BackupInv'
<1> DEFINE Profiles(t) == [Id -> [kept : BOOLEAN, members : SUBSET IndexerRows(t)]]
           Links(t, k) == [Link -> [profile : {0} \cup ProfileRows(t), key : {0} \cup KeyRowsIn(k)]]
<1>0. /\ indexers \in [Id -> Slug \cup {NoSlug}] /\ keys \in [Id -> {0} \cup Id]
      /\ profiles \in Profiles(indexers) /\ links \in Links(profiles, keys)
      /\ \A p \in Id : ~profiles[p].kept => profiles[p].members = {}
  BY DEF BackupInv, BackupTypeOK
<1>1. ASSUME NEW s \in Slug, AddSlug(s) PROVE BackupInv'
  <2>1. PICK id \in Id : /\ indexers' = [indexers EXCEPT ![id] = s]
                         /\ Change /\ UNCHANGED <<profiles, keys, links>>
    BY <1>1 DEF AddSlug
  <2>2. IndexerRows(indexers) \subseteq IndexerRows(indexers')
    BY <1>0, <2>1, BackupAssumption DEF IndexerRows, BackupAssumption
  <2>3. profiles' \in Profiles(indexers')
    BY <1>0, <2>1, <2>2
  <2>4. indexers' \in [Id -> Slug \cup {NoSlug}]
    BY <1>0, <2>1
  <2> QED BY <1>0, <2>1, <2>3, <2>4, ChangeStep
<1>2. ASSUME NEW r \in Id, DeleteSlug(r) PROVE BackupInv'
  <2>1. /\ indexers' = [indexers EXCEPT ![r] = NoSlug]
        /\ profiles' = [p \in Id |-> [profiles[p] EXCEPT !.members = profiles[p].members \ {r}]]
        /\ Change /\ UNCHANGED <<keys, links>>
    BY <1>2 DEF DeleteSlug
  <2>2. IndexerRows(indexers') = IndexerRows(indexers) \ {r}
    BY <1>0, <2>1 DEF IndexerRows
  <2>3. ASSUME NEW p \in Id
        PROVE  /\ profiles'[p] \in [kept : BOOLEAN, members : SUBSET IndexerRows(indexers')]
               /\ profiles'[p].kept = profiles[p].kept
               /\ profiles'[p].members = profiles[p].members \ {r}
    BY <1>0, <2>1, <2>2
  <2>4. profiles' \in Profiles(indexers')
    BY <2>1, <2>3
  <2>5. ProfileRows(profiles') = ProfileRows(profiles)
    BY <2>3 DEF ProfileRows
  <2>6. links' \in Links(profiles', keys') /\ indexers' \in [Id -> Slug \cup {NoSlug}]
    BY <1>0, <2>1, <2>5
  <2>7. \A p \in Id : ~profiles'[p].kept => profiles'[p].members = {}
    BY <1>0, <2>3
  <2> QED BY <1>0, <2>1, <2>4, <2>6, <2>7, ChangeStep
<1>3. ASSUME NEW p \in Id, DeleteProfile(p) PROVE BackupInv'
  <2>1. /\ profiles' = [profiles EXCEPT ![p] = NoProfile]
        /\ \A l \in Link : links[l].profile # p
        /\ Change /\ UNCHANGED <<indexers, keys, links>>
    BY <1>3 DEF DeleteProfile
  <2>2. NoProfile \in [kept : BOOLEAN, members : SUBSET IndexerRows(indexers)] /\ NoProfile.members = {}
        /\ ~NoProfile.kept
    BY DEF NoProfile
  <2>3. profiles' \in Profiles(indexers')
    BY <1>0, <2>1, <2>2
  <2>4. ProfileRows(profiles') = ProfileRows(profiles) \ {p}
    BY <1>0, <2>1, <2>2 DEF ProfileRows
  <2>5. ASSUME NEW l \in Link
        PROVE  links[l] \in [profile : {0} \cup ProfileRows(profiles'), key : {0} \cup KeyRowsIn(keys)]
    BY <1>0, <2>1, <2>4
  <2>6. links' \in Links(profiles', keys')
    BY <1>0, <2>1, <2>5
  <2>7. \A q \in Id : ~profiles'[q].kept => profiles'[q].members = {}
    BY <1>0, <2>1, <2>2
  <2> QED BY <1>0, <2>1, <2>3, <2>6, <2>7, ChangeStep
<1>4. ASSUME NEW k \in Id, RevokeKey(k) PROVE BackupInv'
  <2>1. /\ keys' = [keys EXCEPT ![k] = 0]
        /\ links' = [l \in Link |-> IF links[l].key = k THEN [links[l] EXCEPT !.key = 0] ELSE links[l]]
        /\ Change /\ UNCHANGED <<indexers, profiles>>
    BY <1>4 DEF RevokeKey
  <2>2. KeyRowsIn(keys') = KeyRowsIn(keys) \ {k} /\ keys' \in [Id -> {0} \cup Id]
    BY <1>0, <2>1 DEF KeyRowsIn
  <2>3. ASSUME NEW l \in Link
        PROVE  links'[l] \in [profile : {0} \cup ProfileRows(profiles'), key : {0} \cup KeyRowsIn(keys')]
    <3>1. links[l] \in [profile : {0} \cup ProfileRows(profiles), key : {0} \cup KeyRowsIn(keys)]
      BY <1>0
    <3>2. CASE links[l].key = k
      BY <2>1, <3>1, <3>2
    <3>3. CASE links[l].key # k
      BY <2>1, <2>2, <3>1, <3>3
    <3> QED BY <3>2, <3>3
  <2>4. links' \in Links(profiles', keys')
    BY <2>1, <2>3
  <2> QED BY <1>0, <2>1, <2>2, <2>4, ChangeStep
<1>5. ASSUME NEW m \in SUBSET Id, NEW p \in Id, m \subseteq IndexerRows(indexers), Change,
             UNCHANGED <<indexers, keys, links>>,
             \/ profiles' = [profiles EXCEPT ![p] = [kept |-> TRUE, members |-> m]]
             \/ p \in ProfileRows(profiles) /\ profiles' = [profiles EXCEPT ![p].members = m]
      PROVE  BackupInv'
  <2> DEFINE R == [kept : BOOLEAN, members : SUBSET IndexerRows(indexers)]
  <2>1. /\ profiles'[p] \in R /\ profiles'[p].kept /\ profiles'[p].members = m
        /\ \A q \in Id \ {p} : profiles'[q] = profiles[q]
        /\ profiles' = [q \in Id |-> profiles'[q]]
    <3>1. profiles \in [Id -> R] /\ m \in SUBSET IndexerRows(indexers)
      BY <1>0, <1>5
    <3>2. CASE profiles' = [profiles EXCEPT ![p] = [kept |-> TRUE, members |-> m]]
      BY <3>1, <3>2
    <3>3. CASE p \in ProfileRows(profiles) /\ profiles' = [profiles EXCEPT ![p].members = m]
      <4>1. profiles[p].kept /\ profiles[p] \in R
        BY <3>1, <3>3 DEF ProfileRows
      <4> DEFINE y == [profiles[p] EXCEPT !.members = m]
      <4>2. y \in R /\ y.members = m /\ y.kept = profiles[p].kept
        BY <3>1, <4>1
      <4>3. profiles' = [profiles EXCEPT ![p] = y]
        BY <3>3
      <4> HIDE DEF y, R
      <4> QED BY <3>1, <4>1, <4>2, <4>3
    <3> QED BY <1>5, <3>2, <3>3
  <2>2. profiles' \in Profiles(indexers')
    <3>1. ASSUME NEW q \in Id PROVE profiles'[q] \in R
      BY <1>0, <2>1
    <3> QED BY <1>5, <2>1, <3>1
  <2>3. ProfileRows(profiles) \subseteq ProfileRows(profiles')
    BY <2>1 DEF ProfileRows
  <2>4. links' \in Links(profiles', keys')
    BY <1>0, <1>5, <2>3
  <2>5. \A q \in Id : ~profiles'[q].kept => profiles'[q].members = {}
    BY <1>0, <2>1
  <2> QED BY <1>0, <1>5, <2>2, <2>4, <2>5, ChangeStep
<1>6. ASSUME NEW m \in SUBSET Id, CreateProfile(m) PROVE BackupInv'
  BY <1>5, <1>6 DEF CreateProfile
<1>7. ASSUME NEW m \in SUBSET Id, NEW p \in Id, UpdateProfile(p, m) PROVE BackupInv'
  BY <1>5, <1>7 DEF UpdateProfile
<1>8. ASSUME NEW l \in Link, NEW p \in 0 .. MaxId, SetProfile(l, p) PROVE BackupInv'
  <2>1. /\ p \in {0} \cup ProfileRows(profiles) /\ Change /\ UNCHANGED <<indexers, profiles, keys>>
        /\ links' = [links EXCEPT ![l].profile = p]
    BY <1>8 DEF SetProfile
  <2>2. links' \in Links(profiles', keys')
    BY <1>0, <2>1
  <2> QED BY <1>0, <2>1, <2>2, ChangeStep
<1> QED BY <1>1, <1>2, <1>3, <1>4, <1>6, <1>7, <1>8

-----------------------------------------------------------------------------
(* The export: a bundle is typed as it grows, and untorn it says what the     *)
(* tables said.                                                              *)
LEMMA ReadStep ==
  ASSUME BackupInv, NEW pc \in {"idle", "members", "keys", "indexers"},
         NEW next \in {"members", "keys", "indexers", "links"}, NEW got \in BundleType,
         got.ready, Reads(pc, next, got),
         ~export.torn =>
           /\ next = "members" =>
                \A p \in Id : got.profiles[p] = [kept |-> profiles[p].kept, members |-> {}]
           /\ next \in {"keys", "indexers", "links"} => got.profiles = profiles
           /\ next \in {"indexers", "links"} => got.keys = keys
           /\ next = "links" => got.indexers = indexers
  PROVE  BackupInv'
<1>1. /\ export' = [pc |-> next, torn |-> export.torn, got |-> got]
      /\ UNCHANGED <<indexers, profiles, keys, links, bundle, changes, restores>>
  BY DEF Reads, tables
<1>2. export.torn \in BOOLEAN
  BY BlankFacts, Zenon DEF BackupInv, ExportOk
<1>3. /\ export'.pc = next /\ export'.torn = export.torn /\ export'.got = got
  BY <1>1
<1>4. ExportOk'
  BY <1>1, <1>2, <1>3 DEF ExportOk
<1>5. BundleOk'
  BY <1>1, BundleStays DEF BackupInv
<1>6. BackupTypeOK'
  BY <1>1, <1>3 DEF BackupInv, BackupTypeOK, IndexerRows, ProfileRows, KeyRowsIn
<1> QED BY <1>1, <1>4, <1>5, <1>6 DEF BackupInv

LEMMA ReadingFacts ==
  ASSUME BackupInv, export.pc # "idle"
  PROVE  /\ export.got \in BundleType /\ export.got.ready /\ export.torn \in BOOLEAN
         /\ ~export.torn =>
              /\ export.pc = "members" =>
                   \A p \in Id : export.got.profiles[p] = [kept |-> profiles[p].kept, members |-> {}]
              /\ export.pc \in {"keys", "indexers", "links"} => export.got.profiles = profiles
              /\ export.pc \in {"indexers", "links"} => export.got.keys = keys
              /\ export.pc = "links" => export.got.indexers = indexers
BY BlankFacts DEF BackupInv, ExportOk

LEMMA ExportStep ==
  ASSUME BackupInv, ExportProfiles \/ ExportMembers \/ ExportKeys \/ ExportIndexers
  PROVE  BackupInv'
<1>1. CASE ExportProfiles
  <2> DEFINE P == [p \in Id |-> [profiles[p] EXCEPT !.members = {}]]
             got == [BlankBundle EXCEPT !.profiles = P]
  <2>1. ASSUME NEW p \in Id
        PROVE  P[p] \in Profile /\ P[p] = [kept |-> profiles[p].kept, members |-> {}]
    <3>1. profiles[p] \in Profile
      BY TableFacts
    <3> QED BY <3>1 DEF Profile
  <2>2. Reads("idle", "members", got)
    BY <1>1 DEF ExportProfiles
  <2>3. P \in [Id -> Profile]
    BY <2>1
  <2> HIDE DEF P
  <2>4. got \in BundleType /\ got.profiles = P /\ got.ready
    BY <2>3, BlankFacts DEF BundleType
  <2> HIDE DEF got
  <2> QED BY <2>1, <2>2, <2>4, ReadStep
<1>2. CASE ExportMembers
  <2> DEFINE P == WithMembers(export.got.profiles)
             got == [export.got EXCEPT !.profiles = P]
  <2>1. Reads("members", "keys", got) /\ export.pc = "members"
    BY <1>2 DEF ExportMembers, Reads
  <2>2. /\ export.got \in BundleType /\ export.got.ready
        /\ ~export.torn => \A p \in Id : export.got.profiles[p] = [kept |-> profiles[p].kept, members |-> {}]
    BY <2>1, ReadingFacts
  <2>3. profiles \in [Id -> Profile] /\ NoProfile \in Profile
        /\ \A p \in Id : ~profiles[p].kept => profiles[p].members = {}
    BY TableFacts DEF NoProfile, Profile, BackupInv
  <2>4. export.got.profiles \in [Id -> Profile]
    BY <2>2 DEF BundleType
  <2>5. ASSUME NEW p \in Id
        PROVE  /\ P[p] = IF export.got.profiles[p].kept
                         THEN [export.got.profiles[p] EXCEPT !.members = profiles[p].members]
                         ELSE NoProfile
               /\ P[p] \in Profile
    BY <2>3, <2>4 DEF WithMembers, Profile
  <2>6. P \in [Id -> Profile]
    BY <2>5 DEF WithMembers
  <2>7. ASSUME ~export.torn, NEW p \in Id PROVE P[p] = profiles[p]
    <3>1. export.got.profiles[p] = [kept |-> profiles[p].kept, members |-> {}]
          /\ profiles[p] \in Profile
      BY <2>2, <2>3, <2>7
    <3>2. profiles[p] = [kept |-> profiles[p].kept, members |-> profiles[p].members]
      BY <3>1 DEF Profile
    <3>3. CASE profiles[p].kept
      <4> DEFINE x == export.got.profiles[p]
                 y == [x EXCEPT !.members = profiles[p].members]
      <4>1. x \in Profile /\ x.kept = profiles[p].kept /\ P[p] = y
        BY <2>4, <2>5, <3>1, <3>3
      <4> HIDE DEF x, P
      <4>2. y \in Profile /\ y.kept = profiles[p].kept /\ y.members = profiles[p].members
        BY <3>1, <4>1 DEF Profile
      <4> HIDE DEF y
      <4>3. y = [kept |-> y.kept, members |-> y.members]
        BY <4>2 DEF Profile
      <4> QED BY <3>2, <4>1, <4>2, <4>3
    <3>4. CASE ~profiles[p].kept
      <4>1. profiles[p].members = {} /\ profiles[p].kept = FALSE
        BY <2>3, <3>1, <3>4 DEF Profile
      <4> QED BY <2>5, <3>1, <3>2, <3>4, <4>1 DEF NoProfile
    <3> QED BY <3>3, <3>4
  <2> HIDE DEF P
  <2>8. ~export.torn => P = profiles
    BY <2>3, <2>6, <2>7
  <2>9. got \in BundleType /\ got.profiles = P /\ got.ready
    BY <2>2, <2>6 DEF BundleType
  <2> HIDE DEF got
  <2> QED BY <2>1, <2>8, <2>9, ReadStep
<1>3. CASE ExportKeys
  <2> DEFINE got == [export.got EXCEPT !.keys = keys]
  <2>1. Reads("keys", "indexers", got) /\ export.pc = "keys"
    BY <1>3 DEF ExportKeys, Reads
  <2>2. export.got \in BundleType /\ export.got.ready /\ (~export.torn => export.got.profiles = profiles)
    BY <2>1, ReadingFacts
  <2>3. keys \in [Id -> {0} \cup Id]
    BY TableFacts
  <2>4. got \in BundleType /\ got.profiles = export.got.profiles /\ got.keys = keys /\ got.ready
    BY <2>2, <2>3 DEF BundleType
  <2> HIDE DEF got
  <2> QED BY <2>1, <2>2, <2>4, ReadStep
<1>4. CASE ExportIndexers
  <2> DEFINE got == [export.got EXCEPT !.indexers = indexers]
  <2>1. Reads("indexers", "links", got) /\ export.pc = "indexers"
    BY <1>4 DEF ExportIndexers, Reads
  <2>2. /\ export.got \in BundleType /\ export.got.ready
        /\ ~export.torn => export.got.profiles = profiles /\ export.got.keys = keys
    BY <2>1, ReadingFacts
  <2>3. indexers \in [Id -> Slug \cup {NoSlug}]
    BY TableFacts
  <2>4. /\ got \in BundleType /\ got.profiles = export.got.profiles /\ got.keys = export.got.keys
        /\ got.indexers = indexers /\ got.ready
    BY <2>2, <2>3 DEF BundleType
  <2> HIDE DEF got
  <2> QED BY <2>1, <2>2, <2>4, ReadStep
<1> QED BY <1>1, <1>2, <1>3, <1>4

(* The last table: an untorn bundle says of each connection what holds now.   *)
LEMMA BundledStep ==
  ASSUME BackupInv, ExportLinks
  PROVE  BackupInv'
<1> DEFINE L == [l \in Link |-> BundledLink(links[l].profile, links[l].key, "", {})]
           F == [l \in Link |-> Fed(l)]
           H == [l \in Link |-> KeyHeld(l)]
           g == export.got
<1>1. /\ export.pc = "links" /\ export' = NoExport
      /\ bundle' = [g EXCEPT !.whole = ~export.torn, !.links = L, !.fed = F, !.held = H]
      /\ UNCHANGED <<indexers, profiles, keys, links, changes, restores>>
  BY DEF ExportLinks, tables
<1>2. /\ g \in BundleType /\ g.ready /\ export.torn \in BOOLEAN
      /\ ~export.torn => g.profiles = profiles /\ g.keys = keys /\ g.indexers = indexers
  BY <1>1, ReadingFacts
<1>3. /\ indexers \in [Id -> Slug \cup {NoSlug}] /\ keys \in [Id -> {0} \cup Id]
      /\ \A p \in Id : profiles[p].members \subseteq IndexerRows(indexers)
      /\ \A l \in Link : /\ links[l].profile \in {0} \cup Id /\ links[l].key \in {0} \cup Id
                         /\ links[l].profile \in {0} \cup ProfileRows(profiles)
                         /\ links[l].key \in {0} \cup KeyRowsIn(keys)
      /\ IndexerRows(indexers) \in SUBSET Id
  BY TableFacts
<1>4. ASSUME NEW l \in Link
      PROVE  /\ L[l] \in [profile : {0} \cup Id, key : {0} \cup Id, scope : {"", "selected"},
                          picked : SUBSET Id]
             /\ L[l].profile = links[l].profile /\ L[l].key = links[l].key
             /\ L[l].scope = "" /\ L[l].picked = {}
  <2>1. links[l].profile \in {0} \cup Id /\ links[l].key \in {0} \cup Id
    BY <1>3
  <2> QED BY <2>1 DEF BundledLink
<1>5. L \in [Link -> [profile : {0} \cup Id, key : {0} \cup Id, scope : {"", "selected"},
                     picked : SUBSET Id]]
  BY <1>4
<1>6. ASSUME NEW l \in Link
      PROVE  F[l] \in SUBSET (Slug \cup {NoSlug}) /\ H[l] \in {0} \cup Id
  <2>1. F[l] = Fed(l) /\ H[l] = KeyHeld(l)
    OBVIOUS
  <2>2. Fed(l) \in SUBSET (Slug \cup {NoSlug})
    BY <1>3 DEF Fed, ProfileRows
  <2>3. KeyHeld(l) \in {0} \cup Id
    BY <1>3 DEF KeyHeld
  <2> QED BY <2>1, <2>2, <2>3
<1>7. F \in [Link -> SUBSET (Slug \cup {NoSlug})] /\ H \in [Link -> {0} \cup Id]
  BY <1>6
<1>8. \A l \in Link : F[l] = Fed(l) /\ H[l] = KeyHeld(l)
  OBVIOUS
<1> HIDE DEF L, F, H, g
<1>9. /\ bundle' \in BundleType
      /\ bundle'.whole = ~export.torn /\ bundle'.links = L /\ bundle'.fed = F /\ bundle'.held = H
      /\ bundle'.profiles = g.profiles /\ bundle'.keys = g.keys /\ bundle'.indexers = g.indexers
  BY <1>1, <1>2, <1>5, <1>7 DEF BundleType
<1>10. ASSUME ~export.torn, NEW l \in Link PROVE Says(bundle', l)
  <2> DEFINE b == bundle'
  <2>1. /\ b.profiles = profiles /\ b.keys = keys /\ b.indexers = indexers
        /\ b.links[l].profile = links[l].profile /\ b.links[l].key = links[l].key
        /\ b.links[l].scope = "" /\ b.fed[l] = Fed(l) /\ b.held[l] = KeyHeld(l)
    BY <1>2, <1>4, <1>8, <1>9, <1>10
  <2> HIDE DEF b
  <2>2. l \notin Minting(b)
    BY <2>1 DEF Minting
  <2>3. PickedIn(b, l) = IF links[l].profile = 0 THEN {} ELSE profiles[links[l].profile].members
    BY <2>1, <2>2 DEF PickedIn
  <2>4. PickedIn(b, l) \subseteq IndexerRows(indexers)
    BY <1>3, <2>3
  <2>5. RowsFed(b, l) = IF PickedIn(b, l) = {} THEN IndexerRows(indexers) ELSE PickedIn(b, l)
    BY <2>1 DEF RowsFed
  <2>6. Fed(l) = {indexers[r] : r \in RowsFed(b, l)}
    BY <2>3, <2>5 DEF Fed
  <2>7. KeyHeld(l) = IF links[l].key = 0 THEN 0 ELSE keys[links[l].key]
    BY DEF KeyHeld
  <2> QED BY <1>3, <2>1, <2>4, <2>6, <2>7 DEF Says, b
<1>11. BundleOk'
  BY <1>9, <1>10 DEF BundleOk
<1>12. ExportOk' /\ export'.pc = "idle"
  BY <1>1, BlankFacts DEF ExportOk
<1>13. BackupTypeOK'
  BY <1>1, <1>12 DEF BackupInv, BackupTypeOK, IndexerRows, ProfileRows, KeyRowsIn
<1> QED BY <1>1, <1>11, <1>12, <1>13 DEF BackupInv

LEMMA RestoreStep ==
  ASSUME BackupInv, restore
  PROVE  BackupInv'
<1>1. /\ bundle.ready /\ restores < MaxImport /\ restores' = restores + 1 /\ load(bundle)
      /\ export' = Torn(export) /\ UNCHANGED <<bundle, changes>>
  BY DEF restore
<1>2. bundle \in BundleType
  BY <1>1 DEF BackupInv, BundleOk, NoBundle
<1>3. LoadedTables(bundle) /\ ProfilesHold /\ LinksHold
  BY <1>1, <1>2, LoadTables
<1>4. indexers' \in [Id -> Slug \cup {NoSlug}] /\ keys' \in [Id -> {0} \cup Id]
  <2> DEFINE irows == IndexerRows(bundle.indexers)
             krows == KeyRowsIn(bundle.keys)
             V == Slug \cup {NoSlug}
             K == {0} \cup Id
  <2>1. /\ irows \in SUBSET Id /\ \A r \in irows : bundle.indexers[r] \in V
        /\ krows \in SUBSET Id /\ \A r \in krows : bundle.keys[r] \in K
        /\ NoSlug \in V /\ 0 \in K
    BY <1>2, BundleRows
  <2> HIDE DEF irows, krows, V, K
  <2>2. LoadedTable(bundle.indexers, irows, NoSlug) \in [Id -> V]
    BY <2>1, LoadedType
  <2>3. LoadedTable(bundle.keys, krows, 0) \in [Id -> K]
    BY <2>1, LoadedType
  <2> QED BY <1>3, <2>2, <2>3 DEF LoadedTables, irows, krows, V, K
<1>6. profiles' \in [Id -> [kept : BOOLEAN, members : SUBSET IndexerRows(indexers')]]
  <2>1. ASSUME NEW p \in Id
        PROVE  profiles'[p] \in [kept : BOOLEAN, members : SUBSET IndexerRows(indexers')]
    BY <1>3 DEF ProfilesHold, Profile
  <2> QED BY <1>3, <2>1 DEF ProfilesHold
<1>7. restores' \in 0 .. MaxImport
  BY <1>1, BackupAssumption DEF BackupInv, BackupTypeOK, BackupAssumption
<1>8. export'.pc = export.pc
  BY <1>1, BlankFacts DEF Torn, BackupInv, ExportOk
<1>9. BackupTypeOK'
  BY <1>1, <1>3, <1>4, <1>6, <1>7, <1>8 DEF BackupInv, BackupTypeOK, LinksHold
<1>10. BundleOk' /\ ExportOk'
  BY <1>1, BundleStays, TornExport DEF BackupInv
<1> QED BY <1>3, <1>9, <1>10 DEF BackupInv, ProfilesHold

LEMMA BackupStep == BackupInv /\ [BackupNext]_backupVars => BackupInv'
<1> SUFFICES ASSUME BackupInv, [BackupNext]_backupVars PROVE BackupInv'
  OBVIOUS
<1>1. CASE ExportProfiles \/ ExportMembers \/ ExportKeys \/ ExportIndexers
  BY <1>1, ExportStep
<1>2. CASE ExportLinks
  BY <1>2, BundledStep
<1>3. CASE restore
  BY <1>3, RestoreStep
<1>4. CASE \/ \E s \in Slug : AddSlug(s)
           \/ \E r \in Id : DeleteSlug(r) \/ DeleteProfile(r) \/ RevokeKey(r)
           \/ \E m \in SUBSET Id : CreateProfile(m) \/ \E p \in Id : UpdateProfile(p, m)
           \/ \E l \in Link, p \in 0 .. MaxId : SetProfile(l, p)
  BY <1>4, OperatorStep
<1>5. CASE UNCHANGED backupVars
  <2>1. BundleOk'
    BY <1>5, BundleStays DEF backupVars, BackupInv
  <2> QED BY <1>5, <2>1 DEF backupVars, tables, BackupInv, BackupTypeOK, ExportOk, IndexerRows,
                           ProfileRows, KeyRowsIn
<1> QED BY <1>1, <1>2, <1>3, <1>4, <1>5 DEF BackupNext

LEMMA BackupInvariant == BackupSpec => []BackupInv
BY BackupStart, BackupStep, PTL DEF BackupSpec

(* The references of the tables hold, whatever is restored into them.        *)
THEOREM BackupTypeCorrect == BackupSpec => []BackupTypeOK
<1>1. BackupInv => BackupTypeOK
  BY DEF BackupInv
<1> QED BY <1>1, BackupInvariant, PTL

(* For any tables, any changes between and during exports, and any bundle of *)
(* this or an earlier version: an untorn bundle restores every connection    *)
(* with the indexers it fed and the key it held (restore.go: load, remap,    *)
(* resolveConnSyncProfile).                                                  *)
THEOREM RestoresAreFaithful == BackupSpec => RestoreFaithful
<1> DEFINE Restored == restores' > restores /\ bundle.whole =>
                     \A l \in Link : Fed(l)' = bundle.fed[l] /\ KeyHeld(l)' = bundle.held[l]
<1>1. ASSUME BackupInv, [BackupNext]_backupVars, restores' > restores, bundle.whole, NEW l \in Link
      PROVE  Fed(l)' = bundle.fed[l] /\ KeyHeld(l)' = bundle.held[l]
  <2>1. ~(restores' = restores)
    <3>1. restores \in Int
      BY <1>1 DEF BackupInv, BackupTypeOK
    <3> QED BY <1>1, <3>1
  <2>2. restore
    BY <1>1, <2>1 DEF BackupNext, ExportProfiles, ExportMembers, ExportKeys, ExportIndexers,
         ExportLinks, Reads, AddSlug, DeleteSlug, CreateProfile, UpdateProfile, DeleteProfile,
         SetProfile, RevokeKey, Change, backupVars
  <2>3. load(bundle) /\ bundle.ready
    BY <2>2 DEF restore
  <2>4. bundle \in BundleType /\ Says(bundle, l)
    BY <1>1, <2>3 DEF BackupInv, BundleOk, NoBundle
  <2> QED BY <2>3, <2>4, RestoredLink
<1>2. BackupInv /\ [BackupNext]_backupVars => [Restored]_backupVars
  BY <1>1
<1> QED BY <1>2, BackupInvariant, PTL DEF BackupSpec, RestoreFaithful

---------------------------------------------------------------------------
(***************************************************************************)
(* The components together: a behaviour in which one of them moves and the  *)
(* others rest is a behaviour of each, so what is proved of each carries    *)
(* over.                                                                    *)
(***************************************************************************)

LEMMA LedgersAreComponents ==
  LedgersSpec =>
    /\ Spec /\ CountersSpec /\ HealthSpec /\ AppSyncSpec /\ ConnectionsSpec
    /\ AnnounceSpec /\ BackupSpec
<1>1. LedgersInit =>
        /\ Init /\ CountersInit /\ HealthInit /\ AppSyncInit /\ ConnectionsInit
        /\ AnnounceInit /\ BackupInit
  BY DEF LedgersInit
<1>2. [LedgersNext]_ledgersVars =>
        /\ [Next]_vars /\ [CountersNext]_counterVars /\ [HealthNext]_healthVars
        /\ [AppSyncNext]_appSyncVars /\ [ConnectionsNext]_connVars
        /\ [AnnounceNext]_announceVars /\ [BackupNext]_backupVars
  BY DEF LedgersNext, ledgersVars
<1>3. LedgersSpec => Spec /\ CountersSpec /\ HealthSpec /\ AppSyncSpec
  BY <1>1, <1>2, PTL DEF LedgersSpec, Spec, CountersSpec, HealthSpec, AppSyncSpec
<1>4. LedgersSpec => ConnectionsSpec /\ AnnounceSpec /\ BackupSpec
  BY <1>1, <1>2, PTL DEF LedgersSpec, ConnectionsSpec, AnnounceSpec, BackupSpec
<1> QED BY <1>3, <1>4

LedgersTyped ==
  /\ TypeOK /\ CountersTypeOK /\ HealthTypeOK /\ AppSyncTypeOK
  /\ ConnectionsTypeOK /\ AnnounceTypeOK /\ BackupTypeOK

(* Whichever of them moves, every ledger keeps its type and its references.  *)
THEOREM LedgersTypesCorrect == LedgersSpec => []LedgersTypeOK
<1>1. LedgersSpec => []LedgersTyped
  BY LedgersAreComponents, BudgetTypeCorrect, CountersTypeCorrect, HealthTypeCorrect,
     AppSyncTypeCorrect, ConnectionsTypeCorrect, AnnounceTypeCorrect, BackupTypeCorrect, PTL
     DEF LedgersTyped
<1>2. LedgersTyped => LedgersTypeOK
  BY DEF LedgersTyped, LedgersTypeOK
<1> QED BY <1>1, <1>2, PTL

(* Whichever of them moves, every safety property of each holds, also beyond *)
(* the states at which the constraint of the run stops.                     *)
THEOREM LedgersAreSafe ==
  LedgersSpec =>
    /\ []( /\ CounterIsExact /\ WithinLimit /\ CountersAgree /\ StatusFollows
           /\ LedgerFaithful /\ SyncAgrees /\ KeysAccounted /\ AnnouncedOnce )
    /\ SpentIsFinal /\ RestoreFaithful
BY LedgersAreComponents, CounterExact, LimitHolds, LatchHolds, CountersAlwaysAgree,
   StatusIsTheLatest, LedgerIsFaithful, EndedWellAgrees, KeysAreAccounted,
   ReleasesAnnouncedOnce, RestoresAreFaithful, PTL
===========================================================================
