---------------------------- MODULE AppsProofs ----------------------------
(***************************************************************************)
(* Proofs about what harbrr keeps of other applications: the keys it mints  *)
(* for them and the ledger of what it pushed to them.                       *)
(***************************************************************************)
EXTENDS Connections, AppSync, FiniteSetTheorems, TLAPS, NaturalsInduction, WellFoundedInduction

---------------------------------------------------------------------------
(***************************************************************************)
(* Connections, for any number of requests, apps, rows and keys: no key is  *)
(* left live without an owner, an error that named it, a crash, or a delete *)
(* that met another row under the id it had read.                           *)
(***************************************************************************)

Excused == reported \cup cutOff \cup mistaken

(* Who answers for the key of a row: somebody who knows it by its number. *)
OwnedByOp(k) == \E o \in Holders : op[o].minted = apiKey[k] /\ op[o].key = k
OwnedByConn(k) == \E r \in ConnRows : conn[r].sealed = apiKey[k] /\ conn[r].key = k
Owned == \A k \in KeyRows : apiKey[k] \in Excused \/ OwnedByOp(k) \/ OwnedByConn(k)

(* A number is minted once, so that it tells the row a delete has read from   *)
(* one that took its id: as long as the number is the same, so is the key.    *)
Numbers ==
  /\ \A r \in ConnRows : conn[r].sealed \in 1 .. mints
  /\ \A o \in Op : op[o].pc = "insert" => op[o].key \in Row /\ op[o].app \in Row
                                          /\ op[o].minted \in 1 .. mints
  /\ \A o \in Op : op[o].pc \in {"orphan", "revoke"} => op[o].key \in Row
  /\ \A o \in Op : op[o].pc = "delete" => op[o].conn \in Row /\ op[o].minted <= mints
  /\ \A o \in Op : op[o].pc = "mint" => op[o].app \in Row

Distinct ==
  /\ \A o, p \in Op : o # p /\ op[o].pc = "insert" /\ op[p].pc \in {"insert", "delete"}
                        => op[o].minted # op[p].minted
  /\ \A o \in Op : \A r \in ConnRows : op[o].pc = "insert" => conn[r].sealed # op[o].minted

DeleteOk(o) ==
  op[o].pc = "delete" =>
    \A r \in ConnRows : r = op[o].conn /\ conn[r].sealed = op[o].minted
                          => conn[r].key \in {0, op[o].key}

ConnInv == /\ ConnectionsTypeOK /\ Numbers /\ Distinct /\ Owned
           /\ \A o \in Op : DeleteOk(o)

-----------------------------------------------------------------------------
(* The id a table gives is not in use. *)
LEMMA GreatestExists ==
  ASSUME NEW S \in SUBSET Row, S # {}
  PROVE  \E m \in S : \A n \in S : n <= m
<1> DEFINE T == {MaxRow - n : n \in S}
<1>1. T \in SUBSET Nat /\ T # {}
  BY ConnectionsAssumption DEF Row
<1>2. PICK t \in T : \A u \in T : <<u, t>> \notin OpToRel(<, Nat)
  BY <1>1, WFMin, NatLessThanWellFounded, Zenon
<1>3. \A u \in T : ~ (u < t)
  BY <1>1, <1>2, Zenon DEF OpToRel
<1>4. PICK m \in S : t = MaxRow - m
  OBVIOUS
<1>5. ASSUME NEW n \in S PROVE n <= m
  <2>1. MaxRow - n \in T
    OBVIOUS
  <2>2. ~ (MaxRow - n < MaxRow - m)
    BY <1>3, <1>4, <2>1
  <2> QED BY <2>2, ConnectionsAssumption DEF Row
<1> QED BY <1>5

LEMMA NextIdFresh ==
  ASSUME NEW S \in SUBSET Row
  PROVE  NextId(S) \notin S
<1>1. CASE S = {}
  BY <1>1
<1>2. CASE S # {}
  <2> DEFINE m == CHOOSE m \in S : \A n \in S : n <= m
  <2>1. m \in S /\ \A n \in S : n <= m
    BY <1>2, GreatestExists
  <2>2. NextId(S) = 1 + m
    BY <1>2 DEF NextId
  <2> HIDE DEF m
  <2> QED BY <2>1, <2>2 DEF Row
<1> QED BY <1>1, <1>2

LEMMA BecomesFacts ==
  ASSUME ConnectionsTypeOK, NEW o \in Op, NEW x \in OpState, Becomes(o, x)
  PROVE  /\ op' \in [Op -> OpState] /\ op'[o] = x
         /\ \A p \in Op \ {o} : op'[p] = op[p]
  BY DEF Becomes, ConnectionsTypeOK

LEMMA NoOpFacts == /\ NoOp \in OpState /\ NoOp.pc = "none" /\ NoConn \in ConnState
                   /\ NoConn.sealed = 0 /\ NoConn.key = 0
  BY ConnectionsAssumption DEF NoOp, OpState, OpPc, KeyNumber, NoConn, ConnState

LEMMA OpFacts ==
  ASSUME ConnectionsTypeOK, NEW o \in Op
  PROVE  /\ op[o] \in OpState /\ op[o].pc \in OpPc /\ op[o].minted \in KeyNumber
         /\ op[o].key \in 0 .. MaxRow /\ op[o].app \in 0 .. MaxRow /\ op[o].conn \in 0 .. MaxRow
         /\ op[o].about \in Identity \cup {"none"}
<1>1. op[o] \in OpState
  BY DEF ConnectionsTypeOK
<1> QED BY <1>1 DEF OpState

LEMMA ConnFacts ==
  ASSUME ConnectionsTypeOK, NEW r \in Row
  PROVE  /\ conn[r] \in ConnState /\ conn[r].sealed \in KeyNumber /\ conn[r].key \in 0 .. MaxRow
         /\ apiKey[r] \in KeyNumber /\ MaxMint \in Nat /\ mints \in Nat
<1>1. conn[r] \in ConnState /\ apiKey[r] \in KeyNumber /\ mints \in KeyNumber
  BY DEF ConnectionsTypeOK
<1> QED BY <1>1, ConnectionsAssumption DEF ConnState, KeyNumber

-----------------------------------------------------------------------------
(* A request that neither holds a key nor is about to delete a row. *)
LEMMA Idles ==
  ASSUME ConnInv, NEW o \in Op, o \notin Holders, NEW x \in OpState, Becomes(o, x),
         x.pc \in {"none", "app", "mint"}, x.pc = "mint" => x.app \in Row,
         app' \in [Row -> Identity \cup {"none"}], trouble' \in Nat,
         UNCHANGED <<apiKey, conn, mints, connHistory>>
  PROVE  ConnInv'
<1>1. op' \in [Op -> OpState] /\ op'[o] = x /\ \A p \in Op \ {o} : op'[p] = op[p]
  BY BecomesFacts DEF ConnInv
<1> USE DEF ConnInv, connHistory
<1>2. ConnectionsTypeOK'
  BY <1>1 DEF ConnectionsTypeOK
<1>3. Holders' = Holders /\ ConnRows' = ConnRows /\ KeyRows' = KeyRows
  BY <1>1 DEF Holders, ConnRows, KeyRows
<1>4. Numbers'
  BY <1>1, <1>3 DEF Numbers
<1>5. Distinct'
  BY <1>1, <1>3 DEF Distinct
<1>6. Owned'
  <2>1. \A p \in Holders : p # o
    OBVIOUS
  <2> QED BY <1>1, <1>3, <2>1 DEF Owned, OwnedByOp, OwnedByConn, Excused, Holders
<1>7. \A p \in Op : DeleteOk(p)'
  BY <1>1, <1>3 DEF DeleteOk
<1> QED BY <1>2, <1>4, <1>5, <1>6, <1>7

LEMMA IdleSteps ==
  ASSUME ConnInv, NEW o \in Op,
         \/ \E i \in Identity : ResolveApp(o, i)
         \/ CreateApp(o) \/ OpFails(o)
  PROVE  ConnInv'
<1> USE DEF ConnInv
<1>1. op[o] \in OpState /\ ConnectionsTypeOK
  BY OpFacts
<1>2. ASSUME NEW i \in Identity, ResolveApp(o, i) PROVE ConnInv'
  <2>1. op[o].pc = "none" /\ o \notin Holders
    BY <1>2 DEF ResolveApp, OpAt, Holders
  <2>2. PICK x \in OpState : Becomes(o, x) /\ x.pc \in {"app", "mint"}
                             /\ (x.pc = "mint" => x.app \in Row)
    <3>1. [NoOp EXCEPT !.pc = "app", !.about = i] \in OpState
          /\ [NoOp EXCEPT !.pc = "app", !.about = i].pc = "app"
      BY NoOpFacts DEF OpState, OpPc
    <3>2. ASSUME NEW r \in Row
          PROVE  LET x == [NoOp EXCEPT !.pc = "mint", !.about = i, !.app = r]
                 IN  x \in OpState /\ x.pc = "mint" /\ x.app = r
      <4>1. r \in 0 .. MaxRow
        BY ConnectionsAssumption DEF Row
      <4> QED BY <4>1, NoOpFacts DEF OpState, OpPc
    <3>3. CASE Becomes(o, [NoOp EXCEPT !.pc = "app", !.about = i])
      BY <3>1, <3>3
    <3>4. CASE \E r \in AppRows : Becomes(o, [NoOp EXCEPT !.pc = "mint", !.about = i, !.app = r])
      <4>1. PICK r \in Row : Becomes(o, [NoOp EXCEPT !.pc = "mint", !.about = i, !.app = r])
        BY <3>4 DEF AppRows
      <4> QED BY <3>2, <4>1
    <3> QED BY <1>2, <3>3, <3>4 DEF ResolveApp
  <2> QED BY <1>2, <2>1, <2>2, Idles DEF ResolveApp, ConnectionsTypeOK
<1>3. CASE CreateApp(o)
  <2>1. op[o].pc = "app" /\ o \notin Holders
    BY <1>3 DEF CreateApp, OpAt, Holders
  <2>2. CASE Replies(o) /\ UNCHANGED app
    BY <1>3, <2>1, <2>2, NoOpFacts, Idles DEF CreateApp, Replies, ConnectionsTypeOK
  <2>3. CASE ~ (\E r \in AppRows : app[r] = op[o].about)
    <3> DEFINE id == NextId(AppRows)
               x == [op[o] EXCEPT !.pc = "mint", !.app = id]
    <3>1. id \in Row /\ app' = [app EXCEPT ![id] = op[o].about] /\ Becomes(o, x)
      BY <1>3, <2>3 DEF CreateApp
    <3>2. x \in OpState /\ x.pc = "mint" /\ x.app = id
      <4>1. id \in 0 .. MaxRow
        BY <3>1, ConnectionsAssumption DEF Row
      <4> HIDE DEF id
      <4> QED BY <1>1, <4>1 DEF OpState, OpPc
    <3>3. app' \in [Row -> Identity \cup {"none"}]
      BY <1>1, <3>1, OpFacts DEF ConnectionsTypeOK
    <3> HIDE DEF x, id
    <3> QED BY <1>3, <2>1, <3>1, <3>2, <3>3, Idles DEF CreateApp, ConnectionsTypeOK
  <2> QED BY <1>3, <2>2, <2>3 DEF CreateApp
<1>4. CASE OpFails(o)
  BY <1>4, NoOpFacts, Idles DEF OpFails, Replies, Holders, Trouble, ConnectionsTypeOK
<1> QED BY <1>2, <1>3, <1>4

(* A mint gives a new number, and a row nobody refers to by number. *)
LEMMA MintStep == ASSUME ConnInv, NEW o \in Op, MintAPIKey(o) PROVE ConnInv'
<1> DEFINE id == NextId(KeyRows)
           x == [op[o] EXCEPT !.pc = "insert", !.key = id, !.minted = mints + 1]
<1> USE DEF ConnInv
<1>1. /\ op[o].pc = "mint" /\ id \in Row /\ mints < MaxMint /\ mints' = mints + 1
      /\ apiKey' = [apiKey EXCEPT ![id] = mints + 1] /\ Becomes(o, x)
      /\ UNCHANGED <<app, conn, trouble, reported, cutOff, mistaken>>
  BY DEF MintAPIKey, OpAt, connHistory
<1>2. id \notin KeyRows
  BY NextIdFresh DEF KeyRows
<1>3. op[o] \in OpState /\ op[o].app \in Row /\ mints \in Nat /\ MaxMint \in Nat
  BY <1>1, OpFacts, ConnectionsAssumption DEF Numbers, ConnectionsTypeOK, KeyNumber
<1>4. x \in OpState /\ x.pc = "insert" /\ x.key = id /\ x.minted = mints + 1 /\ x.app = op[o].app
  <2>1. id \in 0 .. MaxRow /\ mints + 1 \in KeyNumber
    BY <1>1, <1>3, ConnectionsAssumption DEF Row, KeyNumber
  <2> HIDE DEF id
  <2> QED BY <1>3, <2>1 DEF OpState, OpPc
<1> HIDE DEF x, id
<1>5. op' \in [Op -> OpState] /\ op'[o] = x /\ \A p \in Op \ {o} : op'[p] = op[p]
  BY <1>1, <1>4, BecomesFacts
<1>6. ConnectionsTypeOK'
  BY <1>1, <1>3, <1>5 DEF ConnectionsTypeOK, KeyNumber
<1>7. ConnRows' = ConnRows /\ Holders' = Holders \cup {o} /\ KeyRows' = KeyRows \cup {id}
      /\ o \notin Holders
  BY <1>1, <1>3, <1>4, <1>5 DEF ConnRows, Holders, KeyRows, ConnectionsTypeOK
<1>8. Numbers'
  BY <1>1, <1>3, <1>4, <1>5, <1>7, OpFacts DEF Numbers, KeyNumber
<1>9. Distinct'
  <2>1. \A p \in Op : op[p].pc \in {"insert", "delete"} => op[p].minted <= mints
    BY DEF Numbers
  <2>2. \A p \in Op : op[p].minted \in Nat
    BY OpFacts DEF KeyNumber
  <2> QED BY <1>1, <1>3, <1>4, <1>5, <1>7, <2>1, <2>2 DEF Distinct, Numbers
<1>10. Owned'
  <2>1. ASSUME NEW k \in Row, k = id PROVE OwnedByOp(k)'
    <3>1. apiKey'[k] = mints + 1
      BY <1>1, <2>1 DEF ConnectionsTypeOK
    <3>2. o \in Holders' /\ op'[o].minted = mints + 1 /\ op'[o].key = k
      BY <1>4, <1>5, <1>7, <2>1
    <3> QED BY <3>1, <3>2 DEF OwnedByOp
  <2>2. ASSUME NEW k \in KeyRows
        PROVE  (apiKey[k] \in Excused \/ OwnedByOp(k) \/ OwnedByConn(k))'
    <3>1. k # id /\ k \in Row /\ apiKey'[k] = apiKey[k]
      BY <1>1, <1>2 DEF KeyRows, ConnectionsTypeOK
    <3>2. CASE apiKey[k] \in Excused
      BY <1>1, <3>1, <3>2 DEF Excused
    <3>3. CASE OwnedByOp(k)
      BY <1>5, <1>7, <3>1, <3>3 DEF OwnedByOp, Holders
    <3>4. CASE OwnedByConn(k)
      BY <1>1, <1>7, <3>1, <3>4 DEF OwnedByConn
    <3> QED BY <3>2, <3>3, <3>4 DEF Owned
  <2> QED BY <1>1, <1>7, <2>1, <2>2 DEF Owned, OwnedByOp, OwnedByConn, Excused, KeyRows
<1>11. \A p \in Op : DeleteOk(p)'
  BY <1>1, <1>4, <1>5, <1>7 DEF DeleteOk
<1> QED BY <1>6, <1>8, <1>9, <1>10, <1>11

(* The key moves from the request to the row. *)
LEMMA InsertStep == ASSUME ConnInv, NEW o \in Op, insertSealed(o) PROVE ConnInv'
<1> USE DEF ConnInv
<1>1. PICK n \in Row : n = NextId(ConnRows)
  BY DEF insertSealed, Insertable
<1> DEFINE c == [app |-> op[o].app, key |-> op[o].key, sealed |-> op[o].minted]
<1>2. /\ op[o].pc = "insert" /\ Insertable(o) /\ conn' = [conn EXCEPT ![n] = c]
      /\ Becomes(o, NoOp)
      /\ UNCHANGED <<app, apiKey, mints, trouble, reported, cutOff, mistaken>>
  BY <1>1 DEF insertSealed, OpAt, Replies, connHistory
<1>3. n \notin ConnRows
  BY <1>1, NextIdFresh DEF ConnRows
<1>4. /\ op[o].key \in Row /\ op[o].app \in Row /\ op[o].minted \in 1 .. mints
      /\ op[o].minted \in KeyNumber
  BY <1>2, OpFacts DEF Numbers
<1>5. c \in ConnState /\ c.sealed = op[o].minted /\ c.key = op[o].key /\ c # NoConn
  BY <1>4, NoOpFacts, ConnectionsAssumption DEF ConnState, Row
<1> HIDE DEF c
<1>6. op' \in [Op -> OpState] /\ op'[o] = NoOp /\ \A p \in Op \ {o} : op'[p] = op[p]
  BY <1>2, NoOpFacts, BecomesFacts
<1>7. /\ conn' \in [Row -> ConnState] /\ conn'[n] = c
      /\ \A r \in Row \ {n} : conn'[r] = conn[r]
  BY <1>2, <1>5 DEF ConnectionsTypeOK
<1>8. ConnectionsTypeOK'
  BY <1>2, <1>6, <1>7 DEF ConnectionsTypeOK
<1>9. /\ ConnRows' = ConnRows \cup {n} /\ KeyRows' = KeyRows
      /\ Holders' = Holders \ {o} /\ o \in Holders
  BY <1>2, <1>5, <1>6, <1>7, NoOpFacts DEF ConnRows, KeyRows, Holders
<1>10. Numbers'
  BY <1>2, <1>4, <1>5, <1>6, <1>7, <1>9, NoOpFacts DEF Numbers, ConnRows
<1>11. Distinct'
  <2>1. \A p \in Op \ {o} : op[p].pc \in {"insert", "delete"} => op[p].minted # c.sealed
    BY <1>2, <1>5 DEF Distinct
  <2>2. \A r \in ConnRows : r # n
    BY <1>3
  <2> QED BY <1>2, <1>6, <1>7, <1>9, <2>1, <2>2, NoOpFacts DEF Distinct, ConnRows
<1>12. ASSUME NEW k \in KeyRows'
       PROVE  (apiKey[k] \in Excused \/ OwnedByOp(k) \/ OwnedByConn(k))'
  <2>1. k \in KeyRows /\ k \in Row /\ apiKey'[k] = apiKey[k]
    BY <1>2, <1>9 DEF KeyRows
  <2>2. CASE apiKey[k] \in Excused
    BY <1>2, <2>1, <2>2 DEF Excused
  <2>3. CASE OwnedByOp(k)
    <3>1. PICK p \in Holders : op[p].minted = apiKey[k] /\ op[p].key = k
      BY <2>3 DEF OwnedByOp
    <3>2. CASE p = o
      BY <1>5, <1>7, <1>9, <2>1, <3>1, <3>2 DEF OwnedByConn
    <3>3. CASE p # o
      BY <1>6, <1>9, <2>1, <3>1, <3>3 DEF OwnedByOp, Holders
    <3> QED BY <3>2, <3>3
  <2>4. CASE OwnedByConn(k)
    <3>1. PICK r \in ConnRows : conn[r].sealed = apiKey[k] /\ conn[r].key = k
      BY <2>4 DEF OwnedByConn
    <3>2. r \in Row /\ conn'[r] = conn[r]
      BY <1>3, <1>7 DEF ConnRows
    <3> QED BY <1>9, <2>1, <3>1, <3>2 DEF OwnedByConn
  <2> QED BY <2>1, <2>2, <2>3, <2>4 DEF Owned
<1>13. Owned'
  BY <1>12 DEF Owned, OwnedByOp, OwnedByConn, Excused
<1>14. ASSUME NEW p \in Op PROVE DeleteOk(p)'
  <2>1. CASE p = o
    BY <1>6, <2>1, NoOpFacts DEF DeleteOk
  <2>2. CASE p # o
    <3>1. op'[p] = op[p] /\ (op[p].pc = "delete" => op[p].minted # c.sealed)
      BY <1>2, <1>5, <1>6, <2>2 DEF Distinct
    <3> QED BY <1>3, <1>7, <1>9, <3>1 DEF DeleteOk, ConnRows
  <2> QED BY <2>1, <2>2
<1> QED BY <1>8, <1>10, <1>11, <1>13, <1>14

(* A request in the same stage or a later one, with the key it had. *)
LEMMA KeepsStep ==
  ASSUME ConnInv, NEW o \in Op, InsertFails(o)
  PROVE  ConnInv'
<1> USE DEF ConnInv
<1> DEFINE x == Orphaned(op[o])
<1>1. op[o].pc = "insert" /\ op[o] \in OpState /\ op[o].key \in Row
  BY OpFacts DEF InsertFails, OpAt, Numbers
<1>2. x \in OpState /\ x.pc = "orphan" /\ x.minted = op[o].minted /\ x.key = op[o].key
  BY <1>1 DEF Orphaned, OpState, OpPc
<1>3. Becomes(o, x) /\ trouble' \in Nat
      /\ UNCHANGED <<app, apiKey, conn, mints, reported, cutOff, mistaken>>
  BY DEF InsertFails, Trouble, ConnectionsTypeOK, connHistory
<1> HIDE DEF x
<1>4. op' \in [Op -> OpState] /\ op'[o] = x /\ \A p \in Op \ {o} : op'[p] = op[p]
  BY <1>2, <1>3, BecomesFacts
<1>5. ConnectionsTypeOK'
  BY <1>3, <1>4 DEF ConnectionsTypeOK
<1>6. ConnRows' = ConnRows /\ KeyRows' = KeyRows /\ Holders' = Holders /\ o \in Holders
  BY <1>1, <1>2, <1>3, <1>4 DEF ConnRows, KeyRows, Holders
<1>7. Numbers' /\ Distinct'
  BY <1>1, <1>2, <1>3, <1>4, <1>6 DEF Numbers, Distinct
<1>8. Owned'
  <2>1. \A p \in Holders : op'[p].minted = op[p].minted /\ op'[p].key = op[p].key
    BY <1>2, <1>4 DEF Holders
  <2> QED BY <1>3, <1>6, <2>1 DEF Owned, OwnedByOp, OwnedByConn, Excused
<1>9. \A p \in Op : DeleteOk(p)'
  BY <1>2, <1>3, <1>4, <1>6 DEF DeleteOk
<1> QED BY <1>5, <1>7, <1>8, <1>9

-----------------------------------------------------------------------------
(* A revocation, by whoever, takes the key and the references to it: what     *)
(* answers for another key refers to another row.                             *)
LEMMA RevokedFacts ==
  ASSUME ConnInv, NEW id \in Row, Revoked(id)
  PROVE  /\ apiKey' \in [Row -> KeyNumber] /\ KeyRows' = KeyRows \ {id}
         /\ \A k \in Row \ {id} : apiKey'[k] = apiKey[k]
         /\ conn' \in [Row -> ConnState] /\ ConnRows' = ConnRows
         /\ \A r \in Row : /\ conn'[r].sealed = conn[r].sealed
                           /\ conn'[r].key \in {0, conn[r].key}
                           /\ conn[r].key # id => conn'[r].key = conn[r].key
<1> USE DEF ConnInv
<1>1. apiKey' = [apiKey EXCEPT ![id] = 0] /\ MaxMint \in Nat /\ 0 \in KeyNumber
  BY ConnectionsAssumption DEF Revoked, KeyNumber
<1>2. apiKey' \in [Row -> KeyNumber] /\ apiKey'[id] = 0
      /\ \A k \in Row \ {id} : apiKey'[k] = apiKey[k]
  BY <1>1 DEF ConnectionsTypeOK
<1>3. KeyRows' = KeyRows \ {id}
  BY <1>2 DEF KeyRows
<1>4. ASSUME NEW r \in Row
      PROVE  /\ conn'[r] \in ConnState /\ conn'[r].sealed = conn[r].sealed
             /\ conn'[r].key \in {0, conn[r].key}
             /\ conn[r].key # id => conn'[r].key = conn[r].key
             /\ r \in ConnRows' <=> r \in ConnRows
  <2>1. conn[r] \in ConnState
    BY ConnFacts
  <2>2. CASE r \in ConnRows /\ conn[r].key = id
    <3>1. conn'[r] = [conn[r] EXCEPT !.key = 0]
      BY <2>2 DEF Revoked, ConnRows
    <3>2. conn'[r] \in ConnState /\ conn'[r].sealed = conn[r].sealed /\ conn'[r].key = 0
      BY <2>1, <3>1, ConnectionsAssumption DEF ConnState
    <3>3. conn[r].sealed # 0
      BY <2>2 DEF Numbers
    <3> QED BY <2>2, <3>2, <3>3, NoOpFacts DEF ConnRows
  <2>3. CASE ~ (r \in ConnRows /\ conn[r].key = id)
    <3>1. conn'[r] = conn[r]
      BY <2>3 DEF Revoked, ConnRows
    <3> QED BY <2>1, <3>1 DEF ConnRows
  <2> QED BY <2>2, <2>3
<1>5. conn' \in [Row -> ConnState]
  <2>1. conn' = [r \in Row |-> conn'[r]]
    BY DEF Revoked
  <2> QED BY <1>4, <2>1
<1>6. ConnRows' = ConnRows
  <2>1. ConnRows \subseteq Row /\ ConnRows' \subseteq Row
    BY DEF ConnRows
  <2> QED BY <1>4, <2>1
<1> QED BY <1>2, <1>3, <1>4, <1>5, <1>6

LEMMA RevokedStep ==
  ASSUME ConnInv, NEW id \in Row, Revoked(id), op' \in [Op -> OpState], trouble' \in Nat,
         \A p \in Op : op'[p] = op[p] \/ (op'[p] = NoOp /\ op[p].key = id),
         UNCHANGED <<app, mints, connHistory>>
  PROVE  ConnInv'
<1> USE DEF ConnInv
<1>1. UNCHANGED <<app, mints, reported, cutOff, mistaken>>
  BY DEF connHistory
<1>2. ConnectionsTypeOK'
  BY <1>1, RevokedFacts DEF ConnectionsTypeOK
<1>3. Numbers'
  <2>1. \A r \in ConnRows' : conn'[r].sealed \in 1 .. mints'
    BY <1>1, RevokedFacts DEF Numbers, ConnRows
  <2> QED BY <1>1, <2>1, NoOpFacts DEF Numbers
<1>4. Distinct'
  <2>1. \A p \in Op : op'[p].pc \in {"insert", "delete"} => op'[p] = op[p]
    BY NoOpFacts
  <2>2. \A r \in ConnRows' : r \in ConnRows /\ conn'[r].sealed = conn[r].sealed
    BY RevokedFacts DEF ConnRows
  <2> QED BY <2>1, <2>2 DEF Distinct
<1>5. ASSUME NEW k \in KeyRows'
      PROVE  (apiKey[k] \in Excused \/ OwnedByOp(k) \/ OwnedByConn(k))'
  <2>1. k \in KeyRows /\ k # id /\ k \in Row /\ apiKey'[k] = apiKey[k]
    <3>1. k \in KeyRows /\ k # id
      BY RevokedFacts
    <3> QED BY <3>1, RevokedFacts DEF KeyRows
  <2>2. CASE apiKey[k] \in Excused
    BY <1>1, <2>1, <2>2 DEF Excused
  <2>3. CASE OwnedByOp(k)
    <3>1. PICK p \in Holders : op[p].minted = apiKey[k] /\ op[p].key = k
      BY <2>3 DEF OwnedByOp
    <3>2. p \in Holders' /\ op'[p] = op[p]
      BY <2>1, <3>1 DEF Holders
    <3> QED BY <2>1, <3>1, <3>2 DEF OwnedByOp
  <2>4. CASE OwnedByConn(k)
    <3>1. PICK r \in ConnRows : conn[r].sealed = apiKey[k] /\ conn[r].key = k
      BY <2>4 DEF OwnedByConn
    <3>2. r \in ConnRows' /\ conn'[r].sealed = apiKey[k] /\ conn'[r].key = k
      BY <2>1, <3>1, RevokedFacts DEF ConnRows
    <3> QED BY <2>1, <3>2 DEF OwnedByConn
  <2> QED BY <2>1, <2>2, <2>3, <2>4 DEF Owned
<1>6. Owned'
  BY <1>5 DEF Owned, OwnedByOp, OwnedByConn, Excused
<1>7. ASSUME NEW p \in Op PROVE DeleteOk(p)'
  <2>1. CASE op'[p] = NoOp
    BY <2>1, NoOpFacts DEF DeleteOk
  <2>2. CASE op'[p] = op[p]
    <3>1. ASSUME NEW r \in ConnRows'
          PROVE  r \in ConnRows /\ conn'[r].sealed = conn[r].sealed
                 /\ conn'[r].key \in {0, conn[r].key}
      BY RevokedFacts DEF ConnRows
    <3> QED BY <2>2, <3>1 DEF DeleteOk
  <2> QED BY <2>1, <2>2
<1> QED BY <1>2, <1>3, <1>4, <1>6, <1>7

(* A revocation that fails names the key. *)
LEMMA RevokeStep == ASSUME ConnInv, NEW o \in Op, Revoke(o) PROVE ConnInv'
<1> USE DEF ConnInv
<1> DEFINE id == op[o].key
<1>1. /\ o \in Holders /\ id \in Row /\ Becomes(o, NoOp)
      /\ UNCHANGED <<app, mints, cutOff, mistaken>>
  BY DEF Revoke, Replies, Numbers, Holders
<1>2. op' \in [Op -> OpState] /\ op'[o] = NoOp /\ \A p \in Op \ {o} : op'[p] = op[p]
  BY <1>1, NoOpFacts, BecomesFacts
<1>3. CASE Revoked(id) /\ UNCHANGED <<reported, trouble>>
  <2>1. \E k \in Row : k = op[o].key
    BY <1>1
  <2>2. ASSUME NEW k \in Row, k = op[o].key PROVE ConnInv'
    <3>1. Revoked(k) /\ trouble' \in Nat /\ UNCHANGED <<app, mints, connHistory>>
      BY <1>1, <1>3, <2>2 DEF ConnectionsTypeOK, connHistory
    <3>2. \A p \in Op : op'[p] = op[p] \/ (op'[p] = NoOp /\ op[p].key = k)
      BY <1>2, <2>2
    <3> QED BY <1>2, <3>1, <3>2, RevokedStep, Zenon
  <2> QED BY <2>1, <2>2
<1>4. CASE Trouble /\ reported' = reported \cup ({apiKey[id]} \ {0})
           /\ UNCHANGED <<apiKey, conn>>
  <2>1. trouble' \in Nat /\ apiKey[id] \in KeyNumber
    BY <1>1, <1>4, ConnFacts DEF Trouble, ConnectionsTypeOK
  <2>2. ConnectionsTypeOK'
    BY <1>1, <1>2, <1>4, <2>1 DEF ConnectionsTypeOK
  <2>3. ConnRows' = ConnRows /\ KeyRows' = KeyRows /\ Holders' = Holders \ {o}
    BY <1>1, <1>2, <1>4, NoOpFacts DEF ConnRows, KeyRows, Holders
  <2>4. Numbers' /\ Distinct'
    BY <1>1, <1>2, <1>4, <2>3, NoOpFacts DEF Numbers, Distinct
  <2>5. ASSUME NEW k \in KeyRows
        PROVE  (apiKey[k] \in Excused \/ OwnedByOp(k) \/ OwnedByConn(k))'
    <3>1. CASE apiKey[k] \in Excused
      BY <1>1, <1>4, <3>1 DEF Excused
    <3>2. CASE OwnedByOp(k)
      <4>1. PICK p \in Holders : op[p].minted = apiKey[k] /\ op[p].key = k
        BY <3>2 DEF OwnedByOp
      <4>2. CASE p = o
        BY <1>4, <4>1, <4>2 DEF Excused, KeyRows
      <4>3. CASE p # o
        <5>1. p \in Holders' /\ op'[p] = op[p]
          BY <1>2, <2>3, <4>3 DEF Holders
        <5> QED BY <1>4, <4>1, <5>1 DEF OwnedByOp
      <4> QED BY <4>2, <4>3
    <3>3. CASE OwnedByConn(k)
      BY <1>4, <2>3, <3>3 DEF OwnedByConn
    <3> QED BY <3>1, <3>2, <3>3 DEF Owned
  <2>6. Owned'
    BY <2>3, <2>5 DEF Owned, OwnedByOp, OwnedByConn, Excused
  <2>7. \A p \in Op : DeleteOk(p)'
    BY <1>2, <1>4, <2>3, NoOpFacts DEF DeleteOk
  <2> QED BY <2>2, <2>4, <2>6, <2>7
<1> QED BY <1>3, <1>4, Zenon DEF Revoke

LEMMA ByHandStep == ASSUME ConnInv, NEW k \in Row, RevokeByHand(k) PROVE ConnInv'
  BY RevokedStep DEF ConnInv, RevokeByHand, Trouble, ConnectionsTypeOK

-----------------------------------------------------------------------------
(* A delete answers for the row it has read. *)
LEMMA DeleteGetStep ==
  ASSUME ConnInv, NEW o \in Op, NEW r \in Row, DeleteGet(o, r) PROVE ConnInv'
<1> USE DEF ConnInv
<1> DEFINE x == [NoOp EXCEPT !.pc = "delete", !.conn = r,
                             !.key = conn[r].key, !.minted = conn[r].sealed]
<1>1. /\ op[o].pc = "none" /\ r \in ConnRows /\ Becomes(o, x)
      /\ UNCHANGED <<app, apiKey, conn, mints, trouble, reported, cutOff, mistaken>>
  BY DEF DeleteGet, OpAt, connHistory
<1>2. /\ x \in OpState /\ x.pc = "delete" /\ x.conn = r
      /\ x.key = conn[r].key /\ x.minted = conn[r].sealed
  <2>1. r \in 0 .. MaxRow /\ conn[r].key \in 0 .. MaxRow /\ conn[r].sealed \in KeyNumber
    BY ConnFacts, ConnectionsAssumption DEF Row
  <2> QED BY <2>1, NoOpFacts DEF OpState, OpPc
<1>3. x.minted \in 1 .. mints /\ mints \in Nat
  BY <1>1, <1>2, ConnFacts DEF Numbers
<1> HIDE DEF x
<1>4. op' \in [Op -> OpState] /\ op'[o] = x /\ \A p \in Op \ {o} : op'[p] = op[p]
  BY <1>1, <1>2, BecomesFacts
<1>5. ConnectionsTypeOK'
  BY <1>1, <1>4 DEF ConnectionsTypeOK
<1>6. ConnRows' = ConnRows /\ KeyRows' = KeyRows /\ Holders' = Holders /\ o \notin Holders
  BY <1>1, <1>2, <1>4 DEF ConnRows, KeyRows, Holders
<1>7. Numbers'
  BY <1>1, <1>2, <1>3, <1>4, <1>6 DEF Numbers
<1>8. Distinct'
  <2>1. \A p \in Op \ {o} : op[p].pc = "insert" => op[p].minted # x.minted
    BY <1>1, <1>2 DEF Distinct
  <2> QED BY <1>1, <1>2, <1>4, <1>6, <2>1 DEF Distinct
<1>9. Owned'
  <2>1. \A p \in Holders : p # o /\ op'[p] = op[p]
    BY <1>4, <1>6 DEF Holders
  <2> QED BY <1>1, <1>6, <2>1 DEF Owned, OwnedByOp, OwnedByConn, Excused
<1>10. \A p \in Op : DeleteOk(p)'
  BY <1>1, <1>2, <1>4, <1>6 DEF DeleteOk
<1> QED BY <1>5, <1>7, <1>8, <1>9, <1>10

(* The key goes from the row to the request, unless the row is another one. *)
LEMMA DeleteRowStep == ASSUME ConnInv, NEW o \in Op, DeleteRow(o) PROVE ConnInv'
<1> USE DEF ConnInv
<1> DEFINE r == op[o].conn
<1>1. /\ op[o].pc = "delete" /\ r \in Row /\ op[o] \in OpState /\ o \notin Holders
      /\ UNCHANGED <<app, apiKey, mints, trouble, reported, cutOff>>
  BY OpFacts DEF DeleteRow, OpAt, Numbers, Holders
<1>2. CASE r \notin ConnRows
  BY <1>1, <1>2, NoOpFacts, Idles DEF DeleteRow, Replies, ConnectionsTypeOK, connHistory
<1>3. CASE r \in ConnRows
  <2>1. PICK q \in Row : q = op[o].conn
    BY <1>1
  <2>2. /\ q \in ConnRows /\ conn' = [conn EXCEPT ![q] = NoConn]
        /\ mistaken' = IF conn[q].sealed = op[o].minted THEN mistaken
                       ELSE mistaken \cup KeyOf(q)
    BY <1>3, <2>1 DEF DeleteRow
  <2>3. PICK x \in OpState : /\ Becomes(o, x) /\ x.pc \in {"none", "revoke"}
                             /\ x.pc = "none" => op[o].key = 0
                             /\ x.pc = "revoke" => /\ op[o].key \in Row /\ x.key = op[o].key
                                                   /\ x.minted = op[o].minted
    <3>1. CASE op[o].key = 0
      BY <1>3, <3>1, NoOpFacts DEF DeleteRow, Replies
    <3>2. CASE op[o].key # 0
      <4>1. Becomes(o, [op[o] EXCEPT !.pc = "revoke"])
        BY <1>3, <3>2 DEF DeleteRow, Goes
      <4>2. op[o].key \in Row
        BY <3>2, OpFacts, ConnectionsAssumption DEF Row
      <4>3. [op[o] EXCEPT !.pc = "revoke"] \in OpState
        BY <1>1 DEF OpState, OpPc
      <4>4. /\ [op[o] EXCEPT !.pc = "revoke"].pc = "revoke"
            /\ [op[o] EXCEPT !.pc = "revoke"].key = op[o].key
            /\ [op[o] EXCEPT !.pc = "revoke"].minted = op[o].minted
        BY <1>1 DEF OpState
      <4> QED BY <4>1, <4>2, <4>3, <4>4
    <3> QED BY <3>1, <3>2
  <2>4. op' \in [Op -> OpState] /\ op'[o] = x /\ \A p \in Op \ {o} : op'[p] = op[p]
    BY <2>3, BecomesFacts
  <2>5. /\ conn' \in [Row -> ConnState] /\ conn'[q] = NoConn
        /\ \A s \in Row \ {q} : conn'[s] = conn[s]
    BY <2>2, NoOpFacts DEF ConnectionsTypeOK
  <2>6. /\ ConnRows' = ConnRows \ {q} /\ KeyRows' = KeyRows /\ Holders \subseteq Holders'
        /\ \A p \in Holders : op'[p] = op[p]
    BY <1>1, <2>4, <2>5 DEF ConnRows, KeyRows, Holders
  <2>7. ConnectionsTypeOK'
    <3>1. KeyOf(q) \subseteq KeyNumber
      <4>1. conn[q].key \in 0 .. MaxRow
        BY ConnFacts
      <4>2. conn[q].key # 0 => conn[q].key \in Row
        BY <4>1, ConnectionsAssumption DEF Row
      <4> QED BY <4>2, ConnFacts DEF KeyOf
    <3> QED BY <1>1, <2>2, <2>4, <2>5, <3>1 DEF ConnectionsTypeOK
  <2>8. Numbers'
    <3>1. \A s \in ConnRows' : s \in Row /\ conn'[s].sealed \in 1 .. mints'
      BY <1>1, <2>5, <2>6 DEF Numbers, ConnRows
    <3> QED BY <1>1, <2>3, <2>4, <3>1 DEF Numbers
  <2>9. Distinct'
    <3>1. \A s \in ConnRows' : s \in ConnRows /\ conn'[s] = conn[s]
      BY <2>5, <2>6 DEF ConnRows
    <3> QED BY <2>3, <2>4, <3>1 DEF Distinct
  <2>10. ASSUME NEW k \in KeyRows
         PROVE  (apiKey[k] \in Excused \/ OwnedByOp(k) \/ OwnedByConn(k))'
    <3>1. CASE apiKey[k] \in Excused
      BY <1>1, <2>2, <3>1 DEF Excused
    <3>2. CASE OwnedByOp(k)
      BY <1>1, <2>6, <3>2 DEF OwnedByOp
    <3>3. CASE OwnedByConn(k)
      <4>1. PICK s \in ConnRows : conn[s].sealed = apiKey[k] /\ conn[s].key = k
        BY <3>3 DEF OwnedByConn
      <4>2. CASE s # q
        BY <1>1, <2>5, <2>6, <4>1, <4>2 DEF OwnedByConn, ConnRows
      <4>3. CASE s = q /\ conn[q].sealed = op[o].minted
        <5>1. k \in Row /\ k # 0
          BY DEF KeyRows, Row
        <5>2. conn[q].key \in {0, op[o].key}
          BY <1>1, <2>1, <2>2, <4>3 DEF DeleteOk
        <5>3. op[o].key = k
          BY <4>1, <4>3, <5>1, <5>2
        <5>4. x.pc = "revoke"
          BY <2>3, <5>1, <5>3
        <5>5. o \in Holders' /\ op'[o].minted = apiKey[k] /\ op'[o].key = k
          BY <2>3, <2>4, <4>1, <4>3, <5>3, <5>4 DEF Holders
        <5> QED BY <1>1, <5>5 DEF OwnedByOp
      <4>4. CASE s = q /\ conn[q].sealed # op[o].minted
        <5>1. apiKey[k] \in KeyOf(q)
          BY <4>1, <4>4 DEF KeyOf, KeyRows, Row
        <5> QED BY <1>1, <2>2, <4>4, <5>1 DEF Excused
      <4> QED BY <4>2, <4>3, <4>4
    <3> QED BY <3>1, <3>2, <3>3 DEF Owned
  <2>11. Owned'
    BY <2>6, <2>10 DEF Owned, OwnedByOp, OwnedByConn, Excused
  <2>12. ASSUME NEW p \in Op PROVE DeleteOk(p)'
    <3>1. CASE p = o
      BY <2>3, <2>4, <3>1 DEF DeleteOk
    <3>2. CASE p # o
      BY <2>4, <2>5, <2>6, <3>2 DEF DeleteOk, ConnRows
    <3> QED BY <3>1, <3>2
  <2> QED BY <2>7, <2>8, <2>9, <2>11, <2>12
<1> QED BY <1>2, <1>3

-----------------------------------------------------------------------------
LEMMA DeleteAppStep == ASSUME ConnInv, NEW r \in Row, DeleteApp(r) PROVE ConnInv'
<1> USE DEF ConnInv
<1>1. UNCHANGED <<apiKey, conn, op, mints, trouble, reported, cutOff, mistaken>>
  BY DEF DeleteApp, connHistory
<1>2. ConnectionsTypeOK'
  BY <1>1 DEF DeleteApp, ConnectionsTypeOK
<1>3. Holders' = Holders /\ ConnRows' = ConnRows /\ KeyRows' = KeyRows
  BY <1>1 DEF Holders, ConnRows, KeyRows
<1>4. Numbers' /\ Distinct'
  BY <1>1, <1>3 DEF Numbers, Distinct
<1>5. Owned'
  BY <1>1, <1>3 DEF Owned, OwnedByOp, OwnedByConn, Excused
<1>6. \A p \in Op : DeleteOk(p)'
  BY <1>1, <1>3 DEF DeleteOk
<1> QED BY <1>2, <1>4, <1>5, <1>6

LEMMA CrashStep == ASSUME ConnInv, ProcessCrash PROVE ConnInv'
<1> USE DEF ConnInv
<1>1. /\ UNCHANGED <<app, apiKey, conn, mints, reported, mistaken>>
      /\ op' = [o \in Op |-> NoOp] /\ trouble' \in Nat
      /\ cutOff' = cutOff \cup {op[o].minted : o \in Holders}
  BY DEF ProcessCrash, Trouble, ConnectionsTypeOK
<1>2. ConnectionsTypeOK'
  <2>1. {op[o].minted : o \in Holders} \subseteq KeyNumber
    BY OpFacts DEF Holders
  <2>2. op' \in [Op -> OpState]
    BY <1>1, NoOpFacts
  <2> QED BY <1>1, <2>1, <2>2 DEF ConnectionsTypeOK
<1>3. ConnRows' = ConnRows /\ KeyRows' = KeyRows /\ \A o \in Op : op'[o].pc = "none"
  BY <1>1, NoOpFacts DEF ConnRows, KeyRows
<1>4. Numbers' /\ Distinct'
  BY <1>1, <1>3 DEF Numbers, Distinct
<1>5. Owned'
  <2>1. \A k \in KeyRows : OwnedByOp(k) => apiKey[k] \in cutOff'
    BY <1>1 DEF OwnedByOp
  <2> QED BY <1>1, <1>3, <2>1 DEF Owned, OwnedByOp, OwnedByConn, Excused
<1>6. \A o \in Op : DeleteOk(o)'
  BY <1>3 DEF DeleteOk
<1> QED BY <1>2, <1>4, <1>5, <1>6

LEMMA ConnStep == ASSUME ConnInv, [ConnectionsNext]_connVars PROVE ConnInv'
<1>1. CASE ConnectionsNext
  BY <1>1, IdleSteps, MintStep, InsertStep, KeepsStep, RevokeStep, ByHandStep,
     DeleteGetStep, DeleteRowStep, DeleteAppStep, CrashStep DEF ConnectionsNext
<1>2. CASE UNCHANGED connVars
  BY <1>2 DEF connVars, ConnInv, ConnectionsTypeOK, Numbers, Distinct, Owned, DeleteOk,
     OwnedByOp, OwnedByConn, Excused, Holders, ConnRows, KeyRows
<1> QED BY <1>1, <1>2

LEMMA ConnInit == ASSUME ConnectionsInit PROVE ConnInv
<1> USE DEF ConnectionsInit
<1>1. ConnRows = {} /\ KeyRows = {} /\ \A o \in Op : op[o].pc = "none"
  BY NoOpFacts DEF ConnRows, KeyRows
<1>2. ConnectionsTypeOK
  BY NoOpFacts, ConnectionsAssumption DEF ConnectionsTypeOK, KeyNumber
<1> QED BY <1>1, <1>2 DEF ConnInv, Numbers, Distinct, Owned, DeleteOk

LEMMA ConnInvariant == ConnectionsSpec => []ConnInv
  BY ConnInit, ConnStep, PTL DEF ConnectionsSpec

(* Every row, request and key of a run has its type. *)
THEOREM ConnectionsTypeCorrect == ConnectionsSpec => []ConnectionsTypeOK
<1>1. ConnInv => ConnectionsTypeOK
  BY DEF ConnInv
<1> QED BY <1>1, ConnInvariant, PTL

(* No key is live without a connection or a request that answers for it, an   *)
(* error that named it, a crash, or a delete that met another row.            *)
THEOREM KeysAreAccounted == ConnectionsSpec => []KeysAccounted
<1>1. ASSUME ConnInv PROVE KeysAccounted
  <2>1. ASSUME NEW k \in KeyRows, OwnedByOp(k) PROVE apiKey[k] \in Held
    BY <2>1 DEF OwnedByOp, Held
  <2>2. ASSUME NEW k \in KeyRows, OwnedByConn(k) PROVE apiKey[k] \in Referenced
    <3>1. PICK r \in ConnRows : conn[r].key = k
      BY <2>2 DEF OwnedByConn
    <3>2. apiKey[k] \in KeyOf(r)
      BY <3>1 DEF KeyOf, KeyRows, Row
    <3> QED BY <3>2 DEF Referenced
  <2> QED BY <1>1, <2>1, <2>2 DEF ConnInv, Owned, KeysAccounted, Excused
<1> QED BY <1>1, ConnInvariant, PTL

---------------------------------------------------------------------------
(***************************************************************************)
(* AppSync, for any number of indexers, configurations, rows and runs: what *)
(* the ledger says of a row of the app is so, no indexer has two rows       *)
(* unless two runs overlapped, and a run that ends well leaves the app as   *)
(* the indexers are.                                                        *)
(***************************************************************************)

Listings == UNION {[D -> Indexer \cup {Foreign}] : D \in SUBSET Rid}

RunState ==
  [pc : {"idle", "ledger", "profile", "list", "push", "orphans", "done"},
   level : {"full", "add_update"}, seen : [Indexer -> 0 .. MaxConf], prior : [Indexer -> Entry],
   want : SUBSET Indexer, listed : Listings,
   todo : SUBSET (Indexer \cup Rid), out : [Indexer -> OutcomeType], good : BOOLEAN,
   bad : BOOLEAN, alone : BOOLEAN, clean : BOOLEAN, gone : SUBSET Indexer]

(* Row ids that are not another indexer's and never will be: the app gives   *)
(* no id out twice, and no push changes the slug of a row.                  *)
Mine(i) == {r \in 0 .. lastRid : r \in DOMAIN remote => remote[r].slug = i}

(* What may be said of a row of the app and is so, as long as the row exists. *)
Truths(i) ==
  {e \in Entry \cup OutcomeType :
     e.hash # 0 /\ e.remote \in DOMAIN remote =>
       remote[e.remote] = [slug |-> i, conf |-> e.hash]}

RowsAreOwned ==
  /\ RowsOf(Foreign) = {1}
  /\ \A i \in Indexer : book[i].remote \in Mine(i)

NamesOk(s) ==
  /\ \A i \in Indexer : run[s].prior[i].remote \in Mine(i) /\ run[s].out[i].remote \in Mine(i)
  /\ \A r \in DOMAIN run[s].listed : r \in DOMAIN remote => remote[r].slug = run[s].listed[r]

PhaseOk(s) ==
  /\ ~Active(s) => \A i \in Indexer : run[s].prior[i] = NoEntry /\ run[s].out[i] = NoOutcome
  /\ At_(s, "push") => run[s].todo \subseteq run[s].want
  /\ At_(s, "orphans") => run[s].todo \subseteq Orphans(run[s])

(* A run that is alone has no other beside it, nor has a clean one, until it *)
(* ended and since.                                                         *)
LonelyOk(s) ==
  /\ Active(s) /\ run[s].alone => \A t \in Sync \ {s} : ~Active(t)
  /\ ~At_(s, "idle") /\ run[s].clean => run[s].alone /\ \A t \in Sync \ {s} : ~Active(t)
  /\ ~overlapped /\ Active(s) => run[s].alone

TruthOk(s) ==
  \A i \in Indexer :
    /\ i \notin astray => run[s].prior[i] \in Truths(i) /\ run[s].out[i] \in Truths(i)
    /\ run[s].out[i].action \in {"created", "updated"} =>
         i \in astray /\ (run[s].alone => run[s].out[i] \in Truths(i))
    /\ run[s].out[i].action \in {"none", "deleted", "failed"} => run[s].out[i].hash = 0

SingleOk ==
  ~overlapped =>
    /\ \A i \in Indexer : \A q, r \in RowsOf(i) : q = r
    /\ \A s \in Sync : At_(s, "push") =>
         \A i \in run[s].todo : RowsOf(i) \subseteq DOMAIN run[s].listed

Pushed(s, i) ==
  \/ \E r \in RowsOf(i) : remote[r].conf = run[s].seen[i]
  \/ i \in astray /\ run[s].out[i].action = "noop"

CleanOk(s) ==
  run[s].clean =>
    /\ Active(s) => run[s].seen = instance
    /\ run[s].pc \in {"list", "push", "orphans"} => run[s].want = Wanted
    /\ At_(s, "push") =>
         /\ DOMAIN run[s].listed \subseteq DOMAIN remote
         /\ \A r \in DOMAIN remote : remote[r].slug \in Indexer \ run[s].want => r \in DOMAIN run[s].listed
         /\ ~run[s].bad => \A i \in run[s].want \ run[s].todo : Pushed(s, i)
    /\ At_(s, "orphans") /\ ~run[s].bad =>
         /\ \A i \in run[s].want : Pushed(s, i)
         /\ run[s].level = "full" =>
              \A r \in DOMAIN remote : remote[r].slug \in Indexer \ run[s].want => r \in run[s].todo
    /\ At_(s, "done") /\ ~run[s].bad => Agrees(run[s].level, astray)

SyncInv ==
  /\ AppSyncTypeOK /\ run \in [Sync -> RunState]
  /\ RowsAreOwned /\ LedgerTruthful /\ SingleOk
  /\ \A s \in Sync : NamesOk(s) /\ PhaseOk(s) /\ LonelyOk(s) /\ TruthOk(s) /\ CleanOk(s)

USE AppSyncAssumption DEF AppSyncAssumption

-----------------------------------------------------------------------------
LEMMA BoundedMax ==
  ASSUME NEW N \in Nat, NEW S \in SUBSET (0 .. N), S # {}
  PROVE  \E m \in S : \A n \in S : n <= m
<1> DEFINE T == {N - n : n \in S}
<1>1. T \in SUBSET Nat /\ T # {}
  <2>1. \A n \in S : n \in 0 .. N /\ N - n \in Nat
    OBVIOUS
  <2> QED BY <2>1
<1>2. PICK t \in T : \A u \in T : <<u, t>> \notin OpToRel(<, Nat)
  BY <1>1, WFMin, NatLessThanWellFounded, Zenon
<1>3. \A u \in T : ~ (u < t)
  BY <1>1, <1>2, Zenon DEF OpToRel
<1>4. PICK m \in S : t = N - m
  OBVIOUS
<1>5. ASSUME NEW n \in S PROVE n <= m
  <2>1. N - n \in T
    OBVIOUS
  <2>2. ~ (N - n < N - m)
    BY <1>3, <1>4, <2>1
  <2> QED BY <2>2
<1> QED BY <1>5

LEMMA RunFacts ==
  ASSUME SyncInv, NEW s \in Sync
  PROVE  /\ run[s] \in RunState
         /\ run[s].pc \in {"idle", "ledger", "profile", "list", "push", "orphans", "done"}
         /\ run[s].seen \in [Indexer -> 0 .. MaxConf] /\ run[s].prior \in [Indexer -> Entry]
         /\ run[s].want \in SUBSET Indexer /\ run[s].listed \in Listings
         /\ run[s].todo \in SUBSET (Indexer \cup Rid) /\ run[s].out \in [Indexer -> OutcomeType]
         /\ DOMAIN run[s].listed \subseteq 1 .. lastRid
         /\ NamesOk(s) /\ PhaseOk(s) /\ LonelyOk(s) /\ TruthOk(s) /\ CleanOk(s)
<1>1. run[s] \in RunState
  BY DEF SyncInv
<1>2. DOMAIN run[s].listed \subseteq 1 .. lastRid
  BY DEF SyncInv, AppSyncTypeOK
<1>3. NamesOk(s) /\ PhaseOk(s) /\ LonelyOk(s) /\ TruthOk(s) /\ CleanOk(s)
  BY DEF SyncInv
<1> QED BY <1>1, <1>2, <1>3 DEF RunState

LEMMA WorldFacts ==
  ASSUME SyncInv
  PROVE  /\ lastRid \in Rid /\ lastRid \in Nat /\ DOMAIN remote \subseteq 1 .. lastRid
         /\ 0 \notin DOMAIN remote /\ DOMAIN remote \subseteq Nat
         /\ \A r \in DOMAIN remote : remote[r].slug \in Indexer \cup {Foreign}
         /\ 1 \in DOMAIN remote /\ remote[1].slug = Foreign
         /\ \A r \in DOMAIN remote : remote[r].slug = Foreign => r = 1
<1>1. /\ lastRid \in Rid /\ DOMAIN remote \subseteq 1 .. lastRid
      /\ \A r \in DOMAIN remote :
           remote[r] \in [slug : Indexer \cup {Foreign}, conf : 0 .. MaxConf]
  BY DEF SyncInv, AppSyncTypeOK
<1>2. RowsOf(Foreign) = {1}
  BY DEF SyncInv, RowsAreOwned
<1>3. lastRid \in Nat
  BY <1>1 DEF Rid
<1>4. 0 \notin DOMAIN remote /\ DOMAIN remote \subseteq Nat
  BY <1>1, <1>3
<1>5. /\ 1 \in DOMAIN remote /\ remote[1].slug = Foreign
      /\ \A r \in DOMAIN remote : remote[r].slug = Foreign => r = 1
  BY <1>2 DEF RowsOf
<1> QED BY <1>1, <1>3, <1>4, <1>5

-----------------------------------------------------------------------------
(* What every step of the app's rows keeps: ids only grow, a row keeps its   *)
(* slug, a new row is an indexer's, and rows of other tools stay.            *)
Kept ==
  /\ lastRid' \in Rid /\ lastRid <= lastRid' /\ DOMAIN remote' \subseteq 1 .. lastRid'
  /\ \A r \in DOMAIN remote' :
       /\ remote'[r] \in [slug : Indexer \cup {Foreign}, conf : 0 .. MaxConf]
       /\ r <= lastRid => r \in DOMAIN remote /\ remote'[r].slug = remote[r].slug
       /\ r > lastRid => remote'[r].slug \in Indexer
  /\ 1 \in DOMAIN remote'

(* And what a row says of an indexer changes only with the indexer astray.   *)
Told ==
  \A r \in DOMAIN remote' :
    r <= lastRid /\ remote'[r].slug \notin astray' => remote'[r] = remote[r]

LEMMA Unmoved ==
  ASSUME SyncInv, UNCHANGED <<remote, lastRid>>
  PROVE  Kept /\ Told
<1>1. \A r \in DOMAIN remote : r <= lastRid
  BY WorldFacts
<1>2. \A r \in DOMAIN remote :
         remote[r] \in [slug : Indexer \cup {Foreign}, conf : 0 .. MaxConf]
  BY DEF SyncInv, AppSyncTypeOK
<1> QED BY <1>1, <1>2, WorldFacts DEF Kept, Told

LEMMA Removed ==
  ASSUME SyncInv, NEW q, q # 1, remote' = Restrict(remote, DOMAIN remote \ {q}),
         UNCHANGED lastRid
  PROVE  Kept /\ Told /\ \A r \in DOMAIN remote : r # q => r \in DOMAIN remote' /\ remote'[r] = remote[r]
<1>1. /\ DOMAIN remote' = DOMAIN remote \ {q}
      /\ \A r \in DOMAIN remote \ {q} : remote'[r] = remote[r]
  BY DEF Restrict
<1>2. \A r \in DOMAIN remote : r <= lastRid
  BY WorldFacts
<1>3. \A r \in DOMAIN remote :
         remote[r] \in [slug : Indexer \cup {Foreign}, conf : 0 .. MaxConf]
  BY DEF SyncInv, AppSyncTypeOK
<1>4. Kept
  BY <1>1, <1>2, <1>3, WorldFacts DEF Kept
<1> QED BY <1>1, <1>4 DEF Told

LEMMA KeptRows ==
  ASSUME SyncInv, Kept
  PROVE  /\ RowsOf(Foreign)' = {1} /\ \A i \in Indexer : Mine(i) \subseteq Mine(i)'
         /\ \A i \in Indexer : 0 \in Mine(i)
<1>1. lastRid' \in Nat /\ \A r \in DOMAIN remote' : r \in Nat
  BY DEF Kept, Rid
<1>2. RowsOf(Foreign)' = {1}
  <2>1. \A r \in DOMAIN remote' : remote'[r].slug = Foreign => r = 1
    BY <1>1, WorldFacts DEF Kept
  <2>2. remote'[1].slug = Foreign
    BY WorldFacts DEF Kept
  <2> QED BY <2>1, <2>2 DEF Kept, RowsOf
<1>3. ASSUME NEW i \in Indexer, NEW r \in Mine(i) PROVE r \in Mine(i)'
  <2>1. r \in 0 .. lastRid /\ (r \in DOMAIN remote => remote[r].slug = i)
    BY <1>3 DEF Mine
  <2>2. r \in 0 .. lastRid'
    BY <1>1, <2>1, WorldFacts DEF Kept
  <2>3. r \in DOMAIN remote' => remote'[r].slug = i
    BY <2>1, WorldFacts DEF Kept
  <2> QED BY <2>2, <2>3 DEF Mine
<1>4. \A i \in Indexer : 0 \in Mine(i)
  BY WorldFacts DEF Mine
<1> QED BY <1>2, <1>3, <1>4

LEMMA KeptTruth ==
  ASSUME SyncInv, Kept, Told, NEW i \in Indexer, i \notin astray',
         NEW e \in Truths(i), e.remote \in Mine(i)
  PROVE  e \in Truths(i)'
<1>1. /\ e \in Entry \cup OutcomeType
      /\ e.hash # 0 /\ e.remote \in DOMAIN remote =>
           remote[e.remote] = [slug |-> i, conf |-> e.hash]
  BY DEF Truths
<1>2. e.remote \in 0 .. lastRid /\ (e.remote \in DOMAIN remote => remote[e.remote].slug = i)
  BY DEF Mine
<1>3. e.remote \in DOMAIN remote' => e.remote \in DOMAIN remote /\ remote'[e.remote] = remote[e.remote]
  BY <1>2, WorldFacts DEF Kept, Told
<1> QED BY <1>1, <1>3 DEF Truths

LEMMA Unsaid == \A i \in Indexer : NoEntry \in Truths(i) /\ NoOutcome \in Truths(i)
BY DEF Truths, NoEntry, NoOutcome, Entry, OutcomeType

(* A step of one run leaves the other runs as true as they were.             *)
LEMMA OneRunSteps ==
  ASSUME SyncInv, NEW s \in Sync, NEW new \in RunState, run' = [run EXCEPT ![s] = new],
         Active(s), new.pc \notin {"idle", "done"},
         new.alone = run[s].alone, new.clean = run[s].clean,
         UNCHANGED <<instance, selected, level, book, overlapped>>,
         Kept, Told, astray \subseteq astray', astray' \subseteq Indexer,
         new.want \subseteq Existing(new.seen), DOMAIN new.listed \subseteq 1 .. lastRid',
         NamesOk(s)', PhaseOk(s)', TruthOk(s)', CleanOk(s)', SingleOk'
  PROVE  SyncInv'
<1>1. run' \in [Sync -> RunState] /\ run'[s] = new /\ \A t \in Sync \ {s} : run'[t] = run[t]
  BY DEF SyncInv
<1>2. AppSyncTypeOK'
  <2>1. /\ instance' \in [Indexer -> 0 .. MaxConf] /\ selected' \subseteq Existing(instance)'
        /\ level' \in {"full", "add_update"} /\ book' \in [Indexer -> Entry]
        /\ overlapped' \in BOOLEAN
    BY DEF SyncInv, AppSyncTypeOK, Existing
  <2>2. \A t \in Sync : run'[t].out \in [Indexer -> OutcomeType]
    BY <1>1 DEF RunState
  <2>3. \A t \in Sync : run'[t].want \subseteq Existing(run'[t].seen)
    BY <1>1 DEF SyncInv, AppSyncTypeOK
  <2>4. \A t \in Sync : DOMAIN run'[t].listed \subseteq 1 .. lastRid'
    <3>1. 1 .. lastRid \subseteq 1 .. lastRid'
      BY WorldFacts DEF Kept, Rid
    <3> QED BY <1>1, <3>1, RunFacts
  <2> QED BY <2>1, <2>2, <2>3, <2>4 DEF AppSyncTypeOK, Kept, Existing
<1>3. RowsAreOwned'
  BY KeptRows DEF SyncInv, RowsAreOwned
<1>4. LedgerTruthful'
  <2> SUFFICES ASSUME NEW i \in Indexer \ astray', (book[i].hash # 0 /\ book[i].remote \in DOMAIN remote')
               PROVE  remote'[book[i].remote] = [slug |-> i, conf |-> book[i].hash]
    BY DEF LedgerTruthful
  <2>1. book[i] \in Entry /\ book[i].remote \in Mine(i)
    BY DEF SyncInv, AppSyncTypeOK, RowsAreOwned
  <2>2. book[i] \in Truths(i)
    BY <2>1 DEF SyncInv, LedgerTruthful, Truths
  <2>3. book[i] \in Truths(i)'
    <3> DEFINE e == book[i]
    <3>1. e \in Truths(i) /\ e.remote \in Mine(i)
      BY <2>1, <2>2
    <3> HIDE DEF e
    <3>2. e \in Truths(i)'
      BY <3>1, KeptTruth
    <3> QED BY <3>2 DEF e
  <2> QED BY <2>3 DEF Truths
<1>5. ASSUME NEW t \in Sync \ {s}
      PROVE  NamesOk(t)' /\ PhaseOk(t)' /\ LonelyOk(t)' /\ TruthOk(t)' /\ CleanOk(t)'
  <2>1. run'[t] = run[t] /\ t \in Sync
    BY <1>1
  <2>2. /\ NamesOk(t) /\ PhaseOk(t) /\ LonelyOk(t) /\ TruthOk(t)
        /\ run[t].prior \in [Indexer -> Entry] /\ run[t].out \in [Indexer -> OutcomeType]
        /\ DOMAIN run[t].listed \subseteq 1 .. lastRid
    BY <2>1, RunFacts
  <2>3. NamesOk(t)'
    <3>1. \A i \in Indexer : run[t].prior[i].remote \in Mine(i)' /\ run[t].out[i].remote \in Mine(i)'
      BY <2>2, KeptRows DEF NamesOk
    <3>2. \A r \in DOMAIN run[t].listed : r \in DOMAIN remote' => remote'[r].slug = run[t].listed[r]
      BY <2>2, WorldFacts DEF NamesOk, Kept
    <3> QED BY <2>1, <3>1, <3>2 DEF NamesOk
  <2>4. PhaseOk(t)'
    BY <2>1, <2>2 DEF PhaseOk, Active, At_
  <2>5. LonelyOk(t)'
    BY <1>1, <2>1, <2>2 DEF LonelyOk, Active, At_
  <2>6. ~(run[t].alone /\ Active(t)) /\ (run[t].clean => At_(t, "idle"))
    BY <2>1, <2>2 DEF LonelyOk
  <2>7. TruthOk(t)'
    <3> SUFFICES ASSUME NEW i \in Indexer
                 PROVE  /\ i \notin astray' => run[t].prior[i] \in Truths(i)' /\ run[t].out[i] \in Truths(i)'
                        /\ run[t].out[i].action \in {"created", "updated"} => i \in astray' /\ ~run[t].alone
                        /\ run[t].out[i].action \in {"none", "deleted", "failed"} => run[t].out[i].hash = 0
      BY <2>1 DEF TruthOk
    <3>1. ASSUME i \notin astray' PROVE run[t].prior[i] \in Truths(i)' /\ run[t].out[i] \in Truths(i)'
      <4> DEFINE e == run[t].prior[i]
                 o == run[t].out[i]
      <4>1. /\ e \in Truths(i) /\ o \in Truths(i)
            /\ e.remote \in Mine(i) /\ o.remote \in Mine(i)
        BY <2>2, <3>1 DEF TruthOk, NamesOk
      <4> HIDE DEF e, o
      <4>2. e \in Truths(i)' /\ o \in Truths(i)'
        BY <3>1, <4>1, KeptTruth
      <4> QED BY <4>2 DEF e, o
    <3>2. ASSUME run[t].out[i].action \in {"created", "updated"} PROVE i \in astray' /\ ~run[t].alone
      <4>1. Active(t)
        BY <2>2, <3>2 DEF PhaseOk, NoOutcome
      <4> QED BY <2>2, <2>6, <3>2, <4>1 DEF TruthOk
    <3>3. run[t].out[i].action \in {"none", "deleted", "failed"} => run[t].out[i].hash = 0
      BY <2>2 DEF TruthOk
    <3> QED BY <3>1, <3>2, <3>3
  <2>8. CleanOk(t)'
    BY <2>1, <2>6 DEF CleanOk, Active, At_
  <2> QED BY <2>3, <2>4, <2>5, <2>7, <2>8
<1>6. LonelyOk(s)'
  BY <1>1, RunFacts DEF LonelyOk, Active, At_
<1> QED BY <1>1, <1>2, <1>3, <1>4, <1>5, <1>6 DEF SyncInv

-----------------------------------------------------------------------------
(* The reads of a run.                                                     *)

LEMMA LedgerStep ==
  ASSUME SyncInv, NEW s \in Sync, ReadLedger(s)
  PROVE  SyncInv'
<1> DEFINE new == [run[s] EXCEPT !.pc = "profile", !.prior = priorBySlug(run[s].seen)]
<1>1. /\ At_(s, "ledger") /\ run' = [run EXCEPT ![s] = new]
      /\ UNCHANGED <<instance, selected, level, book, remote, lastRid, astray, overlapped>>
  BY DEF ReadLedger, Set
<1>2. priorBySlug(run[s].seen) \in [Indexer -> Entry]
  BY DEF SyncInv, AppSyncTypeOK, priorBySlug, NoEntry, Entry
<1>3. /\ new \in RunState /\ new.pc = "profile" /\ new.prior = priorBySlug(run[s].seen)
      /\ new.alone = run[s].alone /\ new.clean = run[s].clean /\ new.want = run[s].want
      /\ new.seen = run[s].seen /\ new.listed = run[s].listed /\ new.out = run[s].out
      /\ new.todo = run[s].todo
  BY <1>2, RunFacts DEF RunState
<1> HIDE DEF new
<1>4. Kept /\ Told
  BY <1>1, Unmoved
<1>5. run'[s] = new
  BY <1>1 DEF SyncInv
<1>6. NamesOk(s) /\ PhaseOk(s) /\ TruthOk(s) /\ CleanOk(s)
  BY RunFacts
<1>7. NamesOk(s)'
  <2>1. \A i \in Indexer : new.prior[i].remote \in Mine(i)
    BY <1>3, <1>4, KeptRows DEF SyncInv, RowsAreOwned, priorBySlug, NoEntry
  <2> QED BY <1>1, <1>3, <1>5, <1>6, <2>1 DEF NamesOk, Mine
<1>8. PhaseOk(s)'
  BY <1>3, <1>5 DEF PhaseOk, Active, At_
<1>9. TruthOk(s)'
  <2>1. ASSUME NEW i \in Indexer, i \notin astray PROVE new.prior[i] \in Truths(i)
    <3>1. book[i] \in Truths(i)
      BY <2>1 DEF SyncInv, LedgerTruthful, AppSyncTypeOK, Truths
    <3> QED BY <1>3, <3>1, Unsaid DEF priorBySlug
  <2> QED BY <1>1, <1>3, <1>5, <1>6, <2>1 DEF TruthOk, Truths
<1>10. CleanOk(s)'
  BY <1>1, <1>3, <1>5, <1>6 DEF CleanOk, Active, At_
<1>11. SingleOk'
  BY <1>1, <1>3, <1>5 DEF SyncInv, SingleOk, At_, RowsOf
<1>12. /\ new.want \subseteq Existing(new.seen) /\ DOMAIN new.listed \subseteq 1 .. lastRid'
       /\ astray \subseteq astray' /\ astray' \subseteq Indexer
  BY <1>1, <1>3 DEF SyncInv, AppSyncTypeOK
<1>13. Active(s)
  BY <1>1 DEF Active, At_
<1> QED BY <1>1, <1>3, <1>4, <1>7, <1>8, <1>9, <1>10, <1>11, <1>12, <1>13, OneRunSteps

LEMMA DesiredStep ==
  ASSUME SyncInv, NEW s \in Sync, buildDesired(s)
  PROVE  SyncInv'
<1> DEFINE new == [run[s] EXCEPT !.pc = "list", !.want = profileMembers(run[s].seen, selected)]
<1>1. /\ At_(s, "profile") /\ run' = [run EXCEPT ![s] = new]
      /\ UNCHANGED <<instance, selected, level, book, remote, lastRid, astray, overlapped>>
  BY DEF buildDesired, Set
<1>2. profileMembers(run[s].seen, selected) \subseteq Existing(run[s].seen)
  BY DEF profileMembers
<1>3. /\ new \in RunState /\ new.pc = "list" /\ new.want = profileMembers(run[s].seen, selected)
      /\ new.alone = run[s].alone /\ new.clean = run[s].clean /\ new.prior = run[s].prior
      /\ new.seen = run[s].seen /\ new.listed = run[s].listed /\ new.out = run[s].out
  BY <1>2, RunFacts DEF RunState, Existing
<1> HIDE DEF new
<1>4. Kept /\ Told
  BY <1>1, Unmoved
<1>5. run'[s] = new
  BY <1>1 DEF SyncInv
<1>6. NamesOk(s) /\ TruthOk(s) /\ CleanOk(s)
  BY RunFacts
<1>7. NamesOk(s)' /\ PhaseOk(s)'
  BY <1>1, <1>3, <1>5, <1>6 DEF NamesOk, Mine, PhaseOk, Active, At_
<1>8. TruthOk(s)'
  BY <1>1, <1>3, <1>5, <1>6 DEF TruthOk, Truths
<1>9. CleanOk(s)'
  BY <1>1, <1>3, <1>5, <1>6 DEF CleanOk, Active, At_, Wanted
<1>10. SingleOk'
  BY <1>1, <1>3, <1>5 DEF SyncInv, SingleOk, At_, RowsOf
<1>11. /\ new.want \subseteq Existing(new.seen) /\ DOMAIN new.listed \subseteq 1 .. lastRid'
       /\ astray \subseteq astray' /\ astray' \subseteq Indexer
  BY <1>1, <1>2, <1>3 DEF SyncInv, AppSyncTypeOK
<1>12. Active(s)
  BY <1>1 DEF Active, At_
<1> QED BY <1>1, <1>3, <1>4, <1>7, <1>8, <1>9, <1>10, <1>11, <1>12, OneRunSteps

LEMMA ListStep ==
  ASSUME SyncInv, NEW s \in Sync, List(s)
  PROVE  SyncInv'
<1> DEFINE rows == [r \in DOMAIN remote |-> remote[r].slug]
           new == [run[s] EXCEPT !.pc = "push", !.todo = run[s].want, !.listed = rows]
<1>1. /\ At_(s, "list") /\ run' = [run EXCEPT ![s] = new]
      /\ UNCHANGED <<instance, selected, level, book, remote, lastRid, astray, overlapped>>
  BY DEF List, Set
<1>2. /\ DOMAIN rows = DOMAIN remote /\ \A r \in DOMAIN remote : rows[r] = remote[r].slug
      /\ rows \in Listings
  <2>1. DOMAIN remote \subseteq Rid
    BY WorldFacts DEF Rid
  <2>2. rows \in [DOMAIN remote -> Indexer \cup {Foreign}]
    BY WorldFacts
  <2> QED BY <2>1, <2>2 DEF Listings
<1> HIDE DEF rows
<1>3. /\ new \in RunState /\ new.pc = "push" /\ new.want = run[s].want /\ new.todo = run[s].want
      /\ new.alone = run[s].alone /\ new.clean = run[s].clean /\ new.prior = run[s].prior
      /\ new.seen = run[s].seen /\ new.listed = rows /\ new.out = run[s].out
  <2>1. run[s].want \in SUBSET (Indexer \cup Rid) /\ run[s] \in RunState
    BY RunFacts
  <2> QED BY <1>2, <2>1 DEF RunState
<1> HIDE DEF new
<1>4. Kept /\ Told
  BY <1>1, Unmoved
<1>5. run'[s] = new
  BY <1>1 DEF SyncInv
<1>6. NamesOk(s) /\ TruthOk(s) /\ CleanOk(s)
  BY RunFacts
<1>7. NamesOk(s)' /\ PhaseOk(s)'
  BY <1>1, <1>2, <1>3, <1>5, <1>6 DEF NamesOk, Mine, PhaseOk, Active, At_
<1>8. TruthOk(s)'
  BY <1>1, <1>3, <1>5, <1>6 DEF TruthOk, Truths
<1>9. CleanOk(s)'
  BY <1>1, <1>2, <1>3, <1>5, <1>6 DEF CleanOk, Active, At_, Wanted
<1>10. SingleOk'
  BY <1>1, <1>2, <1>3, <1>5 DEF SyncInv, SingleOk, At_, RowsOf
<1>11. /\ new.want \subseteq Existing(new.seen) /\ DOMAIN new.listed \subseteq 1 .. lastRid'
       /\ astray \subseteq astray' /\ astray' \subseteq Indexer
  BY <1>1, <1>2, <1>3, WorldFacts DEF SyncInv, AppSyncTypeOK
<1>12. Active(s)
  BY <1>1 DEF Active, At_
<1> QED BY <1>1, <1>3, <1>4, <1>7, <1>8, <1>9, <1>10, <1>11, <1>12, OneRunSteps

LEMMA EndStep ==
  ASSUME SyncInv, NEW s \in Sync, EndPushes(s)
  PROVE  SyncInv'
<1> DEFINE left == IF run[s].level = "full" THEN Orphans(run[s]) ELSE {}
           new == [run[s] EXCEPT !.pc = "orphans", !.todo = left]
<1>1. /\ At_(s, "push") /\ run[s].todo = {} /\ run' = [run EXCEPT ![s] = new]
      /\ UNCHANGED <<instance, selected, level, book, remote, lastRid, astray, overlapped>>
  BY DEF EndPushes, Set
<1>2. left \subseteq Orphans(run[s]) /\ (run[s].level = "full" => left = Orphans(run[s]))
  OBVIOUS
<1> HIDE DEF left
<1>3. left \subseteq Rid
  <2>1. Orphans(run[s]) \subseteq 1 .. lastRid
    BY RunFacts DEF Orphans
  <2> QED BY <1>2, <2>1, WorldFacts DEF Rid
<1>4. /\ new \in RunState /\ new.pc = "orphans" /\ new.want = run[s].want /\ new.todo = left
      /\ new.alone = run[s].alone /\ new.clean = run[s].clean /\ new.prior = run[s].prior
      /\ new.seen = run[s].seen /\ new.listed = run[s].listed /\ new.out = run[s].out
      /\ new.bad = run[s].bad /\ new.level = run[s].level
  BY <1>3, RunFacts DEF RunState
<1> HIDE DEF new
<1>5. Kept /\ Told
  BY <1>1, Unmoved
<1>6. run'[s] = new
  BY <1>1 DEF SyncInv
<1>7. NamesOk(s) /\ TruthOk(s) /\ CleanOk(s)
  BY RunFacts
<1>8. Orphans(new) = Orphans(run[s])
  BY <1>4 DEF Orphans
<1>9. NamesOk(s)' /\ PhaseOk(s)'
  BY <1>1, <1>2, <1>4, <1>6, <1>7, <1>8 DEF NamesOk, Mine, PhaseOk, Active, At_
<1>10. TruthOk(s)'
  BY <1>1, <1>4, <1>6, <1>7 DEF TruthOk, Truths
<1>11. CleanOk(s)'
  <2>1. ASSUME run[s].clean
        PROVE  /\ run[s].seen = instance /\ run[s].want = Wanted
               /\ ~run[s].bad => \A i \in run[s].want : Pushed(s, i)
               /\ \A r \in DOMAIN remote : remote[r].slug \in Indexer \ run[s].want =>
                                             r \in Orphans(run[s])
    BY <1>1, <1>7, <2>1 DEF CleanOk, Active, At_, NamesOk, Orphans
  <2>2. \A i \in Indexer : Pushed(s, i) => Pushed(s, i)'
    BY <1>1, <1>4, <1>6 DEF Pushed, RowsOf
  <2>3. run[s].want \subseteq Indexer
    BY RunFacts
  <2> QED BY <1>1, <1>2, <1>4, <1>6, <2>1, <2>2, <2>3 DEF CleanOk, Active, At_, Wanted
<1>12. SingleOk'
  BY <1>1, <1>4, <1>6 DEF SyncInv, SingleOk, At_, RowsOf
<1>13. /\ new.want \subseteq Existing(new.seen) /\ DOMAIN new.listed \subseteq 1 .. lastRid'
       /\ astray \subseteq astray' /\ astray' \subseteq Indexer
  BY <1>1, <1>4 DEF SyncInv, AppSyncTypeOK
<1>14. Active(s)
  BY <1>1 DEF Active, At_
<1> QED BY <1>1, <1>4, <1>5, <1>9, <1>10, <1>11, <1>12, <1>13, <1>14, OneRunSteps

-----------------------------------------------------------------------------
(* The pushes.                                                             *)

(* What the id that is resolved tells of the rows the run listed.            *)
LEMMA Resolved ==
  ASSUME SyncInv, NEW s \in Sync, NEW i \in Indexer, NEW rid,
         rid = resolveRemoteID(run[s].prior[i], run[s].listed, i)
  PROVE  /\ rid = 0 => \A r \in DOMAIN run[s].listed : run[s].listed[r] # i
         /\ rid # 0 => rid \in DOMAIN run[s].listed /\ rid \in Mine(i) /\ rid \in Rid
         /\ rid # 0 /\ rid \in DOMAIN remote => rid <= lastRid
<1> DEFINE listed == run[s].listed
           owned == {r \in DOMAIN listed : listed[r] = i}
<1>1. /\ DOMAIN listed \subseteq 1 .. lastRid /\ NamesOk(s) /\ lastRid \in Nat
      /\ run[s].prior[i].remote \in Mine(i)
  BY RunFacts, WorldFacts DEF NamesOk
<1>2. \A r \in DOMAIN listed : r \in Rid /\ r # 0 /\ r <= lastRid
  BY <1>1, WorldFacts DEF Rid
<1>3. owned # {} => Max(owned) \in owned
  <2> SUFFICES ASSUME owned # {} PROVE Max(owned) \in owned
    OBVIOUS
  <2>1. owned \in SUBSET (0 .. lastRid)
    BY <1>1
  <2>2. PICK m \in owned : \A n \in owned : n <= m
    BY <1>1, <2>1, BoundedMax
  <2>3. \A n \in owned : m >= n
    BY <1>1, <2>2
  <2> QED BY <2>2, <2>3 DEF Max
<1>4. \A r \in owned : r \in Mine(i)
  BY <1>1 DEF NamesOk, Mine
<1>5. CASE run[s].prior[i].remote \in DOMAIN listed
  <2>1. rid = run[s].prior[i].remote
    BY <1>5 DEF resolveRemoteID
  <2> QED BY <1>1, <1>2, <1>5, <2>1
<1>6. CASE run[s].prior[i].remote \notin DOMAIN listed
  <2>1. rid = IF owned # {} THEN Max(owned) ELSE 0
    BY <1>6 DEF resolveRemoteID
  <2> QED BY <1>2, <1>3, <1>4, <2>1
<1> QED BY <1>5, <1>6

(* One indexer is pushed: only rows of it change, and one appears only when  *)
(* the run listed none.                                                     *)
LEMMA PushStep ==
  ASSUME SyncInv, NEW s \in Sync, NEW i \in Indexer, At_(s, "push"), i \in run[s].todo,
         NEW o \in OutcomeType, Took(s, i, o), Kept, Told,
         astray' = astray \/ astray' = astray \cup {i},
         UNCHANGED <<instance, selected, level, book, overlapped>>,
         DOMAIN remote \subseteq DOMAIN remote',
         \A r \in DOMAIN remote : remote'[r] = remote[r] \/ remote[r].slug = i,
         \A r \in DOMAIN remote' \ DOMAIN remote :
           /\ remote'[r].slug = i
           /\ \A q \in DOMAIN remote' \ DOMAIN remote : q = r
           /\ \A q \in DOMAIN run[s].listed : run[s].listed[q] # i,
         o.remote \in Mine(i)',
         i \notin astray' => o \in Truths(i)',
         o.action \in {"created", "updated"} => i \in astray' /\ o \in Truths(i)',
         o.action \in {"none", "deleted", "failed"} => o.hash = 0,
         run[s].clean /\ o.action # "failed" =>
           \/ \E r \in DOMAIN remote' : remote'[r] = [slug |-> i, conf |-> run[s].seen[i]]
           \/ i \in astray' /\ o.action = "noop"
  PROVE  SyncInv'
<1> DEFINE new == [run[s] EXCEPT !.todo = @ \ {i}, !.out[i] = o,
                                 !.good = @ \/ o.action # "failed",
                                 !.bad = @ \/ o.action = "failed"]
<1>1. run' = [run EXCEPT ![s] = new] /\ run[s].pc = "push"
  BY DEF Took, Set, At_
<1>2. /\ new \in RunState /\ new.pc = "push" /\ new.want = run[s].want
      /\ new.todo = run[s].todo \ {i}
      /\ new.alone = run[s].alone /\ new.clean = run[s].clean /\ new.prior = run[s].prior
      /\ new.seen = run[s].seen /\ new.listed = run[s].listed
      /\ new.out[i] = o /\ (\A j \in Indexer \ {i} : new.out[j] = run[s].out[j])
      /\ ~new.bad => ~run[s].bad /\ o.action # "failed"
  <2>1. /\ (run[s].good \/ o.action # "failed") \in BOOLEAN
        /\ (run[s].bad \/ o.action = "failed") \in BOOLEAN
    OBVIOUS
  <2>2. [run[s].out EXCEPT ![i] = o] \in [Indexer -> OutcomeType]
    BY RunFacts
  <2>3. run[s].todo \ {i} \in SUBSET (Indexer \cup Rid)
    BY RunFacts
  <2>4. run[s] \in RunState
    BY RunFacts
  <2>5. new \in RunState
    BY <2>1, <2>2, <2>3, <2>4 DEF RunState
  <2>6. /\ new.pc = run[s].pc /\ new.want = run[s].want /\ new.todo = run[s].todo \ {i}
        /\ new.alone = run[s].alone /\ new.clean = run[s].clean /\ new.prior = run[s].prior
        /\ new.seen = run[s].seen /\ new.listed = run[s].listed
        /\ new.out = [run[s].out EXCEPT ![i] = o]
        /\ new.bad = (run[s].bad \/ o.action = "failed")
    BY <2>4 DEF RunState
  <2>7. new.out[i] = o /\ (\A j \in Indexer \ {i} : new.out[j] = run[s].out[j])
    BY <2>6, RunFacts
  <2>8. ~new.bad => ~run[s].bad /\ o.action # "failed"
    BY <2>6, Zenon
  <2> HIDE DEF new
  <2> QED BY <1>1, <2>5, <2>6, <2>7, <2>8
<1> HIDE DEF new
<1>3. run'[s] = new /\ \A t \in Sync \ {s} : run'[t] = run[t]
  BY <1>1 DEF SyncInv
<1>4. NamesOk(s) /\ PhaseOk(s) /\ TruthOk(s) /\ CleanOk(s) /\ LonelyOk(s) /\ Active(s)
  BY <1>1, RunFacts DEF Active
<1>5. /\ run[s].prior \in [Indexer -> Entry] /\ run[s].out \in [Indexer -> OutcomeType]
      /\ DOMAIN run[s].listed \subseteq 1 .. lastRid /\ run[s].want \subseteq Indexer
      /\ run[s].todo \subseteq run[s].want
  BY <1>1, <1>4, RunFacts DEF PhaseOk, At_
<1>6. NamesOk(s)'
  <2>1. \A j \in Indexer : new.prior[j].remote \in Mine(j)' /\ new.out[j].remote \in Mine(j)'
    BY <1>2, <1>4, KeptRows DEF NamesOk
  <2>2. \A r \in DOMAIN run[s].listed : r \in DOMAIN remote' => remote'[r].slug = run[s].listed[r]
    BY <1>4, <1>5, WorldFacts DEF NamesOk, Kept
  <2> QED BY <1>2, <1>3, <2>1, <2>2 DEF NamesOk
<1>7. PhaseOk(s)'
  BY <1>2, <1>3, <1>5 DEF PhaseOk, Active, At_
<1>8. TruthOk(s)'
  <2> SUFFICES ASSUME NEW j \in Indexer
               PROVE  /\ j \notin astray' => new.prior[j] \in Truths(j)' /\ new.out[j] \in Truths(j)'
                      /\ new.out[j].action \in {"created", "updated"} =>
                           j \in astray' /\ (new.alone => new.out[j] \in Truths(j)')
                      /\ new.out[j].action \in {"none", "deleted", "failed"} => new.out[j].hash = 0
    BY <1>3 DEF TruthOk
  <2>1. j \notin astray' => new.prior[j] \in Truths(j)'
    <3> DEFINE e == run[s].prior[j]
    <3> SUFFICES ASSUME j \notin astray' PROVE e \in Truths(j)'
      BY <1>2
    <3>1. e \in Truths(j) /\ e.remote \in Mine(j)
      BY <1>4 DEF TruthOk, NamesOk
    <3> HIDE DEF e
    <3> QED BY <3>1, KeptTruth
  <2>2. CASE j = i
    BY <1>2, <2>1, <2>2
  <2>3. CASE j # i
    <3> DEFINE e == run[s].out[j]
    <3>1. /\ e.remote \in Mine(j) /\ (j \notin astray => e \in Truths(j))
          /\ e.action \in {"created", "updated"} => j \in astray /\ (run[s].alone => e \in Truths(j))
          /\ e.action \in {"none", "deleted", "failed"} => e.hash = 0
          /\ new.out[j] = e /\ e \in OutcomeType
      BY <1>2, <1>4, <1>5, <2>3 DEF TruthOk, NamesOk
    <3> HIDE DEF e
    <3>2. e \in Truths(j) => e \in Truths(j)'
      <4>1. \A r \in DOMAIN remote' : r <= lastRid /\ remote'[r].slug = j => remote'[r] = remote[r]
        BY <2>3 DEF Kept
      <4>2. e.remote \in DOMAIN remote' => e.remote \in DOMAIN remote /\ remote'[e.remote].slug = j
        BY <3>1, KeptRows, WorldFacts DEF Mine, Kept
      <4>3. e.remote \in DOMAIN remote' => remote'[e.remote] = remote[e.remote]
        BY <3>1, <4>1, <4>2, WorldFacts DEF Mine
      <4> QED BY <4>2, <4>3 DEF Truths
    <3> QED BY <1>2, <2>1, <3>1, <3>2
  <2> QED BY <2>2, <2>3
<1>9. \A j \in Indexer \ {i} : RowsOf(j)' = RowsOf(j)
  <2> SUFFICES ASSUME NEW j \in Indexer \ {i}, NEW r
               PROVE  r \in DOMAIN remote' /\ remote'[r].slug = j <=>
                        r \in DOMAIN remote /\ remote[r].slug = j
    BY DEF RowsOf
  <2>1. r \in DOMAIN remote => r \in DOMAIN remote' /\ remote'[r].slug = remote[r].slug
    BY WorldFacts DEF Kept
  <2> QED BY <2>1
<1>10. CleanOk(s)'
  <2>1. run[s].clean =>
          /\ run[s].seen = instance /\ run[s].want = Wanted
          /\ DOMAIN run[s].listed \subseteq DOMAIN remote
          /\ \A r \in DOMAIN remote :
               remote[r].slug \in Indexer \ run[s].want => r \in DOMAIN run[s].listed
          /\ ~run[s].bad => \A j \in run[s].want \ run[s].todo : Pushed(s, j)
    BY <1>1, <1>4 DEF CleanOk, Active, At_
  <2>2. ASSUME run[s].clean, NEW r \in DOMAIN remote', remote'[r].slug \in Indexer \ run[s].want
        PROVE  r \in DOMAIN run[s].listed
    <3>1. remote'[r].slug # i
      BY <1>5, <2>2
    <3>2. r \in DOMAIN remote /\ remote'[r] = remote[r]
      BY <2>2, <3>1, WorldFacts DEF Kept
    <3> QED BY <2>1, <2>2, <3>2
  <2>3. ASSUME run[s].clean, ~new.bad, NEW j \in run[s].want \ (run[s].todo \ {i}) PROVE Pushed(s, j)'
    <3>1. CASE j = i
      <4>1. o.action # "failed"
        BY <1>2, <2>3
      <4>2. CASE \E r \in DOMAIN remote' : remote'[r] = [slug |-> i, conf |-> run[s].seen[i]]
        BY <1>2, <1>3, <3>1, <4>2 DEF Pushed, RowsOf
      <4>3. CASE i \in astray' /\ o.action = "noop"
        BY <1>2, <1>3, <3>1, <4>3 DEF Pushed
      <4> QED BY <2>3, <4>1, <4>2, <4>3
    <3>2. CASE j # i
      <4>1. Pushed(s, j) /\ j \in Indexer
        BY <1>2, <1>5, <2>1, <2>3, <3>2
      <4>2. \A r \in RowsOf(j) : r \in RowsOf(j)' /\ remote'[r] = remote[r]
        BY <1>9, <3>2, <4>1 DEF RowsOf
      <4> QED BY <1>2, <1>3, <3>2, <4>1, <4>2 DEF Pushed
    <3> QED BY <3>1, <3>2
  <2> QED BY <1>2, <1>3, <2>1, <2>2, <2>3 DEF CleanOk, Active, At_, Wanted
<1>11. SingleOk'
  <2> SUFFICES ASSUME ~overlapped
               PROVE  /\ \A j \in Indexer : \A q, r \in RowsOf(j)' : q = r
                      /\ \A t \in Sync : run'[t].pc = "push" =>
                           \A j \in run'[t].todo : RowsOf(j)' \subseteq DOMAIN run'[t].listed
    BY DEF SingleOk, At_
  <2>1. /\ \A j \in Indexer : \A q, r \in RowsOf(j) : q = r
        /\ \A j \in run[s].todo : RowsOf(j) \subseteq DOMAIN run[s].listed
    BY <1>1 DEF SyncInv, SingleOk, At_
  <2>2. \A q, r \in RowsOf(i)' : q = r
    <3> SUFFICES ASSUME NEW q \in RowsOf(i)', NEW r \in RowsOf(i)' PROVE q = r
      OBVIOUS
    <3>1. /\ q \in DOMAIN remote' /\ r \in DOMAIN remote'
          /\ q \in DOMAIN remote => q \in RowsOf(i)
          /\ r \in DOMAIN remote => r \in RowsOf(i)
      BY WorldFacts DEF RowsOf, Kept
    <3>2. (\A p \in DOMAIN run[s].listed : run[s].listed[p] # i) => RowsOf(i) = {}
      BY <1>4, <2>1 DEF NamesOk, RowsOf
    <3> QED BY <2>1, <3>1, <3>2
  <2>3. \A t \in Sync \ {s} : ~Active(t)
    BY <1>4, RunFacts DEF LonelyOk
  <2>4. \A j \in run[s].todo \ {i} : RowsOf(j)' \subseteq DOMAIN run[s].listed
    BY <1>5, <1>9, <2>1
  <2> QED BY <1>2, <1>3, <1>9, <2>1, <2>2, <2>3, <2>4 DEF Active
<1>12. /\ new.want \subseteq Existing(new.seen) /\ DOMAIN new.listed \subseteq 1 .. lastRid'
       /\ astray \subseteq astray' /\ astray' \subseteq Indexer
  <2>1. 1 .. lastRid \subseteq 1 .. lastRid'
    BY WorldFacts DEF Kept, Rid
  <2> QED BY <1>2, <1>5, <2>1 DEF SyncInv, AppSyncTypeOK
<1> QED BY <1>1, <1>2, <1>4, <1>6, <1>7, <1>8, <1>10, <1>11, <1>12, OneRunSteps

LEMMA CreateStep ==
  ASSUME SyncInv, NEW s \in Sync, NEW i \in Indexer, At_(s, "push"), i \in run[s].todo,
         \A r \in DOMAIN run[s].listed : run[s].listed[r] # i, Create(s, i),
         UNCHANGED <<instance, selected, level, book, overlapped>>
  PROVE  SyncInv'
<1> DEFINE hash == run[s].seen[i]
           row == [slug |-> i, conf |-> hash]
<1>1. hash \in 0 .. MaxConf /\ row \in [slug : Indexer \cup {Foreign}, conf : 0 .. MaxConf]
  BY RunFacts
<1>2. PICK applied \in BOOLEAN, answered \in BOOLEAN :
         /\ answered => applied
         /\ applied => lastRid < MaxRemote
         /\ IF applied
              THEN /\ lastRid' = lastRid + 1
                   /\ remote' = [r \in DOMAIN remote \cup {lastRid + 1} |->
                        IF r \in DOMAIN remote THEN remote[r] ELSE row]
                   /\ astray' = astray \cup {i}
              ELSE UNCHANGED <<lastRid, remote, astray>>
         /\ Took(s, i, IF answered THEN Outcome("created", lastRid + 1, hash) ELSE Failed(0, hash))
  BY DEF Create
<1> HIDE DEF hash, row
<1>3. row.slug = i /\ row = [slug |-> i, conf |-> hash]
  BY DEF row
<1> DEFINE o == IF answered THEN Outcome("created", lastRid + 1, hash) ELSE Failed(0, hash)
<1>4. CASE applied
  <2>1. /\ DOMAIN remote' = DOMAIN remote \cup {lastRid + 1} /\ remote'[lastRid + 1] = row
        /\ lastRid + 1 \notin DOMAIN remote /\ \A r \in DOMAIN remote : remote'[r] = remote[r]
        /\ lastRid' = lastRid + 1 /\ astray' = astray \cup {i}
    BY <1>2, <1>4, WorldFacts
  <2>2. \A r \in DOMAIN remote : r <= lastRid /\ remote[r] \in [slug : Indexer \cup {Foreign}, conf : 0 .. MaxConf]
    BY WorldFacts DEF SyncInv, AppSyncTypeOK
  <2>3. lastRid + 1 \in Rid /\ lastRid \in Nat
    BY <1>2, <1>4, WorldFacts DEF Rid
  <2>4. Kept
    BY <1>1, <1>3, <2>1, <2>2, <2>3, WorldFacts DEF Kept
  <2>5. Told
    BY <1>3, <2>1, <2>2, <2>3 DEF Told
  <2>6. 0 \in Mine(i)' /\ lastRid + 1 \in Mine(i)'
    BY <1>3, <2>1, <2>3, WorldFacts DEF Mine
  <2>7. o \in OutcomeType /\ o \in Truths(i)' /\ o.remote \in Mine(i)'
    <3>1. CASE answered
      <4>1. o = [action |-> "created", remote |-> lastRid + 1, hash |-> hash]
        BY <3>1 DEF Outcome
      <4>2. o \in OutcomeType
        BY <1>1, <2>3, <4>1 DEF OutcomeType, Rid
      <4> QED BY <1>3, <2>1, <2>6, <4>1, <4>2 DEF Truths
    <3>2. CASE ~answered
      <4>1. o = [action |-> "failed", remote |-> 0, hash |-> 0]
        BY <3>2 DEF Failed, Outcome
      <4>2. o \in OutcomeType
        BY <4>1 DEF OutcomeType
      <4> QED BY <2>6, <4>1, <4>2 DEF Truths
    <3> QED BY <3>1, <3>2
  <2>8. o.action \in {"none", "deleted", "failed"} => o.hash = 0
    BY DEF Outcome, Failed
  <2>9. Took(s, i, o)
    BY <1>2
  <2>10. remote'[lastRid + 1] = [slug |-> i, conf |-> run[s].seen[i]]
    BY <1>3, <2>1 DEF hash
  <2> HIDE DEF o
  <2> QED BY <1>3, <2>1, <2>4, <2>5, <2>7, <2>8, <2>9, <2>10, PushStep
<1>5. CASE ~applied
  <2>1. UNCHANGED <<lastRid, remote, astray>>
    BY <1>2, <1>5
  <2>2. Kept /\ Told
    BY <2>1, Unmoved
  <2>3. o = [action |-> "failed", remote |-> 0, hash |-> 0]
    BY <1>2, <1>5 DEF Failed, Outcome
  <2>4. o \in OutcomeType /\ 0 \in Mine(i)'
    BY <2>2, <2>3, KeptRows DEF OutcomeType
  <2>5. o \in Truths(i)'
    BY <2>3, <2>4 DEF Truths
  <2>6. Took(s, i, o)
    BY <1>2
  <2> HIDE DEF o
  <2> QED BY <2>1, <2>2, <2>3, <2>4, <2>5, <2>6, PushStep
<1> QED BY <1>4, <1>5

LEMMA UpdateStep ==
  ASSUME SyncInv, NEW s \in Sync, NEW i \in Indexer, At_(s, "push"), i \in run[s].todo,
         NEW rid \in Mine(i), rid \in Rid, Update(s, i, rid),
         UNCHANGED <<instance, selected, level, book, overlapped>>
  PROVE  SyncInv'
<1> DEFINE hash == run[s].seen[i]
           row == [slug |-> i, conf |-> hash]
<1>1. hash \in 0 .. MaxConf /\ row \in [slug : Indexer \cup {Foreign}, conf : 0 .. MaxConf]
  BY RunFacts
<1>2. PICK applied \in BOOLEAN, answered \in BOOLEAN :
         /\ answered => applied
         /\ applied => rid \in DOMAIN remote
         /\ IF applied
              THEN remote' = [remote EXCEPT ![rid] = row] /\ astray' = astray \cup {i}
              ELSE UNCHANGED <<remote, astray>>
         /\ Took(s, i, IF answered THEN Outcome("updated", rid, hash) ELSE Failed(rid, hash))
         /\ UNCHANGED lastRid
  BY DEF Update
<1> HIDE DEF hash, row
<1>3. row.slug = i /\ row = [slug |-> i, conf |-> hash] /\ rid \in 0 .. MaxRemote
  BY DEF row, Rid
<1> DEFINE o == IF answered THEN Outcome("updated", rid, hash) ELSE Failed(rid, hash)
<1>4. o \in OutcomeType /\ o.remote = rid
  <2>1. CASE answered
    BY <1>1, <1>3, <2>1 DEF Outcome, OutcomeType
  <2>2. CASE ~answered
    BY <1>1, <1>3, <2>2 DEF Failed, Outcome, OutcomeType
  <2> QED BY <2>1, <2>2
<1>5. o.action \in {"none", "deleted", "failed"} => o.hash = 0
  BY DEF Outcome, Failed
<1>6. CASE applied
  <2>1. /\ DOMAIN remote' = DOMAIN remote /\ remote'[rid] = row /\ rid \in DOMAIN remote
        /\ \A r \in DOMAIN remote \ {rid} : remote'[r] = remote[r]
        /\ lastRid' = lastRid /\ astray' = astray \cup {i}
    BY <1>2, <1>6
  <2>2. remote[rid].slug = i /\ remote'[rid].slug = i
    BY <1>3, <2>1 DEF Mine
  <2>3. \A r \in DOMAIN remote : r <= lastRid /\ remote[r] \in [slug : Indexer \cup {Foreign}, conf : 0 .. MaxConf]
    BY WorldFacts DEF SyncInv, AppSyncTypeOK
  <2>4. Kept
    <3>1. \A r \in DOMAIN remote' :
            /\ remote'[r] \in [slug : Indexer \cup {Foreign}, conf : 0 .. MaxConf]
            /\ remote'[r].slug = remote[r].slug
      BY <1>1, <2>1, <2>2, <2>3
    <3>2. lastRid' \in Rid /\ lastRid <= lastRid' /\ DOMAIN remote' \subseteq 1 .. lastRid'
      BY <2>1, WorldFacts
    <3> QED BY <2>1, <2>3, <3>1, <3>2, WorldFacts DEF Kept
  <2>5. Told
    BY <2>1, <2>2 DEF Told
  <2>6. o \in Truths(i)'
    <3>1. CASE answered
      BY <1>3, <1>4, <2>1, <3>1 DEF Truths, Outcome
    <3>2. CASE ~answered
      BY <1>4, <3>2 DEF Truths, Failed, Outcome
    <3> QED BY <3>1, <3>2
  <2>7. Took(s, i, o)
    BY <1>2
  <2>8. remote'[rid] = [slug |-> i, conf |-> run[s].seen[i]] /\ rid \in DOMAIN remote'
    BY <1>3, <2>1 DEF hash
  <2>9. o.remote \in Mine(i)'
    BY <1>4, <2>4, KeptRows
  <2> HIDE DEF o
  <2> QED BY <1>4, <1>5, <2>1, <2>2, <2>4, <2>5, <2>6, <2>7, <2>8, <2>9, PushStep
<1>7. CASE ~applied
  <2>1. UNCHANGED <<lastRid, remote, astray>>
    BY <1>2, <1>7
  <2>2. Kept /\ Told
    BY <2>1, Unmoved
  <2>3. o = [action |-> "failed", remote |-> rid, hash |-> 0]
    BY <1>2, <1>7 DEF Failed, Outcome
  <2>4. o \in Truths(i)' /\ o.remote \in Mine(i)'
    BY <1>4, <2>2, <2>3, KeptRows DEF Truths
  <2>5. Took(s, i, o)
    BY <1>2
  <2> HIDE DEF o
  <2> QED BY <1>4, <2>1, <2>2, <2>3, <2>4, <2>5, PushStep
<1> QED BY <1>6, <1>7

LEMMA NoopStep ==
  ASSUME SyncInv, NEW s \in Sync, NEW i \in Indexer, At_(s, "push"), i \in run[s].todo,
         NEW rid \in Mine(i), rid \in DOMAIN run[s].listed,
         run[s].prior[i] = [remote |-> rid, hash |-> run[s].seen[i]],
         Took(s, i, Outcome("noop", rid, run[s].seen[i])),
         UNCHANGED <<instance, selected, level, book, overlapped, remote, lastRid, astray>>
  PROVE  SyncInv'
<1> DEFINE hash == run[s].seen[i]
           e == run[s].prior[i]
           o == Outcome("noop", rid, hash)
<1>1. /\ e \in Entry /\ e = [remote |-> rid, hash |-> hash] /\ hash \in 0 .. MaxConf
      /\ TruthOk(s) /\ CleanOk(s) /\ PhaseOk(s) /\ DOMAIN run[s].listed \subseteq 1 .. lastRid
  BY RunFacts
<1>2. o = [action |-> "noop", remote |-> rid, hash |-> hash] /\ o \in OutcomeType
  BY <1>1 DEF Outcome, OutcomeType, Entry
<1>3. hash # 0
  <2>1. i \in run[s].want
    BY <1>1 DEF PhaseOk
  <2> QED BY <2>1 DEF SyncInv, AppSyncTypeOK, Existing
<1>4. i \notin astray => o \in Truths(i) /\ (rid \in DOMAIN remote => remote[rid] = [slug |-> i, conf |-> hash])
  <2> SUFFICES ASSUME i \notin astray
               PROVE  o \in Truths(i) /\ (rid \in DOMAIN remote => remote[rid] = [slug |-> i, conf |-> hash])
    OBVIOUS
  <2>1. e \in Truths(i)
    BY <1>1 DEF TruthOk
  <2>2. e.remote = rid /\ e.hash = hash
    BY <1>1
  <2> HIDE DEF e, hash
  <2>3. rid \in DOMAIN remote => remote[rid] = [slug |-> i, conf |-> hash]
    BY <1>3, <2>1, <2>2 DEF Truths
  <2> QED BY <1>2, <2>3 DEF Truths
<1>5. o \in Truths(i) => o \in Truths(i)'
  BY DEF Truths
<1>6. Kept /\ Told
  BY Unmoved
<1>7. o.remote \in Mine(i)'
  BY <1>2 DEF Mine
<1>8. run[s].clean => rid \in DOMAIN remote
  BY <1>1 DEF CleanOk, At_
<1>9. Took(s, i, o) /\ hash = run[s].seen[i]
  OBVIOUS
<1> HIDE DEF o, hash, e
<1> QED BY <1>2, <1>4, <1>5, <1>6, <1>7, <1>8, <1>9, PushStep

LEMMA AddOrUpdateStep ==
  ASSUME SyncInv, NEW s \in Sync, NEW i \in Indexer, addOrUpdate(s, i)
  PROVE  SyncInv'
<1> DEFINE rid == resolveRemoteID(run[s].prior[i], run[s].listed, i)
<1>1. /\ At_(s, "push") /\ i \in run[s].todo
      /\ UNCHANGED <<instance, selected, level, book, overlapped>>
      /\ \/ rid = 0 /\ Create(s, i)
         \/ /\ rid # 0 /\ run[s].prior[i] = [remote |-> rid, hash |-> run[s].seen[i]]
            /\ Took(s, i, Outcome("noop", rid, run[s].seen[i]))
            /\ UNCHANGED <<remote, lastRid, astray>>
         \/ rid # 0 /\ Update(s, i, rid)
  BY DEF addOrUpdate
<1>2. /\ rid = 0 => \A r \in DOMAIN run[s].listed : run[s].listed[r] # i
      /\ rid # 0 => rid \in DOMAIN run[s].listed /\ rid \in Mine(i) /\ rid \in Rid
  BY Resolved
<1> HIDE DEF rid
<1>3. CASE rid = 0 /\ Create(s, i)
  BY <1>1, <1>2, <1>3, CreateStep
<1>4. CASE rid # 0 /\ Update(s, i, rid)
  BY <1>1, <1>2, <1>4, UpdateStep
<1>5. CASE /\ rid # 0 /\ run[s].prior[i] = [remote |-> rid, hash |-> run[s].seen[i]]
           /\ Took(s, i, Outcome("noop", rid, run[s].seen[i]))
           /\ UNCHANGED <<remote, lastRid, astray>>
  BY <1>1, <1>2, <1>5, NoopStep
<1> QED BY <1>1, <1>3, <1>4, <1>5

-----------------------------------------------------------------------------
(* The removals.                                                           *)

LEMMA OrphanStep ==
  ASSUME SyncInv, NEW s \in Sync, NEW rid \in Rid, removeOrphans(s, rid)
  PROVE  SyncInv'
<1> DEFINE i == run[s].listed[rid]
<1>1. /\ run[s].pc = "orphans" /\ rid \in run[s].todo
      /\ UNCHANGED <<instance, selected, level, book, lastRid, astray, overlapped>>
  BY DEF removeOrphans, At_
<1>2. PICK applied \in BOOLEAN, answered \in BOOLEAN :
        LET o == IF answered THEN Outcome("deleted", rid, 0) ELSE Outcome("failed", rid, 0)
        IN  /\ answered => applied
            /\ applied => rid \in DOMAIN remote
            /\ remote' = IF applied THEN Restrict(remote, DOMAIN remote \ {rid}) ELSE remote
            /\ Set(s, [run[s] EXCEPT !.todo = @ \ {rid},
                 !.out = IF i \in Indexer /\ run[s].seen[i] # 0 THEN [@ EXCEPT ![i] = o] ELSE @,
                 !.good = @ \/ answered, !.bad = @ \/ ~answered])
  BY DEF removeOrphans
<1> DEFINE o == IF answered THEN Outcome("deleted", rid, 0) ELSE Outcome("failed", rid, 0)
           outs == IF i \in Indexer /\ run[s].seen[i] # 0 THEN [run[s].out EXCEPT ![i] = o]
                   ELSE run[s].out
           new == [run[s] EXCEPT !.todo = @ \ {rid}, !.out = outs,
                                 !.good = @ \/ answered, !.bad = @ \/ ~answered]
<1>3. run' = [run EXCEPT ![s] = new]
  BY <1>2 DEF Set
<1>4. /\ o \in OutcomeType /\ o.remote = rid /\ o.hash = 0 /\ o.action \in {"deleted", "failed"}
  <2>1. rid \in 0 .. MaxRemote
    BY DEF Rid
  <2> QED BY <2>1 DEF Outcome, OutcomeType
<1> HIDE DEF o
<1>5. NamesOk(s) /\ PhaseOk(s) /\ TruthOk(s) /\ CleanOk(s) /\ LonelyOk(s) /\ Active(s)
  BY <1>1, RunFacts DEF Active
<1>6. /\ run[s].prior \in [Indexer -> Entry] /\ run[s].out \in [Indexer -> OutcomeType]
      /\ DOMAIN run[s].listed \subseteq 1 .. lastRid /\ run[s].want \subseteq Indexer
      /\ run[s].todo \subseteq Orphans(run[s])
  BY <1>1, <1>5, RunFacts DEF PhaseOk, At_
<1>7. /\ rid \in DOMAIN run[s].listed /\ i \in Indexer \ run[s].want
      /\ rid \in DOMAIN remote => remote[rid].slug = i
      /\ rid \in 0 .. lastRid
  BY <1>1, <1>5, <1>6, WorldFacts DEF Orphans, NamesOk
<1>8. outs \in [Indexer -> OutcomeType] /\ \A j \in Indexer : outs[j] = run[s].out[j] \/ (j = i /\ outs[j] = o)
  BY <1>4, <1>6
<1> HIDE DEF outs
<1>9. /\ new \in RunState /\ new.pc = "orphans" /\ new.want = run[s].want
      /\ new.todo = run[s].todo \ {rid} /\ new.level = run[s].level
      /\ new.alone = run[s].alone /\ new.clean = run[s].clean /\ new.prior = run[s].prior
      /\ new.seen = run[s].seen /\ new.listed = run[s].listed /\ new.out = outs
      /\ ~new.bad => ~run[s].bad /\ answered
  <2>1. (run[s].good \/ answered) \in BOOLEAN /\ (run[s].bad \/ ~answered) \in BOOLEAN
    OBVIOUS
  <2>2. run[s].todo \ {rid} \in SUBSET (Indexer \cup Rid) /\ run[s] \in RunState
    BY RunFacts
  <2>3. new \in RunState
    BY <1>8, <2>1, <2>2 DEF RunState
  <2>4. /\ new.pc = run[s].pc /\ new.want = run[s].want
        /\ new.todo = run[s].todo \ {rid} /\ new.level = run[s].level
        /\ new.alone = run[s].alone /\ new.clean = run[s].clean /\ new.prior = run[s].prior
        /\ new.seen = run[s].seen /\ new.listed = run[s].listed /\ new.out = outs
        /\ new.bad = (run[s].bad \/ ~answered)
    BY <2>2 DEF RunState
  <2>5. ~new.bad => ~run[s].bad /\ answered
    BY <2>4, Zenon
  <2> HIDE DEF new
  <2> QED BY <1>1, <2>3, <2>4, <2>5
<1> HIDE DEF new
<1>10. run'[s] = new /\ \A t \in Sync \ {s} : run'[t] = run[t]
  BY <1>3 DEF SyncInv
<1>11. /\ Kept /\ Told
       /\ \A r \in DOMAIN remote : r # rid => r \in DOMAIN remote' /\ remote'[r] = remote[r]
       /\ \A r \in DOMAIN remote' : r \in DOMAIN remote /\ remote'[r] = remote[r] /\ (answered => r # rid)
  <2>1. CASE applied
    <3>1. remote' = Restrict(remote, DOMAIN remote \ {rid})
      BY <1>2, <2>1
    <3>2. rid # 1
      BY <1>7, WorldFacts, <1>2, <2>1
    <3>3. DOMAIN remote' = DOMAIN remote \ {rid}
      BY <3>1 DEF Restrict
    <3> QED BY <1>1, <3>1, <3>2, <3>3, Removed
  <2>2. CASE ~applied
    <3>1. remote' = remote /\ ~answered
      BY <1>2, <2>2
    <3> QED BY <1>1, <3>1, Unmoved
  <2> QED BY <2>1, <2>2
<1>12. NamesOk(s)'
  <2>1. rid \in Mine(i)
    BY <1>7 DEF Mine
  <2>2. \A j \in Indexer : new.prior[j].remote \in Mine(j)' /\ new.out[j].remote \in Mine(j)'
    BY <1>4, <1>5, <1>7, <1>8, <1>9, <1>11, <2>1, KeptRows DEF NamesOk
  <2>3. \A r \in DOMAIN run[s].listed : r \in DOMAIN remote' => remote'[r].slug = run[s].listed[r]
    BY <1>5, <1>11 DEF NamesOk
  <2> QED BY <1>9, <1>10, <2>2, <2>3 DEF NamesOk
<1>13. PhaseOk(s)'
  <2>1. Orphans(new) = Orphans(run[s])
    BY <1>9 DEF Orphans
  <2> QED BY <1>6, <1>9, <1>10, <2>1 DEF PhaseOk, Active, At_
<1>14. TruthOk(s)'
  <2> SUFFICES ASSUME NEW j \in Indexer
               PROVE  /\ j \notin astray => new.prior[j] \in Truths(j)' /\ new.out[j] \in Truths(j)'
                      /\ new.out[j].action \in {"created", "updated"} =>
                           j \in astray /\ (new.alone => new.out[j] \in Truths(j)')
                      /\ new.out[j].action \in {"none", "deleted", "failed"} => new.out[j].hash = 0
    BY <1>1, <1>10 DEF TruthOk
  <2>1. \A e \in Truths(j) : e \in Truths(j)'
    BY <1>11 DEF Truths
  <2>2. o \in Truths(j)'
    BY <1>4 DEF Truths
  <2> QED BY <1>4, <1>5, <1>8, <1>9, <2>1, <2>2 DEF TruthOk
<1>15. \A j \in Indexer : RowsOf(j)' \subseteq RowsOf(j)
  BY <1>11 DEF RowsOf
<1>16. CleanOk(s)'
  <2>1. run[s].clean =>
          /\ run[s].seen = instance /\ run[s].want = Wanted
          /\ ~run[s].bad =>
               /\ \A j \in run[s].want : Pushed(s, j)
               /\ run[s].level = "full" => \A r \in DOMAIN remote :
                    remote[r].slug \in Indexer \ run[s].want => r \in run[s].todo
    BY <1>1, <1>5 DEF CleanOk, Active, At_
  <2>2. ASSUME NEW j \in run[s].want, Pushed(s, j) PROVE Pushed(s, j)'
    <3>1. j \in Indexer /\ j # i
      BY <1>6, <1>7
    <3>2. \A r \in RowsOf(j) : r \in RowsOf(j)' /\ remote'[r] = remote[r]
      BY <1>7, <1>11, <3>1 DEF RowsOf
    <3>3. new.out[j] = run[s].out[j]
      BY <1>8, <1>9, <3>1
    <3> QED BY <1>1, <1>9, <1>10, <2>2, <3>2, <3>3 DEF Pushed
  <2> QED BY <1>1, <1>9, <1>10, <1>11, <2>1, <2>2 DEF CleanOk, Active, At_, Wanted
<1>17. SingleOk'
  <2> SUFFICES ASSUME ~overlapped
               PROVE  /\ \A j \in Indexer : \A q, r \in RowsOf(j)' : q = r
                      /\ \A t \in Sync : run'[t].pc = "push" =>
                           \A j \in run'[t].todo : RowsOf(j)' \subseteq DOMAIN run'[t].listed
    BY <1>1 DEF SingleOk, At_
  <2>1. \A j \in Indexer : \A q, r \in RowsOf(j) : q = r
    BY DEF SyncInv, SingleOk
  <2>2. \A t \in Sync \ {s} : ~Active(t)
    BY <1>5, RunFacts DEF LonelyOk
  <2> QED BY <1>9, <1>10, <1>15, <2>1, <2>2 DEF Active
<1>18. /\ new.want \subseteq Existing(new.seen) /\ DOMAIN new.listed \subseteq 1 .. lastRid'
       /\ astray \subseteq astray' /\ astray' \subseteq Indexer
  BY <1>1, <1>6, <1>9 DEF SyncInv, AppSyncTypeOK
<1> QED BY <1>1, <1>3, <1>5, <1>9, <1>11, <1>12, <1>13, <1>14, <1>16, <1>17, <1>18, OneRunSteps

-----------------------------------------------------------------------------
(* A run begins and ends.                                                  *)

LEMMA IdleFacts ==
  /\ Idle \in RunState /\ Idle.pc = "idle" /\ Idle.want = {} /\ DOMAIN Idle.listed = {}
  /\ Idle.alone = TRUE
  /\ \A i \in Indexer : Idle.prior[i] = NoEntry /\ Idle.out[i] = NoOutcome
<1>1. << >> \in Listings /\ DOMAIN << >> = {}
  <2>1. << >> \in [{} -> Indexer \cup {Foreign}] /\ {} \in SUBSET Rid
    OBVIOUS
  <2> QED BY <2>1 DEF Listings
<1>2. NoEntry \in Entry /\ NoOutcome \in OutcomeType /\ Nothing \in [Indexer -> 0 .. MaxConf]
  BY DEF NoEntry, NoOutcome, Nothing, Entry, OutcomeType
<1> QED BY <1>1, <1>2 DEF Idle, RunState

LEMMA BeginStep ==
  ASSUME SyncInv, NEW s \in Sync, ReadConnection(s)
  PROVE  SyncInv'
<1> DEFINE others == {t \in Sync \ {s} : Active(t)}
           new == [Idle EXCEPT !.pc = "ledger", !.level = level, !.seen = instance,
                               !.alone = (others = {}), !.clean = (others = {})]
           spoilt == [t \in Sync |->
                        IF t \in others THEN [run[t] EXCEPT !.alone = FALSE, !.clean = FALSE]
                        ELSE [run[t] EXCEPT !.clean = FALSE]]
<1>1. /\ ~Active(s) /\ run' = [t \in Sync |-> IF t = s THEN new ELSE spoilt[t]]
      /\ overlapped' = (overlapped \/ others # {})
      /\ UNCHANGED <<instance, selected, level, book, remote, lastRid, astray>>
  BY DEF ReadConnection
<1>2. /\ new \in RunState /\ new.pc = "ledger" /\ new.want = {} /\ DOMAIN new.listed = {}
      /\ new.seen = instance /\ new.alone = (others = {}) /\ new.clean = (others = {})
      /\ \A i \in Indexer : new.prior[i] = NoEntry /\ new.out[i] = NoOutcome
  <2>1. (others = {}) \in BOOLEAN
    OBVIOUS
  <2>2. instance \in [Indexer -> 0 .. MaxConf] /\ level \in {"full", "add_update"}
    BY DEF SyncInv, AppSyncTypeOK
  <2> QED BY <2>1, <2>2, IdleFacts DEF RunState
<1>3. ASSUME NEW t \in Sync \ {s}
      PROVE  /\ spoilt[t] \in RunState /\ spoilt[t].clean = FALSE
             /\ spoilt[t].pc = run[t].pc /\ spoilt[t].want = run[t].want
             /\ spoilt[t].todo = run[t].todo /\ spoilt[t].seen = run[t].seen
             /\ spoilt[t].prior = run[t].prior /\ spoilt[t].listed = run[t].listed
             /\ spoilt[t].out = run[t].out
             /\ spoilt[t].alone => run[t].alone
             /\ Active(t) => ~spoilt[t].alone /\ others # {}
  <2>1. run[t] \in RunState /\ t \in Sync
    BY RunFacts
  <2>2. CASE t \in others
    <3>1. spoilt[t] = [run[t] EXCEPT !.alone = FALSE, !.clean = FALSE]
      BY <2>1, <2>2
    <3> HIDE DEF spoilt
    <3> QED BY <2>1, <2>2, <3>1 DEF RunState
  <2>3. CASE t \notin others
    <3>1. spoilt[t] = [run[t] EXCEPT !.clean = FALSE] /\ ~Active(t)
      BY <2>1, <2>3
    <3> HIDE DEF spoilt
    <3> QED BY <2>1, <3>1 DEF RunState
  <2> QED BY <2>2, <2>3
<1>4. run'[s] = new /\ \A t \in Sync \ {s} : run'[t] = spoilt[t]
  BY <1>1
<1>5. run' \in [Sync -> RunState]
  BY <1>1, <1>2, <1>3
<1> HIDE DEF new, spoilt, others
<1>6. ASSUME NEW t \in Sync \ {s}
      PROVE  /\ run'[t].clean = FALSE /\ run'[t].pc = run[t].pc /\ run'[t].want = run[t].want
             /\ run'[t].todo = run[t].todo /\ run'[t].seen = run[t].seen
             /\ run'[t].prior = run[t].prior /\ run'[t].listed = run[t].listed
             /\ run'[t].out = run[t].out
             /\ run'[t].alone => run[t].alone
             /\ Active(t) => ~run'[t].alone /\ others # {}
  BY <1>3, <1>4
<1>7. AppSyncTypeOK'
  <2>1. overlapped' \in BOOLEAN
    BY <1>1 DEF SyncInv, AppSyncTypeOK
  <2>2. ASSUME NEW t \in Sync
        PROVE  /\ run'[t].out \in [Indexer -> OutcomeType] /\ run'[t].want \subseteq Existing(run'[t].seen)
               /\ DOMAIN run'[t].listed \subseteq 1 .. lastRid
    <3>1. run'[t] \in RunState
      BY <1>5
    <3>2. CASE t = s
      BY <1>2, <1>4, <3>1, <3>2 DEF RunState
    <3>3. CASE t # s
      <4>1. run'[t].want = run[t].want /\ run'[t].seen = run[t].seen /\ run'[t].listed = run[t].listed
        BY <1>6, <3>3
      <4>2. run[t].want \subseteq Existing(run[t].seen) /\ DOMAIN run[t].listed \subseteq 1 .. lastRid
        BY DEF SyncInv, AppSyncTypeOK
      <4>3. run'[t].out \in [Indexer -> OutcomeType]
        BY <3>1 DEF RunState
      <4> QED BY <4>1, <4>2, <4>3
    <3> QED BY <3>2, <3>3
  <2> QED BY <1>1, <2>1, <2>2 DEF SyncInv, AppSyncTypeOK, Existing
<1>8. RowsAreOwned' /\ LedgerTruthful'
  BY <1>1 DEF SyncInv, RowsAreOwned, RowsOf, Mine, LedgerTruthful
<1>9. ASSUME NEW t \in Sync
      PROVE  NamesOk(t)' /\ PhaseOk(t)' /\ LonelyOk(t)' /\ TruthOk(t)' /\ CleanOk(t)'
  <2>1. CASE t = s
    <3>1. NamesOk(s)'
      BY <1>1, <1>2, <1>4, WorldFacts DEF NamesOk, NoEntry, NoOutcome, Mine
    <3>2. PhaseOk(s)' /\ CleanOk(s)'
      BY <1>1, <1>2, <1>4 DEF PhaseOk, CleanOk, Active, At_
    <3>3. TruthOk(s)'
      <4>1. \A i \in Indexer : NoEntry \in Truths(i)' /\ NoOutcome \in Truths(i)'
        BY DEF Truths, NoEntry, NoOutcome, Entry, OutcomeType
      <4> QED BY <1>2, <1>4, <4>1 DEF TruthOk, NoOutcome
    <3>4. LonelyOk(s)'
      <4>1. others = {} => \A u \in Sync \ {s} : ~Active(u)
        BY DEF others
      <4>2. \A u \in Sync \ {s} : ~Active(u) => ~Active(u)'
        BY <1>6 DEF Active
      <4>3. ~overlapped' => others = {}
        BY <1>1
      <4> QED BY <1>2, <1>4, <4>1, <4>2, <4>3 DEF LonelyOk
    <3> QED BY <2>1, <3>1, <3>2, <3>3, <3>4
  <2>2. CASE t # s
    <3>1. NamesOk(t) /\ PhaseOk(t) /\ TruthOk(t) /\ t \in Sync \ {s}
      BY <2>2, RunFacts
    <3> DEFINE now == run'[t]
    <3>6. /\ now.pc = run[t].pc /\ now.want = run[t].want /\ now.todo = run[t].todo
          /\ now.prior = run[t].prior /\ now.listed = run[t].listed /\ now.out = run[t].out
          /\ now.alone => run[t].alone
      BY <1>6, <3>1
    <3> HIDE DEF now
    <3>7. now = run'[t]
      BY DEF now
    <3>8. Orphans(now) = Orphans(run[t])
      BY <3>6 DEF Orphans
    <3>2. NamesOk(t)' /\ PhaseOk(t)'
      BY <1>1, <3>1, <3>6, <3>7, <3>8 DEF NamesOk, PhaseOk, Mine, Active, At_
    <3>3. TruthOk(t)'
      <4>1. \A i \in Indexer : Truths(i)' = Truths(i)
        BY <1>1 DEF Truths
      <4> QED BY <1>1, <3>1, <3>6, <3>7, <4>1 DEF TruthOk
    <3>4. LonelyOk(t)'
      <4>1. Active(t)' <=> Active(t)
        BY <1>6, <3>1 DEF Active
      <4>2. Active(t) => ~run'[t].alone /\ overlapped'
        BY <1>1, <1>6, <3>1
      <4>3. ~run'[t].clean
        BY <1>6, <3>1
      <4> QED BY <4>1, <4>2, <4>3 DEF LonelyOk
    <3>5. CleanOk(t)'
      BY <1>6, <3>1 DEF CleanOk
    <3> QED BY <3>2, <3>3, <3>4, <3>5
  <2> QED BY <2>1, <2>2
<1>10. SingleOk'
  <2> SUFFICES ASSUME ~overlapped'
               PROVE  /\ \A i \in Indexer : \A q, r \in RowsOf(i) : q = r
                      /\ \A t \in Sync : run'[t].pc = "push" =>
                           \A i \in run'[t].todo : RowsOf(i) \subseteq DOMAIN run'[t].listed
    BY <1>1 DEF SingleOk, At_, RowsOf
  <2>1. /\ \A i \in Indexer : \A q, r \in RowsOf(i) : q = r
        /\ \A t \in Sync : run[t].pc = "push" =>
             \A i \in run[t].todo : RowsOf(i) \subseteq DOMAIN run[t].listed
    BY <1>1 DEF SyncInv, SingleOk, At_
  <2>2. run'[s].pc # "push"
    BY <1>2, <1>4
  <2>3. ASSUME NEW t \in Sync, run'[t].pc = "push", NEW i \in run'[t].todo
        PROVE  RowsOf(i) \subseteq DOMAIN run'[t].listed
    <3>1. t \in Sync \ {s}
      BY <2>2, <2>3
    <3>2. /\ run'[t].pc = run[t].pc /\ run'[t].todo = run[t].todo /\ run'[t].listed = run[t].listed
      BY <1>6, <3>1
    <3> QED BY <2>1, <2>3, <3>2
  <2> QED BY <2>1, <2>3
<1> QED BY <1>5, <1>7, <1>8, <1>9, <1>10 DEF SyncInv

(* A run that ends leaves the app's rows as they are, and the other runs.    *)
LEMMA EndsLeave ==
  ASSUME SyncInv, NEW s \in Sync, Active(s), NEW new \in RunState,
         run' = [run EXCEPT ![s] = new], new.pc \in {"idle", "done"},
         new.want = {}, DOMAIN new.listed = {},
         \A i \in Indexer : new.prior[i] = NoEntry /\ new.out[i] = NoOutcome,
         new.alone = TRUE, new.pc = "done" /\ new.clean => run[s].clean,
         UNCHANGED <<instance, selected, level, remote, lastRid, overlapped>>,
         astray' \subseteq astray, astray' = astray \/ run[s].alone,
         book' \in [Indexer -> Entry],
         \A i \in Indexer : book'[i].remote \in Mine(i) /\ (i \notin astray' => book'[i] \in Truths(i)),
         new.pc = "done" /\ new.clean /\ ~new.bad => Agrees(new.level, astray')
  PROVE  SyncInv'
<1>1. /\ run' \in [Sync -> RunState] /\ run'[s] = new
      /\ \A t \in Sync \ {s} : run'[t] = run[t]
  BY DEF SyncInv
<1>2. AppSyncTypeOK'
  <2>1. ASSUME NEW t \in Sync
        PROVE  /\ run'[t].out \in [Indexer -> OutcomeType] /\ run'[t].want \subseteq Existing(run'[t].seen)
               /\ DOMAIN run'[t].listed \subseteq 1 .. lastRid
    <3>1. run'[t] \in RunState
      BY <1>1
    <3>2. CASE t = s
      BY <1>1, <3>1, <3>2 DEF RunState
    <3>3. CASE t # s
      BY <1>1, <3>1, <3>3, RunFacts DEF RunState, SyncInv, AppSyncTypeOK
    <3> QED BY <3>2, <3>3
  <2> QED BY <2>1 DEF SyncInv, AppSyncTypeOK, Existing
<1>3. RowsAreOwned'
  BY DEF SyncInv, RowsAreOwned, RowsOf, Mine
<1>4. LedgerTruthful'
  BY DEF LedgerTruthful, Truths
<1>5. SingleOk'
  <2>1. ~At_(s, "push")'
    BY <1>1 DEF At_
  <2> QED BY <1>1, <2>1 DEF SyncInv, SingleOk, At_, RowsOf
<1>6. \A t \in Sync : Active(t)' => Active(t) /\ t # s
  BY <1>1 DEF Active
<1>7. NamesOk(s)' /\ PhaseOk(s)' /\ LonelyOk(s)' /\ TruthOk(s)' /\ CleanOk(s)'
  <2>1. NamesOk(s)'
    BY <1>1, WorldFacts DEF NamesOk, NoEntry, NoOutcome, Mine
  <2>2. PhaseOk(s)'
    BY <1>1 DEF PhaseOk, At_
  <2>3. LonelyOk(s)'
    <3>1. LonelyOk(s)
      BY RunFacts
    <3>2. ~Active(s)'
      BY <1>6
    <3>3. ~At_(s, "idle")' /\ run'[s].clean => \A t \in Sync \ {s} : ~Active(t)
      BY <1>1, <3>1 DEF LonelyOk, At_, Active
    <3> QED BY <1>1, <1>6, <3>2, <3>3 DEF LonelyOk
  <2>4. TruthOk(s)'
    <3>1. \A i \in Indexer : NoEntry \in Truths(i)' /\ NoOutcome \in Truths(i)'
      BY DEF Truths, NoEntry, NoOutcome, Entry, OutcomeType
    <3> QED BY <1>1, <3>1 DEF TruthOk, NoOutcome
  <2>5. CleanOk(s)'
    BY <1>1 DEF CleanOk, Active, At_, Agrees, Wanted, RowsOf
  <2> QED BY <2>1, <2>2, <2>3, <2>4, <2>5
<1>8. ASSUME NEW t \in Sync \ {s}
      PROVE  NamesOk(t)' /\ PhaseOk(t)' /\ LonelyOk(t)' /\ TruthOk(t)' /\ CleanOk(t)'
  <2>1. /\ NamesOk(t) /\ PhaseOk(t) /\ LonelyOk(t) /\ TruthOk(t) /\ CleanOk(t) /\ LonelyOk(s)
        /\ run'[t] = run[t]
    BY <1>1, RunFacts
  <2>2. NamesOk(t)' /\ PhaseOk(t)'
    BY <2>1 DEF NamesOk, PhaseOk, Mine, Active, At_
  <2>3. LonelyOk(t)'
    BY <1>6, <2>1 DEF LonelyOk, At_, Active
  <2>4. TruthOk(t)'
    <3>1. CASE astray' = astray
      BY <2>1, <3>1 DEF TruthOk, Truths
    <3>2. CASE run[s].alone
      <4>1. \A i \in Indexer : run[t].prior[i] = NoEntry /\ run[t].out[i] = NoOutcome
        BY <2>1, <3>2 DEF LonelyOk, PhaseOk
      <4>2. \A i \in Indexer : NoEntry \in Truths(i)' /\ NoOutcome \in Truths(i)'
        BY DEF Truths, NoEntry, NoOutcome, Entry, OutcomeType
      <4> QED BY <2>1, <4>1, <4>2 DEF TruthOk, NoOutcome
    <3> QED BY <3>1, <3>2
  <2>5. CleanOk(t)'
    BY <2>1 DEF LonelyOk, CleanOk, Active, At_
  <2> QED BY <2>2, <2>3, <2>4, <2>5
<1> QED BY <1>1, <1>2, <1>3, <1>4, <1>5, <1>7, <1>8 DEF SyncInv

LEMMA AbandonStep ==
  ASSUME SyncInv, NEW s \in Sync, Abandon(s)
  PROVE  SyncInv'
<1>1. /\ Active(s) /\ run' = [run EXCEPT ![s] = Idle]
      /\ UNCHANGED <<instance, selected, level, book, remote, lastRid, astray, overlapped>>
  BY DEF Abandon, Set
<1>2. \A i \in Indexer : book[i] \in Entry /\ book[i].remote \in Mine(i) /\ (i \notin astray => book[i] \in Truths(i))
  BY DEF SyncInv, AppSyncTypeOK, RowsAreOwned, LedgerTruthful, Truths
<1>3. book' \in [Indexer -> Entry]
  BY <1>1 DEF SyncInv, AppSyncTypeOK
<1> QED BY <1>1, <1>2, <1>3, IdleFacts, EndsLeave

LEMMA PersistStep ==
  ASSUME SyncInv, NEW s \in Sync, persistOutcomes(s)
  PROVE  SyncInv'
<1> DEFINE r == run[s]
           sent == {i \in Indexer : r.out[i].action \in {"created", "updated", "failed"}}
           new == [Idle EXCEPT !.pc = "done", !.level = r.level, !.good = r.good,
                               !.bad = r.bad, !.clean = r.clean]
<1>1. /\ r.pc = "orphans" /\ r.todo = {} /\ run' = [run EXCEPT ![s] = new]
      /\ book' = [i \in Indexer |-> IF instance[i] = 0 THEN NoEntry
                                    ELSE persistOne(book[i], r.out[i])]
      /\ astray' = IF r.alone THEN astray \ sent ELSE astray
      /\ UNCHANGED <<instance, selected, level, remote, lastRid, overlapped>>
  BY DEF persistOutcomes, Set, At_
<1>2. /\ new \in RunState /\ new.pc = "done" /\ new.want = {} /\ DOMAIN new.listed = {}
      /\ new.alone = TRUE /\ new.level = r.level /\ new.bad = r.bad /\ new.clean = r.clean
      /\ \A i \in Indexer : new.prior[i] = NoEntry /\ new.out[i] = NoOutcome
  BY IdleFacts, RunFacts DEF RunState
<1>3. /\ NamesOk(s) /\ PhaseOk(s) /\ TruthOk(s) /\ CleanOk(s) /\ LonelyOk(s) /\ Active(s)
      /\ r.out \in [Indexer -> OutcomeType] /\ r.want \subseteq Indexer
  BY <1>1, RunFacts DEF Active
<1>4. ASSUME NEW i \in Indexer
      PROVE  /\ book'[i] \in Entry /\ book'[i].remote \in Mine(i)
             /\ i \notin astray' => book'[i] \in Truths(i)
  <2> DEFINE o == r.out[i]
             e == [remote |-> o.remote, hash |-> o.hash]
  <2>1. NoEntry \in Entry /\ NoEntry.remote \in Mine(i) /\ NoEntry \in Truths(i)
    BY Unsaid, WorldFacts DEF NoEntry, Entry, Mine
  <2>2. /\ book[i] \in Entry /\ book[i].remote \in Mine(i)
        /\ i \notin astray => book[i] \in Truths(i)
    BY DEF SyncInv, AppSyncTypeOK, RowsAreOwned, LedgerTruthful, Truths
  <2>3. /\ o \in OutcomeType /\ o.remote \in Mine(i)
        /\ o.action \in {"none", "created", "updated", "noop", "deleted", "failed"}
        /\ e \in Entry /\ e.remote = o.remote /\ e.hash = o.hash
    BY <1>3 DEF NamesOk, OutcomeType, Entry
  <2>4. i \notin astray => o \in Truths(i)
    BY <1>3 DEF TruthOk
  <2>5. /\ o.action \in {"created", "updated"} => i \in astray /\ (r.alone => o \in Truths(i))
        /\ o.action \in {"none", "deleted", "failed"} => o.hash = 0
    BY <1>3 DEF TruthOk
  <2>6. i \notin astray' => i \notin astray \/ (r.alone /\ o.action \in {"created", "updated", "failed"})
    BY <1>1
  <2>7. book'[i] = IF instance[i] = 0 THEN NoEntry ELSE persistOne(book[i], o)
    BY <1>1
  <2>8. o = NoOutcome => o.action = "none"
    BY DEF NoOutcome
  <2> HIDE DEF o
  <2>9. o \in Truths(i) => e \in Truths(i)
    BY <2>3 DEF Truths
  <2>10. o.hash = 0 => e \in Truths(i)
    BY <2>3 DEF Truths
  <2> HIDE DEF e
  <2>11. i \notin astray' => e \in Truths(i)
    BY <2>4, <2>5, <2>6, <2>9, <2>10
  <2>12. CASE instance[i] = 0
    BY <2>1, <2>7, <2>12
  <2>13. CASE instance[i] # 0 /\ o = NoOutcome
    <3>1. book'[i] = book[i]
      BY <2>7, <2>8, <2>13 DEF persistOne
    <3> QED BY <2>2, <2>6, <2>8, <2>13, <3>1
  <2>14. CASE instance[i] # 0 /\ o # NoOutcome /\ o.action = "deleted"
    <3>1. book'[i] = NoEntry
      BY <2>7, <2>14 DEF persistOne
    <3> QED BY <2>1, <3>1
  <2>15. CASE instance[i] # 0 /\ o # NoOutcome /\ o.action # "deleted"
    <3>1. book'[i] = e
      BY <2>7, <2>15 DEF persistOne, e
    <3> QED BY <2>3, <2>11, <3>1
  <2> QED BY <2>12, <2>13, <2>14, <2>15
<1>5. book' \in [Indexer -> Entry]
  BY <1>1, <1>4
<1>6. astray' \subseteq astray /\ (astray' = astray \/ r.alone)
  BY <1>1
<1>7. ASSUME r.clean, ~r.bad PROVE Agrees(r.level, astray')
  <2>1. /\ r.seen = instance /\ r.want = Wanted
        /\ \A i \in r.want : Pushed(s, i)
        /\ r.level = "full" => \A q \in DOMAIN remote : remote[q].slug \in Indexer \ r.want => q \in r.todo
    BY <1>1, <1>3, <1>7 DEF CleanOk, Active, At_
  <2>2. ASSUME NEW i \in Wanted \ astray' PROVE \E q \in RowsOf(i) : remote[q].conf = instance[i]
    <3>1. Pushed(s, i) /\ i \in Indexer
      BY <1>3, <2>1
    <3>2. ~(i \in astray /\ r.out[i].action = "noop")
      BY <1>1, <2>2, <3>1
    <3> QED BY <2>1, <3>1, <3>2 DEF Pushed
  <2>3. r.level = "full" => \A i \in Indexer \ Wanted : RowsOf(i) = {}
    BY <1>1, <2>1 DEF RowsOf
  <2>4. RowsOf(Foreign) = {1}
    BY DEF SyncInv, RowsAreOwned
  <2> QED BY <2>2, <2>3, <2>4 DEF Agrees
<1> HIDE DEF new
<1> QED BY <1>1, <1>2, <1>3, <1>4, <1>5, <1>6, <1>7, EndsLeave

-----------------------------------------------------------------------------
(* The operator.                                                           *)

LEMMA EditStep ==
  ASSUME SyncInv, NEW gone \in SUBSET Indexer, Unclean(gone), Kept, Told,
         \A r \in DOMAIN remote' : r \in DOMAIN remote /\ remote'[r] = remote[r],
         UNCHANGED <<lastRid, astray, overlapped>>,
         instance' \in [Indexer -> 0 .. MaxConf], selected' \subseteq Existing(instance'),
         level' \in {"full", "add_update"}, book' \in [Indexer -> Entry],
         \A i \in Indexer : book'[i] = book[i] \/ book'[i] = NoEntry
  PROVE  SyncInv'
<1>1. ASSUME NEW t \in Sync
      PROVE  /\ run'[t] \in RunState /\ run'[t].clean = FALSE
             /\ run'[t].pc = run[t].pc /\ run'[t].want = run[t].want /\ run'[t].todo = run[t].todo
             /\ run'[t].seen = run[t].seen /\ run'[t].prior = run[t].prior
             /\ run'[t].listed = run[t].listed /\ run'[t].out = run[t].out
             /\ run'[t].alone = run[t].alone
  <2> DEFINE g == IF Active(t) THEN run[t].gone \cup gone ELSE run[t].gone
             new == [run[t] EXCEPT !.clean = FALSE, !.gone = g]
  <2>1. run[t] \in RunState /\ g \in SUBSET Indexer
    BY RunFacts DEF RunState
  <2>2. run'[t] = new
    BY DEF Unclean
  <2> HIDE DEF g
  <2> QED BY <2>1, <2>2 DEF RunState
<1>2. run' \in [Sync -> RunState]
  <2>1. run' = [t \in Sync |-> run'[t]]
    BY DEF Unclean
  <2> QED BY <1>1, <2>1
<1>3. AppSyncTypeOK'
  <2>1. ASSUME NEW t \in Sync
        PROVE  /\ run'[t].out \in [Indexer -> OutcomeType] /\ run'[t].want \subseteq Existing(run'[t].seen)
               /\ DOMAIN run'[t].listed \subseteq 1 .. lastRid
    BY <1>1 DEF SyncInv, AppSyncTypeOK
  <2> QED BY <2>1 DEF SyncInv, AppSyncTypeOK, Existing, Kept
<1>4. RowsAreOwned'
  <2>1. \A i \in Indexer : book'[i].remote \in Mine(i)'
    BY KeptRows DEF SyncInv, RowsAreOwned, NoEntry
  <2> QED BY <2>1, KeptRows DEF RowsAreOwned
<1>5. LedgerTruthful'
  <2> SUFFICES ASSUME NEW i \in Indexer \ astray,
                      book'[i].hash # 0 /\ book'[i].remote \in DOMAIN remote'
               PROVE  remote'[book'[i].remote] = [slug |-> i, conf |-> book'[i].hash]
    BY DEF LedgerTruthful
  <2> DEFINE e == book[i]
  <2>1. book'[i] = e
    BY DEF NoEntry
  <2>2. e \in Truths(i) /\ e.remote \in Mine(i)
    BY DEF SyncInv, AppSyncTypeOK, RowsAreOwned, LedgerTruthful, Truths
  <2> HIDE DEF e
  <2>3. e \in Truths(i)'
    BY <2>2, KeptTruth
  <2> QED BY <2>1, <2>3 DEF Truths
<1>6. \A i \in Indexer : RowsOf(i)' \subseteq RowsOf(i)
  BY WorldFacts DEF RowsOf, Kept
<1>7. SingleOk'
  <2> SUFFICES ASSUME ~overlapped
               PROVE  /\ \A i \in Indexer : \A q, r \in RowsOf(i)' : q = r
                      /\ \A t \in Sync : run'[t].pc = "push" =>
                           \A i \in run'[t].todo : RowsOf(i)' \subseteq DOMAIN run'[t].listed
    BY DEF SingleOk, At_
  <2>1. /\ \A i \in Indexer : \A q, r \in RowsOf(i) : q = r
        /\ \A t \in Sync : run[t].pc = "push" =>
             \A i \in run[t].todo : RowsOf(i) \subseteq DOMAIN run[t].listed
    BY DEF SyncInv, SingleOk, At_
  <2>2. ASSUME NEW t \in Sync, run'[t].pc = "push", NEW i \in run'[t].todo
        PROVE  RowsOf(i)' \subseteq DOMAIN run'[t].listed
    <3>1. run'[t].pc = run[t].pc /\ run'[t].todo = run[t].todo /\ run'[t].listed = run[t].listed
      BY <1>1
    <3>2. run[t].todo \subseteq Indexer
      BY <2>2, <3>1, RunFacts DEF PhaseOk, At_
    <3> QED BY <1>6, <2>1, <2>2, <3>1, <3>2
  <2> QED BY <1>6, <2>1, <2>2
<1>8. ASSUME NEW t \in Sync
      PROVE  NamesOk(t)' /\ PhaseOk(t)' /\ LonelyOk(t)' /\ TruthOk(t)' /\ CleanOk(t)'
  <2> DEFINE now == run'[t]
  <2>1. /\ now.pc = run[t].pc /\ now.want = run[t].want /\ now.todo = run[t].todo
        /\ now.prior = run[t].prior /\ now.listed = run[t].listed /\ now.out = run[t].out
        /\ now.alone = run[t].alone /\ now.clean = FALSE
    BY <1>1
  <2> HIDE DEF now
  <2>2. now = run'[t]
    BY DEF now
  <2>3. Orphans(now) = Orphans(run[t])
    BY <2>1 DEF Orphans
  <2>4. /\ NamesOk(t) /\ PhaseOk(t) /\ TruthOk(t) /\ LonelyOk(t)
        /\ DOMAIN run[t].listed \subseteq 1 .. lastRid
    BY RunFacts
  <2>5. NamesOk(t)'
    <3>1. \A i \in Indexer : run[t].prior[i].remote \in Mine(i)' /\ run[t].out[i].remote \in Mine(i)'
      BY <2>4, KeptRows DEF NamesOk
    <3>2. \A r \in DOMAIN run[t].listed : r \in DOMAIN remote' => remote'[r].slug = run[t].listed[r]
      BY <2>4, WorldFacts DEF NamesOk, Kept
    <3> QED BY <2>1, <2>2, <3>1, <3>2 DEF NamesOk
  <2>6. PhaseOk(t)'
    BY <2>1, <2>2, <2>3, <2>4 DEF PhaseOk, Active, At_
  <2>7. LonelyOk(t)'
    <3>1. \A u \in Sync : Active(u)' <=> Active(u)
      BY <1>1 DEF Active
    <3> QED BY <2>1, <2>2, <2>4, <3>1 DEF LonelyOk
  <2>8. TruthOk(t)'
    <3> SUFFICES ASSUME NEW i \in Indexer
                 PROVE  /\ i \notin astray => now.prior[i] \in Truths(i)' /\ now.out[i] \in Truths(i)'
                        /\ now.out[i].action \in {"created", "updated"} =>
                             i \in astray /\ (now.alone => now.out[i] \in Truths(i)')
                        /\ now.out[i].action \in {"none", "deleted", "failed"} => now.out[i].hash = 0
      BY <2>2 DEF TruthOk
    <3>1. Truths(i) \subseteq Truths(i)'
      <4> SUFFICES ASSUME NEW e \in Truths(i), e.remote \in DOMAIN remote'
                   PROVE  e.remote \in DOMAIN remote /\ remote'[e.remote] = remote[e.remote]
        BY DEF Truths
      <4> QED OBVIOUS
    <3> QED BY <2>1, <2>4, <3>1 DEF TruthOk
  <2>9. CleanOk(t)'
    BY <2>1, <2>2 DEF CleanOk
  <2> QED BY <2>5, <2>6, <2>7, <2>8, <2>9
<1> QED BY <1>2, <1>3, <1>4, <1>5, <1>7, <1>8 DEF SyncInv

LEMMA OperatorSteps ==
  ASSUME SyncInv,
         \/ \E i \in Indexer : Configure(i) \/ RemoveIndexer(i) \/ AddIndexer(i) \/ DeleteInApp(i)
         \/ ReplaceProfileIndexers \/ UpdateConnection
  PROVE  SyncInv'
<1> USE DEF SyncInv, AppSyncTypeOK
<1>1. ASSUME NEW i \in Indexer, Configure(i) \/ AddIndexer(i) PROVE SyncInv'
  <2>1. PICK c \in Conf : /\ instance' = [instance EXCEPT ![i] = c] /\ Unclean({})
                          /\ UNCHANGED <<selected, level, book, remote, lastRid, astray, overlapped>>
    BY <1>1 DEF Configure, AddIndexer
  <2>2. instance' \in [Indexer -> 0 .. MaxConf] /\ selected' \subseteq Existing(instance')
    BY <2>1 DEF Conf, Existing
  <2>3. Kept /\ Told
    BY <2>1, Unmoved
  <2> HIDE DEF AppSyncTypeOK
  <2>4. level' \in {"full", "add_update"} /\ book' \in [Indexer -> Entry]
    BY <2>1 DEF AppSyncTypeOK
  <2> HIDE DEF SyncInv
  <2> QED BY <2>1, <2>2, <2>3, <2>4, EditStep
<1>2. ASSUME NEW i \in Indexer, RemoveIndexer(i) PROVE SyncInv'
  <2>1. /\ instance' = [instance EXCEPT ![i] = 0] /\ selected' = selected \ {i}
        /\ book' = [book EXCEPT ![i] = NoEntry] /\ Unclean({i})
        /\ UNCHANGED <<level, remote, lastRid, astray, overlapped>>
    BY <1>2 DEF RemoveIndexer
  <2>2. instance' \in [Indexer -> 0 .. MaxConf] /\ selected' \subseteq Existing(instance')
    BY <2>1 DEF Existing
  <2>3. Kept /\ Told
    BY <2>1, Unmoved
  <2>4. /\ level' \in {"full", "add_update"} /\ book' \in [Indexer -> Entry]
        /\ \A j \in Indexer : book'[j] = book[j] \/ book'[j] = NoEntry
    BY <2>1 DEF NoEntry, Entry
  <2> HIDE DEF AppSyncTypeOK, SyncInv
  <2> QED BY <2>1, <2>2, <2>3, <2>4, EditStep
<1>3. ASSUME NEW i \in Indexer, DeleteInApp(i) PROVE SyncInv'
  <2>1. PICK r \in RowsOf(i) : remote' = Restrict(remote, DOMAIN remote \ {r})
    BY <1>3 DEF DeleteInApp
  <2>2. Unclean({}) /\ UNCHANGED <<instance, selected, level, book, lastRid, astray, overlapped>>
    BY <1>3 DEF DeleteInApp
  <2> HIDE DEF AppSyncTypeOK, SyncInv
  <2>3. r # 1
    BY WorldFacts DEF RowsOf
  <2>4. Kept /\ Told
    BY <2>1, <2>2, <2>3, Removed
  <2>5. \A q \in DOMAIN remote' : q \in DOMAIN remote /\ remote'[q] = remote[q]
    BY <2>1 DEF Restrict
  <2>6. /\ instance' \in [Indexer -> 0 .. MaxConf] /\ selected' \subseteq Existing(instance')
        /\ level' \in {"full", "add_update"} /\ book' \in [Indexer -> Entry]
    BY <2>2 DEF SyncInv, AppSyncTypeOK
  <2> QED BY <2>2, <2>4, <2>5, <2>6, EditStep
<1>4. CASE ReplaceProfileIndexers \/ UpdateConnection
  <2>1. /\ selected' \subseteq Existing(instance) /\ level' \in {"full", "add_update"} /\ Unclean({})
        /\ UNCHANGED <<instance, book, remote, lastRid, astray, overlapped>>
    BY <1>4 DEF ReplaceProfileIndexers, UpdateConnection
  <2>2. Kept /\ Told
    BY <2>1, Unmoved
  <2>3. /\ instance' \in [Indexer -> 0 .. MaxConf] /\ book' \in [Indexer -> Entry]
    BY <2>1
  <2> HIDE DEF AppSyncTypeOK, SyncInv
  <2> QED BY <2>1, <2>2, <2>3, EditStep
<1> QED BY <1>1, <1>2, <1>3, <1>4

-----------------------------------------------------------------------------
LEMMA SyncStart == AppSyncInit => SyncInv
<1> SUFFICES ASSUME AppSyncInit PROVE SyncInv
  OBVIOUS
<1> USE DEF AppSyncInit
<1>1. /\ instance \in [Indexer -> 0 .. MaxConf] /\ selected \subseteq Existing(instance)
      /\ book \in [Indexer -> Entry] /\ lastRid \in Rid /\ DOMAIN remote = {1}
      /\ remote[1] = [slug |-> Foreign, conf |-> 0]
      /\ \A i \in Indexer : book[i] = NoEntry
  BY DEF Existing, Entry, NoEntry, Rid
<1>2. run \in [Sync -> RunState] /\ \A s \in Sync : run[s] = Idle
  BY IdleFacts
<1>3. AppSyncTypeOK
  <2>1. \A r \in DOMAIN remote : remote[r] \in [slug : Indexer \cup {Foreign}, conf : 0 .. MaxConf]
    BY <1>1
  <2>2. \A s \in Sync : /\ run[s].out \in [Indexer -> OutcomeType]
                        /\ run[s].want \subseteq Existing(run[s].seen)
                        /\ DOMAIN run[s].listed \subseteq 1 .. lastRid
    BY <1>2, IdleFacts DEF RunState
  <2>3. astray = {} /\ overlapped = FALSE /\ level \in {"full", "add_update"} /\ lastRid = 1
    OBVIOUS
  <2> HIDE DEF AppSyncInit
  <2>4. DOMAIN remote \subseteq 1 .. lastRid /\ astray \subseteq Indexer
    BY <1>1, <2>3
  <2>6. overlapped \in BOOLEAN
    BY <2>3
  <2>5. lastRid \in Rid /\ instance \in [Indexer -> 0 .. MaxConf] /\ book \in [Indexer -> Entry]
    BY <1>1
  <2> QED BY <1>1, <2>1, <2>2, <2>3, <2>4, <2>5, <2>6 DEF AppSyncTypeOK
<1>4. RowsAreOwned
  BY <1>1 DEF RowsAreOwned, RowsOf, Mine, NoEntry
<1>5. LedgerTruthful
  BY <1>1 DEF LedgerTruthful, NoEntry
<1>6. SingleOk
  <2>1. \A s \in Sync : ~At_(s, "push")
    BY <1>2, IdleFacts DEF At_
  <2>2. \A i \in Indexer : RowsOf(i) = {}
    BY <1>1 DEF RowsOf
  <2> QED BY <2>1, <2>2 DEF SingleOk
<1>7. ASSUME NEW s \in Sync
      PROVE  NamesOk(s) /\ PhaseOk(s) /\ LonelyOk(s) /\ TruthOk(s) /\ CleanOk(s)
  <2>1. \A i \in Indexer : 0 \in Mine(i)
    BY <1>1 DEF Mine, Rid
  <2>2. NamesOk(s) /\ PhaseOk(s) /\ LonelyOk(s) /\ CleanOk(s)
    BY <1>2, <2>1, IdleFacts DEF NamesOk, PhaseOk, LonelyOk, CleanOk, Active, At_, NoEntry, NoOutcome
  <2>3. TruthOk(s)
    BY <1>2, IdleFacts, Unsaid DEF TruthOk, NoOutcome
  <2> QED BY <2>2, <2>3
<1> QED BY <1>2, <1>3, <1>4, <1>5, <1>6, <1>7 DEF SyncInv

LEMMA SyncStep == SyncInv /\ [AppSyncNext]_appSyncVars => SyncInv'
<1> SUFFICES ASSUME SyncInv, [AppSyncNext]_appSyncVars PROVE SyncInv'
  OBVIOUS
<1>1. CASE UNCHANGED appSyncVars
  <2> USE <1>1 DEF appSyncVars
  <2>1. AppSyncTypeOK' /\ run' \in [Sync -> RunState]
    BY DEF SyncInv, AppSyncTypeOK, Existing
  <2>2. RowsAreOwned' /\ LedgerTruthful'
    BY DEF SyncInv, RowsAreOwned, LedgerTruthful, RowsOf, Mine
  <2>3. SingleOk'
    BY DEF SyncInv, SingleOk, At_, RowsOf
  <2>4. ASSUME NEW s \in Sync
        PROVE  NamesOk(s)' /\ PhaseOk(s)' /\ LonelyOk(s)' /\ TruthOk(s)' /\ CleanOk(s)'
    <3>1. NamesOk(s)' /\ PhaseOk(s)'
      BY RunFacts DEF NamesOk, PhaseOk, Mine, Active, At_
    <3>2. LonelyOk(s)'
      BY RunFacts DEF LonelyOk, Active, At_
    <3>3. TruthOk(s)'
      BY RunFacts DEF TruthOk, Truths
    <3>4. CleanOk(s)'
      BY RunFacts DEF CleanOk, Active, At_, Wanted, Pushed, Agrees, RowsOf
    <3> QED BY <3>1, <3>2, <3>3, <3>4
  <2> QED BY <2>1, <2>2, <2>3, <2>4 DEF SyncInv
<1> QED BY <1>1, BeginStep, LedgerStep, DesiredStep, ListStep, EndStep, PersistStep, AbandonStep,
           AddOrUpdateStep, OrphanStep, OperatorSteps DEF AppSyncNext

LEMMA SyncInvariant == AppSyncSpec => []SyncInv
BY SyncStart, SyncStep, PTL DEF AppSyncSpec

(* App sync's state has its type: a run's outcomes, wants and listed rows    *)
(* included.                                                                *)
THEOREM AppSyncTypeCorrect == AppSyncSpec => []AppSyncTypeOK
<1>1. SyncInv => AppSyncTypeOK
  BY DEF SyncInv
<1> QED BY <1>1, SyncInvariant, PTL

(* However many indexers, runs and rows: the hash in the ledger is what the  *)
(* app holds, but for an indexer with an unrecorded push, and without two    *)
(* runs at once no indexer gets a second row (reconcile.go).                 *)
THEOREM LedgerIsFaithful == AppSyncSpec => []LedgerFaithful
<1>1. SyncInv => LedgerFaithful
  <2> SUFFICES ASSUME SyncInv PROVE NoDuplicates
    BY DEF LedgerFaithful, SyncInv
  <2> SUFFICES ASSUME ~overlapped, NEW i \in Indexer PROVE Cardinality(RowsOf(i)) <= 1
    BY DEF NoDuplicates
  <2>1. \A q, r \in RowsOf(i) : q = r
    BY DEF SyncInv, SingleOk
  <2>2. CASE RowsOf(i) = {}
    BY <2>2, FS_EmptySet
  <2>3. ASSUME NEW r \in RowsOf(i) PROVE Cardinality(RowsOf(i)) <= 1
    <3>1. RowsOf(i) = {r}
      BY <2>1
    <3>2. Cardinality({r}) = 1
      BY FS_Singleton
    <3> QED BY <3>1, <3>2
  <2> QED BY <2>2, <2>3
<1> QED BY <1>1, SyncInvariant, PTL

(* A run that reports ok, undisturbed by another run or a change, leaves the *)
(* app in agreement with harbrr, whatever failed, was lost or overlapped     *)
(* before (service.go Sync, reconcile.go Reconcile).                         *)
THEOREM EndedWellAgrees == AppSyncSpec => []SyncAgrees
<1>1. SyncInv => SyncAgrees
  BY DEF SyncInv, SyncAgrees, DoneWell, CleanOk
<1> QED BY <1>1, SyncInvariant, PTL

===========================================================================
