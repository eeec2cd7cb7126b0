---------------------------- MODULE Connections ----------------------------
(***************************************************************************)
(* Connections and the keys minted for them (connresource.Lifecycle, with   *)
(* apps.Service.Resolve in front of it and auth.Service's keys behind it).  *)
(* A create resolves or inserts its app, mints a key, and inserts the row   *)
(* with the key sealed on it; a delete reads the row, removes it and        *)
(* revokes the key.  Each of these is a transaction of its own, so that     *)
(* another request, the operator or a crash can come in between.            *)
(*                                                                         *)
(* A table is a function over its row ids, 0 where there is no row.  SQLite *)
(* gives a new row the largest id of the table plus one, so that the id of  *)
(* a deleted row comes back.  A key is the number of its mint: what is      *)
(* sealed on a row is the key itself, what the row refers to is an id.      *)
(***************************************************************************)
EXTENDS Integers, FiniteSets

CONSTANTS
  Op,          \* requests in progress
  Identity,    \* the (kind, base URL) pairs of apps
  MaxRow,      \* row ids of each table
  MaxMint,     \* keys minted
  MaxTrouble   \* failing statements, requests cut off, crashes, and revocations by hand

ASSUME ConnectionsAssumption == MaxRow \in Nat \ {0} /\ MaxMint \in Nat

Row == 1 .. MaxRow
NoConn == [app |-> 0, key |-> 0, sealed |-> 0]
NoOp == [pc |-> "none", app |-> 0, key |-> 0, minted |-> 0, conn |-> 0, about |-> "none"]

VARIABLES
  app,       \* apps: the identity of each row, or "none"
  apiKey,    \* api_keys: the key of each row, or 0
  conn,      \* the connections of one surface
  op,        \* the requests
  mints,     \* keys minted so far
  trouble,
  reported,  \* history: keys an error told its caller to revoke by hand
  cutOff,    \* history: keys a crash left behind
  mistaken   \* history: keys of rows that a delete removed in place of the row it read

connVars == <<app, apiKey, conn, op, mints, trouble, reported, cutOff, mistaken>>
connHistory == <<reported, cutOff, mistaken>>

ConnectionsInit ==
  /\ app = [r \in Row |-> "none"]
  /\ apiKey = [r \in Row |-> 0]
  /\ conn = [r \in Row |-> NoConn]
  /\ op = [o \in Op |-> NoOp]
  /\ mints = 0 /\ trouble = 0
  /\ reported = {} /\ cutOff = {} /\ mistaken = {}

NextId(used) == 1 + (IF used = {} THEN 0
                     ELSE CHOOSE m \in used : \A n \in used : n <= m)
AppRows == {r \in Row : app[r] # "none"}
KeyRows == {r \in Row : apiKey[r] # 0}
ConnRows == {r \in Row : conn[r] # NoConn}

(* The requests that have a key to store or to give back. *)
Holders == {o \in Op : op[o].pc \in {"insert", "orphan", "revoke"}}
OpAt(o, pc) == op[o].pc = pc
Becomes(o, x) == op' = [op EXCEPT ![o] = x]
Goes(o, pc) == Becomes(o, [op[o] EXCEPT !.pc = pc])
Replies(o) == Becomes(o, NoOp)
Trouble == trouble < MaxTrouble /\ trouble' = trouble + 1

-----------------------------------------------------------------------------
(* CreateConnection: apps.Resolve, by identity or by id.                    *)

ResolveApp(o, i) ==
  LET same == {r \in AppRows : app[r] = i} IN
  /\ OpAt(o, "none")
  /\ IF same = {} THEN Becomes(o, [NoOp EXCEPT !.pc = "app", !.about = i])
     ELSE \E r \in same : Becomes(o, [NoOp EXCEPT !.pc = "mint", !.about = i, !.app = r])
  /\ UNCHANGED <<app, apiKey, conn, mints, trouble, connHistory>>

(* Two creates that both found no app: the second hits UNIQUE(kind, base_url). *)
CreateApp(o) ==
  /\ OpAt(o, "app")
  /\ IF \E r \in AppRows : app[r] = op[o].about
       THEN Replies(o) /\ UNCHANGED app
       ELSE LET id == NextId(AppRows) IN
            /\ id \in Row
            /\ app' = [app EXCEPT ![id] = op[o].about]
            /\ Becomes(o, [op[o] EXCEPT !.pc = "mint", !.app = id])
  /\ UNCHANGED <<apiKey, conn, mints, trouble, connHistory>>

(* Lifecycle.Create.                                                        *)
MintAPIKey(o) ==
  LET id == NextId(KeyRows) IN
  /\ OpAt(o, "mint") /\ mints < MaxMint /\ id \in Row
  /\ mints' = mints + 1
  /\ apiKey' = [apiKey EXCEPT ![id] = mints + 1]
  /\ Becomes(o, [op[o] EXCEPT !.pc = "insert", !.key = id, !.minted = mints + 1])
  /\ UNCHANGED <<app, conn, trouble, connHistory>>

(* The references to the app and to the key must hold, and an app has one   *)
(* connection of each surface.                                              *)
Insertable(o) ==
  /\ app[op[o].app] # "none" /\ apiKey[op[o].key] # 0
  /\ \A r \in ConnRows : conn[r].app # op[o].app
  /\ NextId(ConnRows) \in Row

insertSealed(o) ==
  /\ OpAt(o, "insert") /\ Insertable(o)
  /\ conn' = [conn EXCEPT ![NextId(ConnRows)] =
       [app |-> op[o].app, key |-> op[o].key, sealed |-> op[o].minted]]
  /\ Replies(o)
  /\ UNCHANGED <<app, apiKey, mints, trouble, connHistory>>

(* A create that fails now has a key to give back. *)
KeyLeft(request) == IF request.pc = "insert" THEN NoOp ELSE request \* bug for the mutants
Orphaned(request) == [request EXCEPT !.pc = "orphan"]
InsertFails(o) ==
  /\ OpAt(o, "insert")
  /\ IF Insertable(o) THEN Trouble ELSE UNCHANGED trouble
  /\ Becomes(o, Orphaned(op[o]))
  /\ UNCHANGED <<app, apiKey, conn, mints, connHistory>>

-----------------------------------------------------------------------------
(* RevokeAPIKey, by whoever: the row goes, and so do the references to it.  *)
Revoked(id) ==
  /\ apiKey' = [apiKey EXCEPT ![id] = 0]
  /\ conn' = [r \in Row |-> IF conn[r] # NoConn /\ conn[r].key = id
                            THEN [conn[r] EXCEPT !.key = 0] ELSE conn[r]]

(* revokeOrphan, and the end of a delete: a revocation that fails is told   *)
(* to the caller with the id of the key.                                    *)
Revoke(o) ==
  LET id == op[o].key IN
  /\ op[o].pc \in {"orphan", "revoke"}
  /\ Replies(o)
  /\ \/ Revoked(id) /\ UNCHANGED <<reported, trouble>>
     \/ /\ Trouble
        /\ reported' = reported \cup ({apiKey[id]} \ {0})
        /\ UNCHANGED <<apiKey, conn>>
  /\ UNCHANGED <<app, mints, cutOff, mistaken>>

(* Lifecycle.Delete.                                                        *)
DeleteGet(o, r) ==
  /\ OpAt(o, "none") /\ r \in ConnRows
  /\ Becomes(o, [NoOp EXCEPT !.pc = "delete", !.conn = r,
                             !.key = conn[r].key, !.minted = conn[r].sealed])
  /\ UNCHANGED <<app, apiKey, conn, mints, trouble, connHistory>>

KeyOf(r) == IF conn[r].key = 0 THEN {} ELSE {apiKey[conn[r].key]}

DeleteRow(o) ==
  LET r == op[o].conn IN
  /\ OpAt(o, "delete")
  /\ IF r \in ConnRows
       THEN /\ conn' = [conn EXCEPT ![r] = NoConn]
            /\ mistaken' = IF conn[r].sealed = op[o].minted THEN mistaken
                           ELSE mistaken \cup KeyOf(r)
            /\ IF op[o].key = 0 THEN Replies(o) ELSE Goes(o, "revoke")
       ELSE Replies(o) /\ UNCHANGED <<conn, mistaken>>
  /\ UNCHANGED <<app, apiKey, mints, trouble, reported, cutOff>>

(* A statement that fails, or a caller that leaves, before anything needs   *)
(* to be undone.                                                            *)
OpFails(o) ==
  /\ op[o].pc \in {"app", "mint", "delete"}
  /\ Trouble /\ Replies(o)
  /\ UNCHANGED <<app, apiKey, conn, mints, connHistory>>

-----------------------------------------------------------------------------
(* apps.Delete: references are counted first, and hold by the foreign key.  *)
DeleteApp(r) ==
  /\ r \in AppRows /\ \A c \in ConnRows : conn[c].app # r
  /\ app' = [app EXCEPT ![r] = "none"]
  /\ UNCHANGED <<apiKey, conn, op, mints, trouble, connHistory>>

(* The operator revokes a key in the list of keys. *)
RevokeByHand(k) ==
  /\ k \in KeyRows /\ Trouble
  /\ Revoked(k)
  /\ UNCHANGED <<app, op, mints, connHistory>>

ProcessCrash ==
  /\ Trouble
  /\ cutOff' = cutOff \cup {op[o].minted : o \in Holders}
  /\ op' = [o \in Op |-> NoOp]
  /\ UNCHANGED <<app, apiKey, conn, mints, reported, mistaken>>

ConnectionsNext ==
  \/ \E o \in Op :
       \/ \E i \in Identity : ResolveApp(o, i)
       \/ CreateApp(o) \/ MintAPIKey(o) \/ insertSealed(o) \/ InsertFails(o)
       \/ Revoke(o) \/ DeleteRow(o) \/ OpFails(o)
       \/ \E r \in Row : DeleteGet(o, r)
  \/ \E r \in Row : DeleteApp(r) \/ RevokeByHand(r)
  \/ ProcessCrash

ConnectionsSpec == ConnectionsInit /\ [][ConnectionsNext]_connVars

-----------------------------------------------------------------------------
KeyNumber == 0 .. MaxMint
OpPc == {"none", "app", "mint", "insert", "orphan", "delete", "revoke"}
ConnState == [app : 0 .. MaxRow, key : 0 .. MaxRow, sealed : KeyNumber]
OpState == [pc : OpPc, app : 0 .. MaxRow, key : 0 .. MaxRow, minted : KeyNumber,
            conn : 0 .. MaxRow, about : Identity \cup {"none"}]

(* The type of the state of connections and their keys. *)
ConnectionsTypeOK ==
  /\ app \in [Row -> Identity \cup {"none"}]
  /\ apiKey \in [Row -> KeyNumber]
  /\ conn \in [Row -> ConnState]
  /\ op \in [Op -> OpState]
  /\ mints \in KeyNumber /\ trouble \in Nat
  /\ reported \cup cutOff \cup mistaken \subseteq KeyNumber

Held == {apiKey[op[o].key] : o \in Holders}
Referenced == UNION {KeyOf(r) : r \in ConnRows}

(* "An unrevoked key remains a live credential" (Lifecycle.Create): every   *)
(* live key belongs to a connection or to a request about to store or       *)
(* revoke it, or an error named it, unless the process crashed in between   *)
(* or a delete met another row under the id it had read.                    *)
KeysAccounted ==
  \A r \in KeyRows :
    apiKey[r] \in Held \cup Referenced \cup reported \cup cutOff \cup mistaken
=============================================================================
