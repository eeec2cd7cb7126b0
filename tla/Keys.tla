-------------------------------- MODULE Keys --------------------------------
(***************************************************************************)
(* The key of the secrets at rest: how a start of the daemon finds it      *)
(* (secrets/keyring.go), the canary that refuses a start under another one *)
(* (app/app.go, secrets/canary.go), the secrets the services store under   *)
(* it, and the command that re-encrypts all of them under a new one        *)
(* (cmd/harbrr/rotate_key.go over database/rotation.go).                   *)
(*                                                                         *)
(* A key stands for its own id, and what is sealed is the key it was       *)
(* sealed with and the row it is bound to.  One row of a table stands for  *)
(* all of them.  The command is run "with the daemon stopped", as it asks. *)
(***************************************************************************)
CONSTANTS
  Key,      \* encryption keys
  Surface,  \* the tables of secrets bound to their own row
  NoKey,    \* no key, or nothing sealed
  Plain,    \* the id of the plaintext mode
  Torn      \* a keyfile that was cut off while it was written

ASSUME KeysAssumption ==
  /\ NoKey # Plain /\ NoKey # Torn /\ Plain # Torn
  /\ {NoKey, Plain, Torn} \cap Key = {}
  /\ "indexer_settings" \notin Surface

Table == Surface \cup {"indexer_settings"}
Keyring == Key \cup {Plain}

VARIABLES
  configured,   \* the key the configuration names
  allowPlain,   \* it allows secrets in the clear
  keyfile,      \* the keyfile under the data directory
  canaryBlob,   \* app_meta: the canary, by the keyring that sealed it
  canaryId,     \* app_meta: the id of the key in force
  sealed,       \* the secret of each table and its key_id column
  daemon,       \* where its start is, and its keyring
  rekeyPlan     \* the re-encrypted secrets a rotation holds in memory

keysVars == <<configured, allowPlain, keyfile, canaryBlob, canaryId, sealed,
              daemon, rekeyPlan>>
storeVars == <<canaryBlob, canaryId, sealed>>
operatorVars == <<configured, allowPlain, keyfile>>

Nothing == [by |-> NoKey, aad |-> "", keyId |-> NoKey]
Down == [pc |-> "down", keyring |-> NoKey]
NoPlan == [new |-> NoKey, rows |-> {}]

KeysInit ==
  /\ configured \in Key \cup {NoKey} /\ allowPlain \in BOOLEAN
  /\ keyfile = NoKey
  /\ canaryBlob = NoKey /\ canaryId = NoKey
  /\ sealed = [t \in Table |-> Nothing]
  /\ daemon = Down
  /\ rekeyPlan = NoPlan

(* What a keyring seals for a row opens under it alone, and for that row.   *)
(* In plaintext mode nothing is sealed and nothing is bound.                *)
Encrypt(k, row) == [by |-> k, aad |-> row, keyId |-> k]
Decrypts(k, row, secret) == secret.by = k /\ (k = Plain \/ secret.aad = row)

DaemonAt(pc) == daemon.pc = pc
Offline == DaemonAt("down") /\ rekeyPlan = NoPlan

(* A random key is none of those around.                                   *)
Fresh(k) ==
  /\ k \notin {configured, keyfile, canaryBlob, canaryId}
  /\ \A t \in Table : sealed[t].by # k

-----------------------------------------------------------------------------
(* The start.                                                               *)

(* A configured key, else the keyfile, else plaintext if that is allowed.   *)
(* A keyfile that cannot be read is fatal.                                 *)
Resolved ==
  IF configured # NoKey THEN configured
  ELSE IF keyfile # NoKey THEN keyfile
  ELSE IF allowPlain THEN Plain ELSE NoKey

OpenKeyring ==
  /\ Offline /\ Resolved \in Keyring
  /\ daemon' = [pc |-> "opened", keyring |-> Resolved]
  /\ UNCHANGED <<operatorVars, storeVars, rekeyPlan>>

(* Without any of them a key is made and written to the keyfile, before the *)
(* canary is looked at.  The process may end while it writes.               *)
GenerateKeyFile ==
  /\ Offline /\ Resolved = NoKey
  /\ \/ \E k \in Key : /\ Fresh(k)
                       /\ keyfile' = k
                       /\ daemon' = [pc |-> "opened", keyring |-> k]
     \/ keyfile' = Torn /\ UNCHANGED daemon
  /\ UNCHANGED <<configured, allowPlain, storeVars, rekeyPlan>>

HaveCanary == canaryBlob # NoKey /\ canaryId # NoKey
VerifyCanary(k) == canaryId = k /\ canaryBlob = k

(* The canary is checked, or its blob is written if either half is missing. *)
CheckCanary ==
  /\ DaemonAt("opened")
  /\ IF HaveCanary
       THEN /\ daemon' = IF VerifyCanary(daemon.keyring)
                           THEN [daemon EXCEPT !.pc = "up"] ELSE Down
            /\ UNCHANGED canaryBlob
       ELSE /\ canaryBlob' = daemon.keyring
            /\ daemon' = [daemon EXCEPT !.pc = "tagged"]
  /\ UNCHANGED <<operatorVars, canaryId, sealed, rekeyPlan>>

(* The id follows in a statement of its own.                                *)
WriteCanaryId ==
  /\ DaemonAt("tagged")
  /\ canaryId' = daemon.keyring
  /\ daemon' = [daemon EXCEPT !.pc = "up"]
  /\ UNCHANGED <<operatorVars, canaryBlob, sealed, rekeyPlan>>

(* The daemon stops or crashes, at any point.                               *)
Stop ==
  /\ ~DaemonAt("down")
  /\ daemon' = Down
  /\ UNCHANGED <<operatorVars, storeVars, rekeyPlan>>

(* A service seals a secret for its row, replaces it, or deletes the row.   *)
StoreSecret(t) ==
  /\ DaemonAt("up")
  /\ sealed' = [sealed EXCEPT ![t] = Encrypt(daemon.keyring, t)]
  /\ UNCHANGED <<operatorVars, canaryBlob, canaryId, daemon, rekeyPlan>>

DeleteSecret(t) ==
  /\ DaemonAt("up") /\ sealed[t] # Nothing
  /\ sealed' = [sealed EXCEPT ![t] = Nothing]
  /\ UNCHANGED <<operatorVars, canaryBlob, canaryId, daemon, rekeyPlan>>

-----------------------------------------------------------------------------
(* The rotation.                                                            *)

(* The tables of the fixed-AAD surfaces; the settings have a query of their *)
(* own.                                                                     *)
SecretSurfacesShort == Surface \ {CHOOSE s \in Surface : TRUE}   \* mutant
SecretSurfaces == Surface

Rekeyed == SecretSurfaces \cup {"indexer_settings"}

(* Every secret is opened under the old key before anything is written.  A  *)
(* store that names another key, or none, is refused, and so is one with a  *)
(* canary or a secret the old key does not open.                            *)
ReencryptAll(old, new) ==
  /\ Offline
  /\ canaryId = old
  /\ canaryBlob \in {NoKey, old}
  /\ \A t \in Rekeyed : sealed[t] = Nothing \/ Decrypts(old, t, sealed[t])
  /\ rekeyPlan' = [new |-> new, rows |-> {t \in Rekeyed : sealed[t] # Nothing}]
  /\ UNCHANGED <<operatorVars, storeVars, daemon>>

(* The plan, the canary and the id are written in one transaction.          *)
ApplyRotation ==
  /\ rekeyPlan # NoPlan
  /\ sealed' = [t \in Table |-> IF t \in rekeyPlan.rows
                                  THEN Encrypt(rekeyPlan.new, t) ELSE sealed[t]]
  /\ canaryBlob' = rekeyPlan.new /\ canaryId' = rekeyPlan.new
  /\ rekeyPlan' = NoPlan
  /\ UNCHANGED <<operatorVars, daemon>>

(* A dry run, a failing write or a crash leaves the store as it was.        *)
AbandonRotation ==
  /\ rekeyPlan # NoPlan
  /\ rekeyPlan' = NoPlan
  /\ UNCHANGED <<operatorVars, storeVars, daemon>>

(* Between two runs the operator may name another key, change the mode,     *)
(* remove the keyfile or put another one in its place.                      *)
Reconfigure ==
  /\ Offline
  /\ \/ configured' \in Key \cup {NoKey} /\ UNCHANGED <<allowPlain, keyfile>>
     \/ allowPlain' \in BOOLEAN /\ UNCHANGED <<configured, keyfile>>
     \/ keyfile' \in Key \cup {NoKey} /\ UNCHANGED <<configured, allowPlain>>
  /\ UNCHANGED <<storeVars, daemon, rekeyPlan>>

KeysNext ==
  \/ OpenKeyring \/ GenerateKeyFile \/ CheckCanary \/ WriteCanaryId \/ Stop
  \/ \E t \in Table : StoreSecret(t) \/ DeleteSecret(t)
  \/ \E old \in Key, new \in Key : ReencryptAll(old, new)
  \/ ApplyRotation \/ AbandonRotation \/ Reconfigure

KeysSpec == KeysInit /\ [][KeysNext]_keysVars

-----------------------------------------------------------------------------
KeysTypeOK ==
  /\ configured \in Key \cup {NoKey} /\ allowPlain \in BOOLEAN
  /\ keyfile \in Key \cup {NoKey, Torn}
  /\ {canaryBlob, canaryId} \subseteq Keyring \cup {NoKey}
  /\ sealed \in [Table -> [by : Keyring \cup {NoKey}, aad : Table \cup {""},
                           keyId : Keyring \cup {NoKey}]]
  /\ daemon \in [pc : {"down", "opened", "tagged", "up"}, keyring : Keyring \cup {NoKey}]
  /\ rekeyPlan \in [new : Key \cup {NoKey}, rows : SUBSET Table]

(* Whatever keys the operator names, loses or rotates to, and wherever a    *)
(* start or a rotation is cut off: every sealed secret opens, for its own   *)
(* row, under the one key the store names, and that is the key of any       *)
(* daemon that serves.  A secret of a table the rotation forgets, or one a  *)
(* daemon wrote under a key the canary should have refused, would not.      *)
StoreOpens ==
  /\ \A t \in Table : sealed[t] # Nothing =>
       /\ Decrypts(canaryId, t, sealed[t])
       /\ sealed[t].keyId = canaryId
       /\ HaveCanary
  /\ DaemonAt("up") => VerifyCanary(daemon.keyring)
=============================================================================
