------------------------------- MODULE Backup -------------------------------
(***************************************************************************)
(* Backup and restore of what decides which indexers an app is fed and with  *)
(* which key: indexers, sync profiles, keys and app connections              *)
(* (backup.Service.Export and Import).  The export reads one table after the  *)
(* other, while the operator goes on; the import wipes the tables and loads   *)
(* the bundle in one transaction, where every row gets a new id and every     *)
(* reference has to follow it.                                               *)
(*                                                                          *)
(* A table is a function over its row ids; SQLite gives a new row the largest *)
(* id plus one.  An indexer is its slug and a key the number of its mint.  A  *)
(* connection is known by its name, and no row refers to it; the model has    *)
(* one of each name throughout, so that only an import with force gets past   *)
(* ensureRestorable.                                                         *)
(***************************************************************************)
EXTENDS Integers, FiniteSets

CONSTANTS
  Slug,         \* indexers
  Link,         \* names of app connections
  MaxId,        \* row ids of each table
  MaxChange,    \* bound on the operator's changes
  MaxImport    \* bound on imports

Id == 1 .. MaxId
NoSlug == "none"

ASSUME BackupAssumption ==
  /\ IsFiniteSet(Link) /\ NoSlug \notin Slug
  /\ MaxId \in Nat \ {0} /\ {MaxChange, MaxImport} \subseteq Nat

NoProfile == [kept |-> FALSE, members |-> {}]

VARIABLES
  indexers,   \* indexer_instances: the slug of each row
  profiles,   \* sync_profiles with sync_profile_indexers
  keys,       \* api_keys: the key of each row, or 0
  links,      \* app_connections: the ids of a profile and of a key, or 0
  export,     \* how far an export is, and what it has read
  bundle,     \* the bundle of the last export, or one of an earlier version
  changes, restores

tables == <<indexers, profiles, keys, links>>
backupVars == <<tables, export, bundle, changes, restores>>

IndexerRows(t) == {r \in Id : t[r] # NoSlug}
ProfileRows(t) == {r \in Id : t[r].kept}
KeyRowsIn(t) == {r \in Id : t[r] # 0}

(* No profile, or one that selects nothing, feeds every indexer. *)
Fed(l) ==
  LET p == links[l].profile
      picked == IF p = 0 THEN {} ELSE profiles[p].members IN
  {indexers[r] : r \in IF picked = {} THEN IndexerRows(indexers) ELSE picked}
KeyHeld(l) == IF links[l].key = 0 THEN 0 ELSE keys[links[l].key]

Empty == [r \in Id |-> NoSlug]
NoProfiles == [r \in Id |-> NoProfile]
NoKeys == [r \in Id |-> 0]
(* A link in a bundle: scope and picked are the two legacy fields.  *)
BundledLink(p, k, scope, picked) == [profile |-> p, key |-> k, scope |-> scope, picked |-> picked]
NoExport == [pc |-> "idle", torn |-> FALSE]
NoBundle == [ready |-> FALSE]
BlankBundle ==
  [ready |-> TRUE, whole |-> TRUE, indexers |-> Empty, profiles |-> NoProfiles, keys |-> NoKeys,
   links |-> [l \in Link |-> BundledLink(0, 0, "", {})], fed |-> [l \in Link |-> {}],
   held |-> [l \in Link |-> 0]]

(* Bundles from before profiles routed: a profile has no members, and the     *)
(* connection names its indexers itself.                                     *)
Legacy(t, picked) ==
  [BlankBundle EXCEPT
     !.indexers = t,
     !.profiles = [NoProfiles EXCEPT ![1].kept = TRUE],
     !.links = [l \in Link |-> BundledLink(1, 0, "selected", picked)],
     !.fed = [l \in Link |-> {t[r] : r \in IF picked = {} THEN IndexerRows(t) ELSE picked}]]

(* Tables in use: rows deleted before leave gaps.                            *)
BackupInit ==
  /\ indexers \in [Id -> Slug \cup {NoSlug}]
  /\ \A r, s \in IndexerRows(indexers) : indexers[r] = indexers[s] => r = s
  /\ \E p \in Id, m \in SUBSET IndexerRows(indexers) :
       profiles = [NoProfiles EXCEPT ![p] = [kept |-> TRUE, members |-> m]]
  /\ \E used \in SUBSET Id \ {{}} : keys = [r \in Id |-> IF r \in used THEN r ELSE 0]
  /\ links \in [Link -> [profile : {0} \cup ProfileRows(profiles), key : KeyRowsIn(keys)]]
  /\ export = NoExport
  /\ bundle \in {NoBundle} \cup {Legacy(indexers, m) : m \in SUBSET IndexerRows(indexers)}
  /\ changes = 0 /\ restores = 0

NextRow(used) == 1 + (IF used = {} THEN 0 ELSE CHOOSE m \in used : \A n \in used : n <= m)

-----------------------------------------------------------------------------
(* The operator.  A change in the middle of an export tears it.              *)
Torn(e) == IF e.pc = "idle" THEN e ELSE [e EXCEPT !.torn = TRUE]
Change ==
  /\ changes < MaxChange /\ changes' = changes + 1
  /\ export' = Torn(export)
  /\ UNCHANGED <<bundle, restores>>

AddSlug(s) ==
  LET id == NextRow(IndexerRows(indexers)) IN
  /\ Change /\ id \in Id /\ \A r \in Id : indexers[r] # s
  /\ indexers' = [indexers EXCEPT ![id] = s]
  /\ UNCHANGED <<profiles, keys, links>>

(* The selections cascade. *)
DeleteSlug(r) ==
  /\ Change /\ r \in IndexerRows(indexers)
  /\ indexers' = [indexers EXCEPT ![r] = NoSlug]
  /\ profiles' = [p \in Id |-> [profiles[p] EXCEPT !.members = @ \ {r}]]
  /\ UNCHANGED <<keys, links>>

CreateProfile(m) ==
  LET id == NextRow(ProfileRows(profiles)) IN
  /\ Change /\ id \in Id /\ m \subseteq IndexerRows(indexers)
  /\ profiles' = [profiles EXCEPT ![id] = [kept |-> TRUE, members |-> m]]
  /\ UNCHANGED <<indexers, keys, links>>

UpdateProfile(p, m) ==
  /\ Change /\ p \in ProfileRows(profiles) /\ m \subseteq IndexerRows(indexers)
  /\ profiles' = [profiles EXCEPT ![p].members = m]
  /\ UNCHANGED <<indexers, keys, links>>

(* Refused while a connection refers to the profile. *)
DeleteProfile(p) ==
  /\ Change /\ p \in ProfileRows(profiles) /\ \A l \in Link : links[l].profile # p
  /\ profiles' = [profiles EXCEPT ![p] = NoProfile]
  /\ UNCHANGED <<indexers, keys, links>>

SetProfile(l, p) ==
  /\ Change /\ p \in {0} \cup ProfileRows(profiles)
  /\ links' = [links EXCEPT ![l].profile = p]
  /\ UNCHANGED <<indexers, profiles, keys>>

RevokeKey(k) ==
  /\ Change /\ k \in KeyRowsIn(keys)
  /\ keys' = [keys EXCEPT ![k] = 0]
  /\ links' = [l \in Link |-> IF links[l].key = k THEN [links[l] EXCEPT !.key = 0] ELSE links[l]]
  /\ UNCHANGED <<indexers, profiles>>

-----------------------------------------------------------------------------
(* collect, table by table; ListProfiles reads the rows first and then the    *)
(* selections.                                                               *)
Reads(pc, next, got) ==
  /\ export.pc = pc
  /\ export' = [pc |-> next, torn |-> export.torn, got |-> got]
  /\ UNCHANGED <<tables, bundle, changes, restores>>

WithMembers(t) ==
  [p \in Id |-> IF t[p].kept THEN [t[p] EXCEPT !.members = profiles[p].members] ELSE NoProfile]

ExportProfiles ==
  Reads("idle", "members", [BlankBundle EXCEPT
    !.profiles = [p \in Id |-> [profiles[p] EXCEPT !.members = {}]]])
ExportMembers ==
  Reads("members", "keys", [export.got EXCEPT !.profiles = WithMembers(@)])
ExportKeys == Reads("keys", "indexers", [export.got EXCEPT !.keys = keys])
ExportIndexers == Reads("indexers", "links", [export.got EXCEPT !.indexers = indexers])
ExportLinks ==
  /\ export.pc = "links"
  /\ bundle' = [export.got EXCEPT !.whole = ~export.torn,
       !.links = [l \in Link |-> BundledLink(links[l].profile, links[l].key, "", {})],
       !.fed = [l \in Link |-> Fed(l)], !.held = [l \in Link |-> KeyHeld(l)]]
  /\ export' = NoExport
  /\ UNCHANGED <<tables, changes, restores>>

-----------------------------------------------------------------------------
(* load: the rows of a table are inserted in the order of their old ids.      *)
idMap(rows) == [r \in rows |-> Cardinality({q \in rows : q <= r})]
remap(m, old) == IF old \in DOMAIN m THEN m[old] ELSE 0
LoadedTable(t, rows, none) ==
  [r \in Id |-> IF \E q \in rows : idMap(rows)[q] = r
                THEN t[CHOOSE q \in rows : idMap(rows)[q] = r] ELSE none]

(* The indexers come first: a selection needs their new ids. *)
instanceIDsTooLate(b) == idMap({})                     \* bug for the mutants
instanceIDs(b) == idMap(IndexerRows(b.indexers))
remapInstanceIDs(b, old) == {instanceIDs(b)[r] : r \in old \cap DOMAIN instanceIDs(b)}

loadSyncProfiles(b) ==
  LET loaded == LoadedTable(b.profiles, ProfileRows(b.profiles), NoProfile) IN
  [p \in Id |-> [loaded[p] EXCEPT !.members = remapInstanceIDs(b, @)]]

(* resolveConnSyncProfile: a legacy selection becomes a profile of its own.   *)
Minting(b) == {l \in Link : b.links[l].scope = "selected" /\ b.links[l].picked # {}}

load(b) ==
  LET profileIDs == idMap(ProfileRows(b.profiles))
      apiKeyIDs == idMap(KeyRowsIn(b.keys)) IN
  \E minted \in [Minting(b) -> Id \ ProfileRows(loadSyncProfiles(b))] :
    /\ \A l, m \in Minting(b) : minted[l] = minted[m] => l = m
    /\ keys' = LoadedTable(b.keys, KeyRowsIn(b.keys), 0)
    /\ indexers' = LoadedTable(b.indexers, IndexerRows(b.indexers), NoSlug)
    /\ profiles' = [p \in Id |->
         IF \E l \in Minting(b) : minted[l] = p
         THEN LET l == CHOOSE m \in Minting(b) : minted[m] = p IN
              [kept |-> TRUE, members |-> remapInstanceIDs(b, b.links[l].picked)]
         ELSE loadSyncProfiles(b)[p]]
    /\ links' = [l \in Link |->
         [profile |-> IF l \in Minting(b) THEN minted[l] ELSE remap(profileIDs, b.links[l].profile),
          key |-> remap(apiKeyIDs, b.links[l].key)]]

(* restore: wipe and load are one transaction, and an import that fails leaves *)
(* these tables alone.                                                       *)
restore ==
  /\ bundle.ready /\ restores < MaxImport /\ restores' = restores + 1
  /\ load(bundle)
  /\ export' = Torn(export)
  /\ UNCHANGED <<bundle, changes>>

BackupNext ==
  \/ ExportProfiles \/ ExportMembers \/ ExportKeys \/ ExportIndexers \/ ExportLinks \/ restore
  \/ \E s \in Slug : AddSlug(s)
  \/ \E r \in Id : DeleteSlug(r) \/ DeleteProfile(r) \/ RevokeKey(r)
  \/ \E m \in SUBSET Id : CreateProfile(m) \/ \E p \in Id : UpdateProfile(p, m)
  \/ \E l \in Link, p \in 0 .. MaxId : SetProfile(l, p)

BackupSpec == BackupInit /\ [][BackupNext]_backupVars

-----------------------------------------------------------------------------
(* The references of the tables hold. *)
BackupTypeOK ==
  /\ indexers \in [Id -> Slug \cup {NoSlug}]
  /\ profiles \in [Id -> [kept : BOOLEAN, members : SUBSET IndexerRows(indexers)]]
  /\ keys \in [Id -> {0} \cup Id]
  /\ links \in [Link -> [profile : {0} \cup ProfileRows(profiles), key : {0} \cup KeyRowsIn(keys)]]
  /\ export.pc \in {"idle", "members", "keys", "indexers", "links"}
  /\ changes \in 0 .. MaxChange /\ restores \in 0 .. MaxImport

(* Unless a change tore its export, a bundle restores every connection with   *)
(* the indexers it fed and the key it held, under whatever ids: none is       *)
(* widened to every indexer, none fed another one's, none given another key  *)
(* (restore.go: load's order, remap, resolveConnSyncProfile).                *)
RestoreFaithful ==
  [][restores' > restores /\ bundle.whole =>
       \A l \in Link : Fed(l)' = bundle.fed[l] /\ KeyHeld(l)' = bundle.held[l]]_backupVars
=============================================================================
