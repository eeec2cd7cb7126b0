------------------------------- MODULE Polls -------------------------------
(***************************************************************************)
(* What a consumer that polls a feed is told: the search cache with its    *)
(* clock (registry/searchcache.go, searchcache_ttl.go), the tuning it is   *)
(* read under and where that comes from (searchcache_config.go), the check *)
(* of the definitions at a start, and the conditional GET on top           *)
(* (torznabhttp/cacheinfo.go).                                             *)
(*                                                                         *)
(* One indexer whose driver does not page, and its RSS polls, which all    *)
(* have one cache key.  The freeleech feed and the full one are views of   *)
(* the same row.  Epochs, flights and cancellation are SearchCache's; here *)
(* a miss is two steps and the time it takes matters.  A definition is a   *)
(* number, and stands for its fingerprint.                                 *)
(***************************************************************************)
EXTENDS Integers, SequencesExt

CONSTANTS
  Client,        \* consumers
  Listing,       \* what the tracker may list: sequences of releases
  Freeleech,     \* releases with a download factor of 0
  FeedLimit,     \* releases on a page
  PageOffset,    \* offsets consumers ask for
  TTL,           \* values of cache.rss_ttl
  Patch,         \* what an operator may ask for
  Bundle,        \* the app_settings of backups: cache.* rows and fingerprint
  Seed,          \* the tuning of the configuration file
  ThinTTL, ThinThreshold, RefreshAheadPct,
  Setting,       \* the indexer's resolved settings
  LastDef,       \* definitions are 1 .. LastDef
  LastSecond,    \* bound on the clock
  MaxTurn,       \* bound: listings, updates, imports and restarts
  Absent,        \* a key that app_settings does not hold
  NothingCached, NoCopy, NoUpdate

View == [enabled : BOOLEAN, rss : TTL]
Overrides == [enabled : BOOLEAN \cup {Absent}, rss : TTL \cup {Absent}]

ASSUME PollsAssumption ==
  /\ FeedLimit \in Nat \ {0} /\ TTL \subseteq Nat \ {0}
  /\ PageOffset \subseteq Nat /\ 0 \in PageOffset
  /\ ThinTTL \in Nat \ {0} /\ ThinThreshold \in Nat /\ RefreshAheadPct \in 0 .. 100
  /\ Seed \in View
  /\ Patch \subseteq Overrides /\ Bundle \subseteq [rows : Overrides, fp : 0 .. LastDef]
  /\ \A s \in Setting : s \in [override : Nat, warm : Nat]
  /\ LastDef \in Nat \ {0} /\ {LastSecond, MaxTurn} \subseteq Nat

VARIABLES
  second,       \* the time
  listed,       \* what the tracker lists now
  settings,     \* the indexer's cache_ttl and rss_warm_interval, 0 for unset
  def,          \* the definition this process runs
  tuning,       \* SearchCache.tuning
  appSettings,  \* the cache.* rows of app_settings
  fingerprint,  \* the stored fingerprint, 0 for none
  cached,       \* the search_cache row
  update,       \* what UpdateConfig is about to swap in; it holds cfgMu
  reseed,       \* the end of an import: committed (tx), app_settings read
  boot,         \* "check", "expired", "up"
  poll,         \* the request of each client that has gone past the row
  refresh,      \* whether a detached refresh is under way
  copy,         \* the last body of each client, with its validator
  turns,
  lies          \* history: what an answer got wrong

pollsVars == <<second, listed, settings, def, tuning, appSettings, fingerprint, cached,
               update, reseed, boot, poll, refresh, copy, turns, lies>>
configVars == <<tuning, appSettings, update, reseed>>

FeedRequest == [full : BOOLEAN, offset : PageOffset]
NothingStored == [enabled |-> Absent, rss |-> Absent]
NoReseed == [stage |-> "no", rows |-> NothingStored]
NoPoll == [path |-> "idle", feed |-> [full |-> FALSE, offset |-> 0], fresh |-> FALSE]

PollsTypeOK ==
  /\ second \in Nat /\ listed \in Listing /\ settings \in Setting
  /\ def \in 1 .. LastDef /\ fingerprint \in 0 .. LastDef
  /\ tuning \in View /\ appSettings \in Overrides
  /\ cached = NothingCached \/
       cached \in [releases : Listing, at : Nat, till : Nat, def : 1 .. LastDef, traced : BOOLEAN]
  /\ update \in View \cup {NoUpdate} /\ reseed \in [stage : {"no", "tx", "read"}, rows : Overrides]
  /\ boot \in {"check", "expired", "up"}
  /\ poll \in [Client -> [path : {"idle", "flight", "bypass", "off", "orphan"},
                          feed : FeedRequest, fresh : BOOLEAN]]
  /\ refresh \in BOOLEAN /\ turns \in Nat /\ lies \subseteq {"body", "age", "definition"}

(* Every key that is present replaces the knob it names.                   *)
Overlay(view, kv) == [k \in DOMAIN view |-> IF kv[k] = Absent THEN view[k] ELSE kv[k]]
AtBoot(kv) == Overlay(Seed, kv)

PollsInit ==
  /\ second = 0 /\ listed \in Listing /\ settings \in Setting
  /\ def = 1 /\ fingerprint = 0
  /\ appSettings = NothingStored /\ tuning = AtBoot(appSettings)
  /\ cached = NothingCached /\ update = NoUpdate /\ reseed = NoReseed /\ boot = "check"
  /\ poll = [c \in Client |-> NoPoll] /\ refresh = FALSE
  /\ copy = [c \in Client |-> NoCopy] /\ turns = 0 /\ lies = {}

-----------------------------------------------------------------------------
(* How long a result is good for.                                          *)

Least(a, b) == IF a < b THEN a ELSE b
Most(a, b) == IF a < b THEN b ELSE a

resolveTTL(count) ==
  LET base == IF settings.override > 0 THEN settings.override ELSE tuning.rss
      thinned == IF count <= ThinThreshold THEN Least(base, ThinTTL) ELSE base
  IN Most(settings.warm, thinned)

(* A tier that was lowered since binds the row, one that was raised does not. *)
effectiveExpiry(row) == Least(row.till, row.at + resolveTTL(Len(row.releases)))

(* The row is there, unexpired as stored, and under the tuning of now.      *)
Fetched == cached # NothingCached /\ cached.till > second
Good == Fetched /\ effectiveExpiry(cached) > second

shouldRefreshAhead ==
  LET lifetime == effectiveExpiry(cached) - cached.at
  IN /\ RefreshAheadPct > 0 /\ lifetime > 0
     /\ (second - cached.at) * 100 >= lifetime * RefreshAheadPct

-----------------------------------------------------------------------------
(* The document and its validator.                                         *)

Shown(feed, releases) ==
  IF feed.full THEN releases ELSE SelectSeq(releases, LAMBDA r : r \in Freeleech)

Page(feed, releases) ==
  LET view == Shown(feed, releases)
  IN [releases |-> SubSeq(view, feed.offset + 1, Least(feed.offset + FeedLimit, Len(view))),
      offset |-> feed.offset,
      total |-> Len(view)]

(* The validator hashes the page that is served; neither it nor the body has *)
(* anything of the client in it.                                            *)
pagedETagOfPage(feed, page) ==                                      \* mutant
  [bypass |-> feed.full, releases |-> page.releases, offset |-> page.offset,
   limit |-> FeedLimit]
pagedETag(feed, page) ==
  [bypass |-> feed.full, releases |-> page.releases, offset |-> page.offset,
   limit |-> FeedLimit, total |-> page.total]

(* A 304 leaves the client with the copy it asked about, of whatever feed;  *)
(* an answer that no row backs has no validator.                            *)
Respond(c, p, releases, backed, faults) ==
  LET page == Page(p.feed, releases)
      etag == pagedETag(p.feed, page)
      unchanged == backed /\ ~p.fresh /\ copy[c] # NoCopy /\ copy[c].etag = etag
  IN /\ copy' = [copy EXCEPT ![c] =
          IF unchanged THEN @ ELSE IF backed THEN [etag |-> etag, body |-> page] ELSE NoCopy]
     /\ lies' = lies \cup faults \cup IF unchanged /\ copy[c].body # page THEN {"body"} ELSE {}

(* What a row must not be when it is served as good: past the tier, or of   *)
(* another definition although the check of this start has gone through.    *)
RowFaults ==
  (IF second >= cached.at + resolveTTL(Len(cached.releases)) THEN {"age"} ELSE {}) \cup
  (IF cached.def # def /\ cached.traced /\ fingerprint = def THEN {"definition"} ELSE {})

-----------------------------------------------------------------------------
(* A poll.                                                                 *)

Go(c, p) == poll' = [poll EXCEPT ![c] = p]
NewPoll(path, feed, fresh) == [path |-> path, feed |-> feed, fresh |-> fresh]
worldVars == <<second, listed, settings, def, turns, boot, fingerprint>>

(* Served at once, and refreshed behind the consumer's back when it is late. *)
ServeHit(c, feed) ==
  /\ boot = "up" /\ poll[c] = NoPoll
  /\ tuning.enabled /\ Good
  /\ Respond(c, NewPoll("flight", feed, FALSE), cached.releases, TRUE, RowFaults)
  /\ refresh' = (refresh \/ shouldRefreshAhead)
  /\ UNCHANGED <<worldVars, configVars, cached, poll>>

(* Off, told not to use the cache, or nothing good in it.                   *)
MissOrBypass(c, feed, fresh) ==
  LET path == IF ~tuning.enabled THEN "off" ELSE IF fresh THEN "bypass" ELSE "flight" IN
  /\ boot = "up" /\ poll[c] = NoPoll
  /\ path = "flight" => ~Good
  /\ Go(c, NewPoll(path, feed, fresh))
  /\ UNCHANGED <<worldVars, configVars, cached, refresh, copy, lies>>

(* The flight looks again before it asks the tracker, and finds a good row.  *)
DoubleCheckHit(c) ==
  /\ poll[c].path = "flight" /\ Good
  /\ Respond(c, poll[c], cached.releases, TRUE, RowFaults)
  /\ Go(c, NoPoll)
  /\ UNCHANGED <<worldVars, configVars, cached, refresh>>

(* The write-back: under the tuning of now, and best-effort.                *)
StoredEntry ==
  [releases |-> listed, at |-> second, till |-> second + resolveTTL(Len(listed)),
   def |-> def, traced |-> fingerprint = def]
StoreBestEffort == cached' \in {cached, StoredEntry}

(* The tracker answers.  An orphan's indexer was replaced by an import: it   *)
(* has no row to read or to write.                                          *)
LiveReturns(c) ==
  /\ poll[c].path # "idle"
  /\ IF poll[c].path \in {"flight", "bypass"} THEN StoreBestEffort ELSE UNCHANGED cached
  /\ \E backed \in CASE poll[c].path = "off" -> {FALSE}
                     [] poll[c].path = "orphan" -> BOOLEAN
                     [] OTHER -> {TRUE} :
       Respond(c, poll[c], listed, backed, {})
  /\ Go(c, NoPoll)
  /\ UNCHANGED <<worldVars, configVars, refresh>>

(* The budget is spent: whatever was last stored is better than nothing,    *)
(* unless the consumer declined it.                                         *)
ServeStale(c) ==
  /\ poll[c].path = "flight" /\ cached # NothingCached
  /\ Respond(c, poll[c], cached.releases, TRUE, {})
  /\ Go(c, NoPoll)
  /\ UNCHANGED <<worldVars, configVars, cached, refresh>>

PollFails(c) ==
  /\ poll[c].path # "idle"
  /\ Go(c, NoPoll)
  /\ UNCHANGED <<worldVars, configVars, cached, refresh, copy, lies>>

RefreshEnds ==
  /\ refresh /\ refresh' = FALSE
  /\ StoreBestEffort
  /\ UNCHANGED <<worldVars, configVars, poll, copy, lies>>

-----------------------------------------------------------------------------
(* The tuning.                                                             *)

pollVars == <<cached, poll, refresh, copy, lies>>

(* UpdateConfig under cfgMu: only the keys it was given are persisted, then  *)
(* the merged view is swapped in.                                           *)
PersistConfig(patch) ==
  /\ boot = "up" /\ update = NoUpdate /\ turns < MaxTurn
  /\ appSettings' = Overlay(appSettings, patch)
  /\ update' = Overlay(tuning, patch)
  /\ turns' = turns + 1
  /\ UNCHANGED <<second, listed, settings, def, boot, fingerprint, tuning, reseed, pollVars>>

SwapConfig ==
  /\ update # NoUpdate
  /\ tuning' = update /\ update' = NoUpdate
  /\ UNCHANGED <<worldVars, appSettings, reseed, pollVars>>

(* An import replaces app_settings, the stored fingerprints among them, and  *)
(* the indexers, whose rows go with them.                                   *)
ImportCommits(bundle) ==
  /\ boot = "up" /\ reseed = NoReseed /\ turns < MaxTurn
  /\ appSettings' = bundle.rows /\ fingerprint' = bundle.fp
  /\ reseed' = [NoReseed EXCEPT !.stage = "tx"]
  /\ cached' = NothingCached /\ refresh' = FALSE
  /\ poll' = [c \in Client |->
       IF poll[c].path \in {"flight", "bypass"}
       THEN [poll[c] EXCEPT !.path = "orphan"] ELSE poll[c]]
  /\ turns' = turns + 1
  /\ UNCHANGED <<second, listed, settings, def, boot, tuning, update, copy, lies>>

(* LoadOverrides: the rows are read before cfgMu is taken, and laid over the *)
(* tuning that is live.                                                     *)
ReseedReads ==
  /\ reseed.stage = "tx" /\ reseed' = [stage |-> "read", rows |-> appSettings]
  /\ UNCHANGED <<worldVars, tuning, appSettings, update, pollVars>>

LoadOverrides ==
  /\ reseed.stage = "read" /\ update = NoUpdate
  /\ tuning' = Overlay(tuning, reseed.rows) /\ reseed' = NoReseed
  /\ UNCHANGED <<worldVars, appSettings, update, pollVars>>

-----------------------------------------------------------------------------
(* A start, and the rest of the world.                                     *)

(* A crash or an upgrade, at any moment: the rows and app_settings are kept. *)
RestartWith(d) ==
  /\ turns < MaxTurn /\ turns' = turns + 1
  /\ def' = d /\ boot' = "check" /\ tuning' = AtBoot(appSettings)
  /\ update' = NoUpdate /\ reseed' = NoReseed /\ refresh' = FALSE
  /\ poll' = [c \in Client |-> NoPoll]
  /\ UNCHANGED <<second, listed, settings, appSettings, fingerprint, cached, copy, lies>>

(* EnsureDefsFingerprints: rows of another definition are expired, not       *)
(* deleted, before the new fingerprint is stored.  A first start has nothing *)
(* to compare with.                                                         *)
ExpireChangedDefs ==
  /\ boot = "check" /\ boot' = "expired"
  /\ cached' = IF fingerprint \notin {0, def} /\ Fetched
               THEN [cached EXCEPT !.till = second] ELSE cached
  /\ UNCHANGED <<second, listed, settings, def, turns, fingerprint, configVars, poll, refresh,
                 copy, lies>>

PersistFingerprint ==
  /\ boot = "expired" /\ boot' = "up"
  /\ fingerprint' = def
  /\ UNCHANGED <<second, listed, settings, def, turns, configVars, pollVars>>

(* A failure is logged and the process serves all the same.                 *)
CheckFails ==
  /\ boot \in {"check", "expired"} /\ boot' = "up"
  /\ UNCHANGED <<second, listed, settings, def, turns, fingerprint, configVars, pollVars>>

TrackerLists(l) ==
  /\ turns < MaxTurn /\ turns' = turns + 1
  /\ listed' = l /\ l # listed
  /\ UNCHANGED <<second, settings, def, boot, fingerprint, configVars, pollVars>>

TimePasses ==
  /\ second < LastSecond /\ second' = second + 1
  /\ UNCHANGED <<listed, settings, def, turns, boot, fingerprint, configVars, pollVars>>

PollsNext ==
  \/ \E c \in Client :
       \/ \E feed \in FeedRequest :
            ServeHit(c, feed) \/ \E b \in BOOLEAN : MissOrBypass(c, feed, b)
       \/ DoubleCheckHit(c) \/ LiveReturns(c) \/ ServeStale(c) \/ PollFails(c)
  \/ RefreshEnds \/ SwapConfig \/ ReseedReads \/ LoadOverrides
  \/ \E patch \in Patch : PersistConfig(patch)
  \/ \E bundle \in Bundle : ImportCommits(bundle)
  \/ \E d \in 1 .. LastDef : RestartWith(d)
  \/ ExpireChangedDefs \/ PersistFingerprint \/ CheckFails
  \/ \E l \in Listing : TrackerLists(l)
  \/ TimePasses

PollsSpec == PollsInit /\ [][PollsNext]_pollsVars

-----------------------------------------------------------------------------
(* An answer is true: a 304 leaves the consumer with the document a full    *)
(* answer would have carried, page, offset and total; and except for the    *)
(* stale answer of a spent budget, nothing is served past the lifetime the  *)
(* tuning of that moment grants it, nor out of a definition whose change    *)
(* the start has checked (revalidate, serveHit, missFlight,                 *)
(* EnsureDefsFingerprints).                                                 *)
PollsAreTrue == lies = {}

(* What the comment of reseedAppSettings promises: once no update and no     *)
(* import is under way, the tuning is what a restart would load             *)
(* (web/api/backup_handlers.go).                                            *)
DialsFollowStore ==
  boot = "up" /\ update = NoUpdate /\ reseed = NoReseed => tuning = AtBoot(appSettings)
=============================================================================
