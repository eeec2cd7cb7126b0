# harbrr: formal models

harbrr is a Torznab/Newznab provider. A request names an indexer (a *slug*); the registry resolves
it to a built engine, searches through a cache, and spends the indexer's request budget and circuit
breaker on every call that goes to the tracker. Around that serve path stand the management API, which
changes what the engines were built from, the applications harbrr keeps in step, and a daemon that
has to stop, restart, restore and rotate its key without losing anything. This directory holds TLA+
models of these parts, the TLC configurations that check them, and TLAPS proofs of what matters most.

Paths below are relative to `src/internal/`; `registry/` is `indexer/registry/`.

## 1. Inventory

| component | state it keeps | operations | interacts with |
|---|---|---|---|
| engine cache, `registry/registry.go` (`Resolver`) | `cache[slug]`, `gen[slug]`, `epoch`, one mutex | `resolve`, `buildAdapterAt`, `invalidate`, `InvalidateAll`, `ForgetInstances` | builds read SQLite row by row, outside the mutex |
| management, `registry/manage.go` (`Manager`) | SQLite: instances, settings | `Add`, `Update`, `SetEnabled`, `Delete` | each commits, then calls the Resolver, then the search cache |
| search cache, `registry/searchcache*.go` | SQLite rows, `instanceEpochs`, two singleflight groups, the tuning, counters, the hit window | `search` (hit, miss, bypass), refresh, `storeBestEffort`, purge, flush, cleanup, `UpdateConfig`, `LoadOverrides`, `EnsureDefsFingerprints` | called by the adapter; purged by every mutation |
| negative breaker, `registry/searchcache_breaker.go` | an error and an expiry per instance | `replay`, `trip`, `forget` | inside `fetchLive` and `missPath` |
| request budget, `registry/budget.go` | a counter per instance and kind, in memory and in SQLite | `reserve`, `release`, `MarkQuotaSpent`, `Status`, `ForgetInstance` | around every live search and grab |
| circuit breaker, `registry/circuitbreaker.go`, `adapter.go` | one SQLite row per instance, one mutex | `checkCircuit`, `recordCircuitSuccess`, `escalateCircuit` | after every live call |
| base-URL failover, `registry/failover.go` | last probe time per instance | `maybeFailover`, `failover`, `probe`, `promote` | called by a failing call; writes a setting, so it is a mutation too |
| health and statistics, `registry/manage.go`, `indexerstats.go` | health events, recovery watermarks, instants and counts in memory | `Status`, flush, retention | reads what the adapter records |
| RSS warmer, `registry/warmer.go` | next due time per instance | `TickOnce`, `warmOne` | a bypassing search |
| announce, `registry/searchcache_announce.go`, `app/adapters.go`, `announce/` | window of seen releases, bounded queue | tap, enqueue, push | taps `storeBestEffort` |
| notifications, `notify/` | cooldowns, drain gate, expiry ledger on the indexer's row | dispatch, `Drain`, expiry scan | health sink of the adapter |
| app sync, `appsync/` | a ledger of what each app was sent | sync, reconcile, delete | reads instances; writes *arr applications |
| connections and their keys, `connresource/`, `apps/`, `auth/` | rows of apps, connections, API keys | create, delete, revoke | every key of an app is minted here |
| backup, `backup/`, `web/api/backup_handlers.go` | every table | export, import, reload | an import invalidates every engine |
| secrets, `secrets/`, `database/rotation.go`, `cmd/harbrr` | the key, the keyfile, the canary, sealed columns | start, seal, rotate | every stored credential |
| engines, `indexer/cardigann/`, `indexer/native/` | the login session of one engine | search, login, grab | the live call of the models |
| drivers that write settings, `native/myanonamouse`, `newznab`, `gazellegames` | what the tracker told last | `captureRotatedMamID`, `seedBudget`, `storePasskey` | `persistSetting`, past the engine cache; `Update` writes the same rows |
| grabs, `indexer/registry/`, `web/torznabhttp/` | the key of the tokens | seal, redeem, resolve, fetch | budget and breaker of the indexer |
| paced client, `registry/pacedclient.go` | one limiter per host | `Do` with retries | every request to a tracker |
| feeds, `indexer/core/`, `web/torznabhttp/` | none | `SearchReleases`, `SearchAggregate`, conditional GET | what a consumer is told |
| process, `app/` | the maintenance goroutines, the server | `Run`, shutdown | joins all of the above |

All database work goes through one SQLite connection, so a statement or a transaction is one step.
Foreign keys cascade on delete, and row ids are reused: a row that is added after a delete may have
the id of the deleted one.

**What is hard.** Nothing in the serve path holds a lock across a build, a live call or a database
statement of the cache: correctness rests on generation counters that are read before and compared
after (`gen`, `epoch`, `instanceEpochs`, `resetEpoch`, the period of a reservation, the generation of a
session), on best-effort writes that may fail and are swallowed, on detached goroutines that outlive
their request, and on flights whose followers depend on somebody else's context. Outside it, the hard
part is everything that happens in two places, one after the other: a push and its ledger, a mint and
the row the key is sealed on, a mark and the message it stands for, the two halves of a canary, an
import and what the running process keeps in memory. `PROJECT.json` lists each hazard at its line.

**What makes each part correct.** An engine that a commit superseded is never left in the cache; no
result of superseded settings outlives the purge that follows the commit; a flight's followers do not
share its leader's fate; the budget counts exactly what was sent; every ladder move counts and every
outage is announced once, unless a restart cuts the message off; counters are the sum of their parts;
the status follows the last outcome; a ledger says what the other side was told; one login answers all
who need it; a secret opens under the key in use; a feed contains every release once; and the daemon
always ends, and what it joins ends before its database is closed.

## 2. Modules

| module | models | extends |
|---|---|---|
| `AdapterCache` | the promise of an engine cache, without generations or builds | |
| `Resolver` | `Resolver` and every mutation that supersedes an engine | |
| `SearchCache` | the cache-aside path and the negative breaker, composed with the mutations | `Resolver` |
| `Budget` | `RequestBudget`, one kind of one indexer | |
| `Circuit` | the breaker, the health events it records, and the failover | |
| `CacheCounters`, `HitWindow` | the misses of the cache, the ring of the hit ratio | |
| `Polls` | the cache with its clock, its tuning and the conditional GET | |
| `Health` | `deriveStatus` and the four records behind it | |
| `Warmer`, `Pacing`, `Feeds` | the schedule of warms, the limiter of a host, what a feed serves | |
| `Sessions`, `Logins` | the session of a form-login driver, the login of a Cardigann engine | |
| `Scrape`, `Downloads` | one search of a Cardigann engine, the download link of one release | |
| `Announce` | the tap and the push queue | |
| `AppSync`, `Connections`, `Backup` | sync runs, connections with their keys, export and import | |
| `Keys` | the key at rest, its canary and its rotation | |
| `Shutdown`, `Expiry` | the end of the process, the expiry warnings | |
| `WriteBacks` | the settings that drivers and the operator both write | |
| `Orders` | the order of a loop and the part of a sequence it keeps, for `Scrape` and `Feeds` | |
| `MCServices`, `MCLedgers`, `MCDaemon` | twelve, seven and three of the above as one instance | the modules, `TLC` |
| `MCSearchCache`, `MCCircuit`, `MCPolls`, `MCScrape`, `MCDownloads` | symmetry sets, ladders, inputs, a constraint | the module |
| `ResolverProofs`, `SearchCacheProofs` | theorems of the module named | the module, `TLAPS` |
| `DaemonProofs` | theorems of `Circuit`, `Shutdown`, `Expiry` and `MCDaemon` | `MCDaemon`, `TLAPS` |
| `AppsProofs` | theorems of `Connections` and `AppSync` | the modules, `TLAPS` |
| `LedgersProofs` | theorems of `Budget`, `CacheCounters`, `Announce`, `Health`, `Backup` and `MCLedgers` | `MCLedgers`, `AppsProofs`, `TLAPS` |
| `EnginesProofs` | theorems of `Sessions`, `Logins`, `Scrape`, `Downloads`, `Feeds` | the modules, `TLAPS` |
| `ServicesProofs` | theorems of `Warmer`, `Pacing`, `Keys`, `Polls`, `WriteBacks`, `HitWindow` and `MCServices` | `MCServices`, `ResolverProofs`, `EnginesProofs` |
| `OrdersProofs` | lemmas about orders, parts, concatenations and sums | `Orders`, `TLAPS` |

**Resolver.** One slug. A configuration is three parts a build reads one after the other: the instance
`row`, its `set`tings, and the proxy or solver it `ref`ers to; a commit stamps the parts it writes
with a fresh version, and an engine is the versions it was built from plus its `builtEpoch`. `gen`,
`allEpoch` and `instEpoch` are the three counters of the code. A handler is its commit followed by
its eviction and the three steps of `InvalidateByInstance`; `Add`, the resource edits and a new rate
default stop after the eviction, as the code does. `Crash` keeps the database and loses the rest.
A version is a number because the code compares nothing but generations.

**SearchCache.** One cache key. Every request is a `task` that goes through `search`, `missPath`, a
flight, `fetchLive` and `storeBestEffort` step by step; a refresh is a task of its own with a copy of
the engine. A result is a kind and the versions behind it. Time is left out: a row may be hit or
missed whenever it exists, and the breaker may lapse at any moment, which allows every order the
clock would and a few more. A mutation is the Resolver's step and what it does to rows and breaker.

**Polls.** The other half of the same cache: no epochs, but the clock, the lifetimes with their thin
tier and warm floor, the refresh ahead, hits, stale answers and write-backs, and where the tuning comes
from: the configuration file, `UpdateConfig` in its two steps, an import and its reload, the start with
the check of the definitions' fingerprints. A consumer polls pages of a feed with and without the
freeleech view and keeps its copy with the ETag. `lies` collects what it was told wrongly: a 304
for a document it does not hold, a page served past its tier, a row of a definition that has changed.

**Budget.** The clock counts hours; a call stamps itself before it waits for the mutex, so its period
may be over when it gets it. What the code knowingly does not guard against is recorded in `excused`:
a period reopened by an older stamp or a change of unit, a write that memory or disk lost, a row id
reused under a running call. Exactness is claimed while nothing is excused.

**Circuit.** The circuit row is read and written in two steps under `circuitMu`. A gateway outage is a
kind of its own, because it is recorded as a transport failure and climbs like the others. A recovery is two
steps under the mutex, the write that closes the circuit (`Recover`) and the message (`NotifyRecovery`), with
the stage `telling` between them, where the process may end. `untold` counts outages begun minus messages
handed to the sink, `lost` the messages a restart cut off there; `broken` remembers that a success moved the ladder within
the current streak; `recycled` that a call of a deleted indexer was running when its id was reused.

**CacheCounters, HitWindow.** Of the counters only the misses, which are counted before the call and
taken back when it fails; the others grow under the same code. Rehydration, flush, reset and the
sweep of a deleted indexer are steps between which lookups go on. The ring counts one kind of lookup,
each stamped with the hour it read before it took the mutex.

**Health.** One indexer; the clock counts the seconds the instants are stored in. Searches, grabs,
tests and promotions take place step by step, so that two of them overlap. `masked` says that the
answer no longer can follow: the retention purge took the only record of a failure, or an attempt that
started before another ended reported after it.

**Shutdown, Expiry.** `Run` from the signal on: the server, the maintenance goroutines with their timers and the
last flush, `Drain`, the close of the database; and next to it the work that uses the database. A unit of `Work` has
an `origin`: a `request` of the server, a `tick` of a maintenance goroutine, a detached `refresh` (`triggerSWR`)
or a `job` of the announce workers. A search counts, may have a message for the drain gate, and may leave an
announcement behind; a request may leave a refresh behind. `waiter` is the goroutine of `Drain` in
`dispatchWG.Wait`, which stays there when `Drain` gives up at its deadline. The counts go through the take-out,
the write and the fold-back of the flush. The expiry scan reads the rows, checks each as it was read, marks, and sends.

**Sessions, Logins.** In both a cookie is the number of the login that brought it. `Sessions` is the
driver xspeeds on `CookieSession`: the gate, the generations, the remembered failure, the jar emptied
for a login and restored. `Logins` is the engine's `loginMu` and its `loggedIn` flag; tests log in
beside the mutex.

**Scrape.** `Engine.Search` and the search package, step by step: the login, the paths that serve the
categories, a redirect (followed, asked once more, or taken for a lost session), a page that looks logged out,
the second attempt from nothing, the parse of the rows. A definition is a record of what its author wrote
and a row is one of its kinds: complete, with a word of the title missing, without a field that is needed or
optional, with a match that ran into its time limit, with the date above it or nowhere. Selectors and filters
are not evaluated. `blind` keeps the pages that were no listing and were read as an empty one.

**Downloads.** From the feed that seals a link to the grabs that redeem the token: the session, the request
before, the info hash or the selectors in their order with the test of what each found, the fetch, the look
at the body. `site` is what the tracker shows: what the link leads to, whether there is a hash, a target per
selector; a session may lapse and the daemon restart, which changes a key it does not keep. `Logins`,
`Scrape` and `Downloads` are the same engine seen from three sides; what one hands to the other is a session
that is there or not, and each of the three lets it go at any moment.

**Announce, AppSync, Connections, Backup.** Each is a pair of ledgers. `Announce` has the row a
write-back overwrites and the window of releases; `AppSync` the app's rows, some of them other
tools', and the ledger that is written at the end of a run; `Connections` three tables and the
operations between their transactions; `Backup` the tables before and after, an export that reads one
after the other, and bundles of versions that did not have all references. All of them have the
operator at work meanwhile, failing calls, lost answers and crashes.

**Keys.** The secrets are one row per table, sealed by a key for a row; a start resolves its key in the
order of the code, checks the canary in its two halves or writes it; the rotation plans, re-encrypts
every table in one transaction, and moves the canary.

**Warmer, Pacing, Feeds.** `Warmer` counts ticks and may miss some, as a suspended process does.
`Pacing` has two requests of different indexers to one host, each with up to three attempts and its
budget of pauses. `Feeds` is mostly operators: duplicates and categories dropped, one page cut, pages
merged by date; a consumer reads on while the total promises more. A guid names one release of a catalog. The
limiter of a host may be there before the first of the two requests, with any interval.

**WriteBacks.** The settings of one indexer and its two kinds of writers. `Update` reads all of them, merges and
writes them back in one transaction (`updateInTx`) and evicts the engine afterwards; a driver writes single
settings past the engine cache (`persistSetting`), from an engine that may be evicted meanwhile: MyAnonamouse the
token the tracker rotates, Newznab the caps it found unset, GazelleGames the passkey it learns. A token is the number
of the answer that brought it; a cap is what the account has or what the operator typed. `behind` names why
the stored token may be an older one: two answers captured together, a token the operator replaced under a running
engine, a write that failed, a crash before one. `wrong` collects writes that replace what the driver had seen the
operator choose, and stays empty.

## 3. Runs

| run | states | time | what moves |
|---|---|---|---|
| `CacheCoherence` | 1.6M | 1 min | 2 requests, 1 handler, 1 commit, 1 restart, failing purges; no refresh goroutine, which writes back as a bypass does |
| `MissFlights` | 0.2M | 1.5 min | 2 requests that may be abandoned, 1 refresh, timeouts, the breaker armed; no mutation, which would only split the flights by epoch |
| `Services` | 1.36M | 2.5 min | twelve components one at a time (below) |
| `Ledgers` | 2.2M | 2 min | seven components one at a time, two processes each |
| `Daemon` | 0.25M | 2.5 min | `Circuit`, `Shutdown`, `Expiry`, one at a time, with liveness |

Components that share no state are checked in one run: the variable `moving` picks one of them and the
others stay as they started. That is the same as a run for each, as every property is about one
component; `Differing`, the VIEW of the two safety runs, makes TLC forget the resting ones.

*Services.* The engine cache has 2 requests, 2 handlers, all 7 operations, 2 commits, 1 restart (0.5M
states: the view leaves out the epochs, which nothing here reads, and the engine of a request that only has to
be answered): two builds and two mutations in flight cover every pairwise race, and the second commit
lands between another's commit and eviction. Polls has one consumer, two lifetimes, three seconds, two
definitions, two turns of the world and starts with one release listed (0.4M). Sessions has two requests, three logins, two failures;
Logins the same with two forgotten sessions (93k); Keys three keys and two tables next to
`indexer_settings`; HitWindow a ring of three hours turned four times; Warmer six ticks; Pacing four
instants; Feeds two members and three releases, the aggregate two of each member with dates in any order (70k);
WriteBacks two workers, three tokens, two engines, one operator write and one restart for each of the three drivers
(the second worker is what an overlap needs, the third token tells an older one from the last); Scrape six definitions of one to three paths, six listings and
two lost sessions (68k), so that the session may be lost in both attempts; Downloads seven download blocks, five
targets and a restart (48k). Larger instances of the small ones hold as well:
Pacing with five instants and a budget of three (231k), Warmer with eight ticks (25k), WriteBacks with more tokens,
engines and choices (1.1M).

*Ledgers.* Two calls and limits of 1 per hour or 2 per day with a day of one hour, so that one tick
rolls both periods over; two lookups with a reset, a restart and a reused id; two attempts within a
retention of one second of two; two sync runs over two versions; two operators on two rows of each
table; two write-backs of a page of two releases with a window, a queue and a memory of one each, so
that each of them overflows; two indexers through one import.

*Daemon.* Two calls of two kinds (one climbs, one has a floor and a Retry-After; the gateway outage that pins the
ladder is in `BrokenStreak`), a failover after 1 unit, 2 ticks, 1 restart, and statements that do not fail (the theorems
cover that they may); two units of work with one subject to report, of which the first is a request (`InOrder`);
two dates, lead times of one or two
days, four days, three edits and a crash. Without `InOrder`, which leaves out a first
unit of another kind, the properties of `Shutdown` hold as well (0.3M states, liveness included), and its safety with
three units (1.9M).

State constraints. `Telling` (Ledgers) stops at states where something is excused in Budget or masked in
Health, `NotRecycled` (Daemon) at a reused row id in Circuit: there the properties claim nothing, and
no step takes it back. What those situations lead to is not checked; each is a hazard with a note or
named in section 5. `CacheCoherence` leaves out `add`: with a reused id, two indexers' settings can meet
under one epoch (`Add` bumps none). Deadlock is checked where a model has no end, and not where a
bound or the exit of the process ends it.

Symmetry: requests, handlers and workers in `Services`, the two processes and the releases of an announce in `Ledgers`; there is none in the runs
that check liveness.

**Fairness.** `SearchCache!FairSpec`: weak fairness for the steps of each goroutine, as the Go
scheduler is fair to each, and a live call always returns because the HTTP client has a timeout.
Nothing is assumed of clients, handlers, refresh triggers, the clock or restarts. `Circuit`: the same,
and strong fairness for taking `circuitMu`: a `sync.Mutex` hands itself to a waiter that has starved for a
millisecond. `Shutdown`: weak fairness for every step of `Run`, of the goroutines it joins with their ticks, which end with
their context, and of the way out of the drain gate, but none for requests, refreshes, announcements, sends and the
Wait that `Drain` leaves behind, which may hang; strong fairness for
the reaper to see that it is over, since its select has a ready case each time its timer fires.
`Expiry`: the hourly scan goes on, and strong fairness for the mark, as a write does not fail forever. In
`DaemonSpec` the strong fairness of the three is stated for an action of one or another; as only one
component moves it is the same.

The violation runs each find the counterexample of one finding (section 6) at the smallest bounds that
show it: `RowReadBeforeEpoch` (805 states), `EvictBeforeBump` (338), `LateBreakerTrip` (523), `BrokenStreak`
(6,207), `SyncDrives` (8,504), `DroppedIsRederived` (2,227), `DialsFollowStore` (5,655).

Every property of a passing run has a mutant in `PROJECT.json`: a plausible bug of the code it models,
which the property refutes.

## 4. Proofs

Every invariant and action property the passing runs check is also a theorem, for every number of requests, handlers,
calls, instances, periods, restarts and (Circuit) every ladder and duration that satisfies the named assumptions of
the modules. Each rests on an inductive invariant, and each follows in three steps:
the initial states have it, every action keeps it, and it implies the property. In the list, the invariant comes with
the reason why the property alone is not inductive.

**Engine cache** (`ResolverProofs`). Whether a build may be installed is decided long before it is. `IInv` adds that
`settled` is what the database holds unless an eviction is owed (`VersionsBounded`), that a build whose generation
has not moved has missed nothing that was settled in the parts it has read (`BuildOk`), and the same of an installed
engine (`InstalledOk`). From it follows `EngineIsCurrent`: an installed engine is current once no eviction is owed.
`Refinement` maps `db.ver` to the configuration and shows every step to be a `Commit`, `Evict`, `Install` or stutter
of `AdapterCache`; the promise is what the run checks.

**Search cache** (`SearchCacheProofs`). `CacheIsResolver` shows that the composition implements
`Resolver`, so its theorems carry over. `CInv` adds the shape of a task at each stage, what an epoch
snapshot entitles an engine to (`Snapshots`), the same for the row and for an answer. Its heart is that
a commit of settings is always followed by a bump before the purge is done, and that the snapshot comes
before the settings are read. `HealthyNotCanceled` is inductive beside `CInv`: a follower of a canceled leader joins once
more and then goes on its own (`CompleteSpares`). The theorems that mention
`"add" \notin Op` need it for the reason in section 3.

**Daemon** (`DaemonProofs`). *Circuit*: `CInv` adds that whoever is between the read and the write holds the mutex
and still sees the row (`ReadOk`), that only the holder can be between the write of a recovery and its message, and that a probing call is the one that stamped the gate, within
`failoverProbeTimeout` of it (`ProbeOk`), which is shorter than `failoverRetry` by assumption
(30 seconds and 30 minutes in the code). *Shutdown*: `SInv` ties the drain gate to who may still add to the WaitGroup
and when `Drain`'s Wait goes on without it (`GateInv`), each stage of `Run` to what it has joined and what is left to
the kinds nobody joins (`ExitInv`), a subject to its open window, and
the counts to where they are (`CountInv`). It assumes that there is a subject. *Expiry*: `ExpiryInv` is the types, that
the ledger on the row is for the date it names (`LedgerInv`), and that nothing was repeated.

**Apps** (`AppsProofs`). *Connections*: `ConnInv` adds that keys are minted once and rows refer to mints there
were (`Numbers`), that no key is sealed on two rows (`Distinct`), that every operation still owns the
key it minted (`Owned`), and that a delete revokes the key of the row it removed (`DeleteOk`). *AppSync*: `SyncInv`
says of a run at each stage what it has listed, what is left to push, and what is true of each row it has dealt with
(`CleanOk`): only from the state at the end of every push does it follow that the app agrees at the end of the run.
The rows of an app are numbered without end, so the proof carries their finiteness along.

**Ledgers** (`LedgersProofs`). *Budget*: `BInv` adds what a call under way has charged (`CallOk`), and relates memory,
disk and ledger; a refund of a unit under its own period is then a charge taken back. *CacheCounters*: `CountersInv`
says who owes what to which total. `CountersAgree` is about sums over indexers and cardinalities of lookups, which
`OrdersProofs` proves to move with one summand (`SumChanges`) and with one element; during a reset an indexer that was
not swept yet is counted as before it (`Unswept`). *Health*: `HealthInv` says that the newest success and the newest
failure are on record somewhere (memory, what was saved, the watermark, the events or the hands of an attempt), and
that no event is newer than both. *Announce*: `TapInv` says that what the window or the row remembers was once found
new. *Backup*: `BackupInv` says that what an export has read so far is what the tables hold, unless a change
tore it (`ExportOk`), and that a whole bundle says of each connection what it fed (`BundleOk`); the proof of `restore`
shows that new ids are a bijection of the old ones and that every reference follows it.

**Engines** (`EnginesProofs`). *Sessions*: `SessionInv` says who holds the gate and in which step (`HolderOk`), that a
request in flight carries the cookie and generation of a session there was (`SenderOk`), that a verdict is
about the generation it names (`VerdictsOk`), that no failure is remembered against a newer session
(`NotPoisoned`), and what the jar holds while nobody logs in (`JarMatches`). *Logins*: `LoginsInv` counts: every login so
far, plus those somebody is entitled to (`Entitled`), is paid for by the first one, a failure, a refusal or a test.
*Scrape*: `ScrapeInv` says that at any time `out` is the well-formed and matching rows of the paths that were read, and
that these come before all that are left. *Downloads*: `GrabInv` says what has been asked of the site
at each stage and that the selectors passed over were rightly passed over. *Feeds*: `FeedsInv` says
that each answer is the page of its number and that the answers so far account for themselves; that the pages
reach everything is then a fact about windows of one sequence, and that a merged page lists the releases whose
place it covers is one about concatenations (`PlaceFacts`, the lemmas on `FlattenSeq`).

**Services** (`ServicesProofs`). *Warmer*: `WarmerInv` places the due time on the grid of its target (`OnGrid`).
*Pacing*: `PacingInv` says that tokens granted are an interval apart, whoever sleeps on them, that pauses fit the budget, and
that the limiter is as strict as anybody asked. *Keys*: `KeysInv` says that every secret is sealed under the key the
canary names or there is none, also between the two statements of the canary and while a rotation has only
planned. *Polls*: `PollsInv` says that a client's copy came with its own validator, and of which definition the row is
while the check of a start has, or has not, expired it. *WriteBacks*: `WriteInv` says what the engine that
is about to write was built from, and that a cap is marked before it is stored. *HitWindow*: `WindowInv` says that a
slot holds the hour its stamp names and that every hour of the widest view has its slot, for any size of ring
(facts about division are proved first).

**Compositions.** In `MCServices` and `MCLedgers` one component moves and the others rest: `ServicesAreComponents`
and `LedgersAreComponents` show such a behaviour to be one of each component, so `ServicesAreSafe` and `LedgersAreSafe` state
everything those runs check of the specification they run (`LedgersAreSafe` without the constraint). `DaemonIsSafe` does the same for
`MCDaemon` from the conjunction of the invariants.

**Orders.** The library's `SetToSortSeq` and `SelectSeq` cannot be expanded by the prover, and one of them is
recursive; `Orders` states both by cardinalities, and `OrdersProofs` proves once what the modules need: the order
enumerates its set without repetition, what is picked keeps its order, the place of an element, the length and
elements of a concatenation, and how a sum over a function moves with one summand.

Only model-checked: the four liveness properties (`EveryRequestAnswered`, `EveryCallReturns`, `ShutdownEnds`,
`LapseAnnounced`), which need fairness and ENABLED, beyond this prover; and the seven statements the code violates.

## 5. Not modelled, and what is next

Left out of a module on purpose, where the code has no guard and a property would only restate it, or what a reader may want to know:

* Budget: a failed first read counts from zero; a stamp taken before the mutex; a recycled row id.
* CacheCounters: a delete that sweeps an instance while a lookup of it runs (`raced`). The counts
  and category deltas of an indexer that was deleted are dropped for good (Shutdown keeps no indexers apart).
* Shutdown: what is counted after the last flush is lost with the process. Nobody joins the detached refreshes
  (`registry/searchcache.go:757`), bounded by `swrRefreshTimeout`, and the announce workers (`app/adapters.go:121`),
  bounded by `announcePushTimeoutMax`: while `Drain` waits, after it and after the close, a refresh may search, store and
  hand a message to `dispatchHealthAsync`, and a worker may read its rows and push; statements after the close
  fail and are logged. `CleanExit` says that beyond requests that were given up on nothing else does. `Drain`
  leaves its goroutine in `dispatchWG.Wait` at its deadline and opens the gate again, so that such work may
  Add under that Wait, which `sync.WaitGroup` forbids; `AddNeverRacesWait` excepts it (`gaveUp`). The refresh of
  the Newznab caps (`native/nzbcaps.go:131`) may outlive its waiters too, but under the context of the first of
  them; it is left out. An expiry scan dispatches in line and is a tick like others.
* Circuit: a process that ends between the write that closes the circuit (`registry/adapter.go:424`) and the message
  (`:429`) never sends it: the next success finds the baseline. `OneMessagePerOutage` counts these in
  `lost`. A message counts as sent when the sink has it; a cooldown or the drain may still drop it (Shutdown).
  What follows when a row id is reused under a running call is cut off (`NotRecycled`).
* Health: the retention purge that takes the last record of a failure (`masked`).
* AppSync: what a crash or two runs at once did to an app (`astray`, `overlapped`); a row id SQLite gives to
  another indexer while a run is under way.
* Connections: keys of operations that were cut off, or revoked for another key under a reused id, are
  reported by the code and excused here (`cutOff`, `mistaken`, `reported`). A failure that is only logged counts
  as reported, and `revokeOrphan` runs on the context of the request, so it may fail because the client left.
* Backup: an export that is torn by changes in the middle; it may widen a connection to every indexer.
* Keys: a rotation while the daemon is up, which the command tells the operator not to run. Which tables hold secrets
  is assumed (`SecretSurfaces` is all of them), not derived from the schema: the property covers what happens to a
  table that is listed, and only the mutant shows what forgetting one does.
* Warmer: a failed read of a setting or of the list prunes a target and seeds it anew; a changed interval
  takes effect when the old due time falls.
* Logins: a logged-in page without the selector, an anonymous cookie from a landing page.
* Downloads: a grab never logs in again, so it fails until a search has renewed the session. The native drivers
  resolve and fetch in ways of their own; one of them passes the content type of the tracker on, and a body
  it calls HTML is not looked at before it is served.
* Scrape: a match that runs into its time limit inside a filter of a date header or in an optional field is
  swallowed, where the comment of `isSkippableRowError` wants it loud; an XML path that is redirected with an HTML
  body logs in again, where the comment of `resolveRedirect` says it does not; a definition without a login whose
  site redirects for good gets one more request and then reports an empty success (`search/redirect.go:31`).
* Polls: drivers that page (a key per page), `If-None-Match: *`, a feed title that was renamed, failing reads of the
  boot, the rate default, the adult categories and the log level, which the same reload sets.
* WriteBacks: overlapping answers of MyAnonamouse (`behind`); the comment of `captureRotatedMamID` wants them serialized
  by the paced client (`native/myanonamouse/auth.go:113`), which only spaces them. An engine that was evicted may
  persist over what the operator has just entered. Both leave an older token in the store until the
  next one is stored.
* Feeds: a catalog that changes while it is read, upstream page caps below the limit, the union of the
  capabilities, the mapping of queries.

Not modelled for good: rendering, parsing and encoding (Torznab XML, the selectors and filters of the
Cardigann language, tracker responses, API DTOs), cryptography, third-party clients, the web UI, the
smoke test. They are data transformations or calls whose other side is elsewhere; and they are most of
the repository's lines, which is why a small part of it is mapped.

Next: more compositions of components that share state, of which `CacheIsResolver` is the only one so far. The adapter
around a live call (`Budget`, `Circuit` and `SearchCache` in one call) would be the second, with the order
of reservation, breaker and cache as its subject. `RowsMatchSettings` holds without `add`; what holds with a reused
id deserves its own statement. `Connections!Update` and the announce connections of a bundle are left out, and so are
the grabs of the native drivers.

## 6. Findings

Statements of the repository that the models refute; each run reports the trace.

* `RowCoherent`: the instance row is read before the epoch snapshot (`registry.go:538`, `:559`).
* `InstalledCanStore`: engines are evicted before the epoch is bumped (`manage.go:499`), so an engine
  built in between is installed and its results are never cached.
* `BreakerCoherent`: a late failure opens the breaker again after a purge (`searchcache.go:353`).
* `StreakIsUnbroken`: a success above the first rung keeps `InitialFailure` (`circuitbreaker.go:127`),
  so a failover may follow an interrupted streak.
* `SyncDrives`: a sync run that was cut off, followed by a change back, leaves the app with a configuration
  that no later run corrects (`appsync/reconcile.go:75`).
* `DroppedIsRederived`: a release dropped at a full queue is marked and stored, so the next poll does not find
  it again (`app/adapters.go:156`).
* `DialsFollowStore`: after an import, a knob that the bundle does not name keeps its running value, while
  the store and the next start have another (`registry/searchcache_config.go:203`).

## 7. Running

    tlc -workers 2 -config Ledgers.cfg MCLedgers
    tlapm SearchCacheProofs.tla

The passing runs take between one and three minutes, the others seconds. A proof module takes from under a minute
(`ResolverProofs`, `DaemonProofs`) to about ten (`ServicesProofs`) the first time.
