CONSTANTS
  Req = {r1, r2}
  Mut = {m1, m2}
  Op = {"update", "promote", "enable", "delete", "add", "resource", "restore"}
  MaxCommit = 2
  MaxCrash = 1
  None = None
  Client = {u1}
  Listing <- Listings
  Freeleech = {1}
  FeedLimit = 1
  PageOffset = {0, 1}
  TTL = {1, 2}
  Patch <- Patches
  Bundle <- Bundles
  Seed <- SeedView
  ThinTTL = 1
  ThinThreshold = 1
  RefreshAheadPct = 50
  Setting <- Settings
  LastDef = 2
  LastSecond = 3
  MaxTurn = 2
  Absent = Absent
  NothingCached = NothingCached
  NoCopy = NoCopy
  NoUpdate = NoUpdate
  Request = {v1, v2}
  MaxLogin = 3
  MaxFault = 2
  MaxExpire = 2
  NoHolder = NoHolder
  Key = {k1, k2, k3}
  Surface = {"apps", "notifications"}
  NoKey = NoKey
  Plain = Plain
  Torn = Torn
  WindowHours = 3
  LastHour = 12
  MaxLookup = 1
  Feed = {4, 5}
  Interval = {2, 3}
  LastTick = 6
  MaxChange = 2
  Unseeded = Unseeded
  Query = {c1, c2}
  MaxCookie = 3
  MaxRefusal = 1
  MaxForget = 2
  NoQuery = NoQuery
  Doer = {d1, d2}
  Spacing = {1, 2, 3}
  Retry = {0, 2}
  Backoff = 1
  PaceBudget = 2
  LastInstant = 3
  Members = 2
  Guid = {1, 2, 3}
  LastDate = 2
  MaxReleases = 3
  LimitsMax = 2
  FanoutLimit = 2
  Definition <- Definitions
  Cat = {1, 2}
  SiteRows <- RowsListed
  MaxForgotten = 2
  DownloadRule <- DownloadRules
  Target <- Targets
  MaxStart = 2
  Worker = {w1, w2}
  MaxToken = 3
  MaxBuild = 2
  MaxChoice = 1
  MaxLoss = 1
  NoEdit = NoEdit
SPECIFICATION ServicesSpec
SYMMETRY Symmetry
VIEW Differing
INVARIANTS ServicesTypeOK PollsAreTrue LoginsAreSpared StoreOpens
           ViewsAreExact WarmedPerBoundary LoginsSuffice HostIsSpared FeedsWhole
           ScrapeWhole GrabIsFaithful WriteBacksKept
PROPERTY ImplementsAdapterCache
CHECK_DEADLOCK FALSE
