SPECIFICATION LedgersSpec
CONSTANTS
  p1 = p1
  p2 = p2
  Call = {p1, p2}
  Plan <- Plans
  HoursPerDay = 1
  MaxClock = 1
  MaxCharge = 2
  MaxRestart = 1
  NoLimit = NoLimit
  NoPeriod = NoPeriod
  NotLoaded = NotLoaded
  NoRow = NoRow
  Lookup = {p1, p2}
  Inst = {i1}
  MaxMiss = 1
  MaxReset = 1
  MaxBoot = 1
  MaxAdd = 1
  Nobody = Nobody
  Attempt = {p1, p2}
  Retention = 1
  MaxNow = 2
  MaxEvent = 2
  MaxAttempt = 3
  MaxRelaunch = 1
  Sync = {p1, p2}
  Indexer = {x1}
  MaxConf = 2
  MaxRemote = 3
  MaxEdit = 2
  MaxSyncFault = 2
  MaxSync = 3
  Foreign = Foreign
  Op = {p1, p2}
  Identity = {"sonarr", "qui"}
  MaxRow = 2
  MaxMint = 3
  MaxTrouble = 2
  Fill = {p1, p2}
  Guid = {g1, g2}
  Window = 1
  MaxSeen = 1
  QueueCap = 1
  MaxTapClock = 1
  MaxAnnFault = 1
  Slug = {"a", "b"}
  Link = {l1}
  MaxId = 2
  MaxChange = 1
  MaxImport = 1
SYMMETRY Symmetry
VIEW Differing
INVARIANTS LedgersTypeOK CounterIsExact WithinLimit CountersAgree StatusFollows
           LedgerFaithful SyncAgrees KeysAccounted AnnouncedOnce
PROPERTIES SpentIsFinal RestoreFaithful
CONSTRAINT Telling
CHECK_DEADLOCK FALSE
