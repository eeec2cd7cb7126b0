CONSTANTS
  Client = {c1}
  Listing <- Listings
  Freeleech = {1}
  FeedLimit = 1
  PageOffset = {0}
  TTL = {1, 2}
  Patch <- Patches
  Bundle <- Bundles
  Seed <- SeedView
  ThinTTL = 1
  ThinThreshold = 1
  RefreshAheadPct = 50
  Setting <- Settings
  LastDef = 1
  LastSecond = 1
  MaxTurn = 2
  Absent = Absent
  NothingCached = NothingCached
  NoCopy = NoCopy
  NoUpdate = NoUpdate
SPECIFICATION PollsSpec
INVARIANT DialsFollowStore
CHECK_DEADLOCK FALSE
