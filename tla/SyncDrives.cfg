SPECIFICATION AppSyncSpec
CONSTANTS
  Sync = {s1}
  Indexer = {x1}
  MaxConf = 2
  MaxRemote = 3
  MaxEdit = 2
  MaxSyncFault = 1
  MaxSync = 3
  Foreign = Foreign
INVARIANT SyncDrives
CHECK_DEADLOCK FALSE
