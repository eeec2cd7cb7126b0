SPECIFICATION AnnounceSpec
CONSTANTS
  Fill = {f1}
  Guid = {g1, g2}
  Window = 1
  MaxSeen = 1
  QueueCap = 1
  MaxTapClock = 1
  MaxAnnFault = 1
INVARIANT DroppedIsRederived
CHECK_DEADLOCK FALSE
