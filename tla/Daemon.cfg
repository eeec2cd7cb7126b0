CONSTANTS
  c1 = c1
  c2 = c2
  Call = {c1, c2}
  Kind = {"rate", "transport"}
  circuitPeriods <- Ladder
  RetryAfter = {0, 2}
  startupGrace = 1
  startupGraceCap = 1
  failoverAfter = 1
  failoverRetry = 2
  failoverProbeTimeout = 1
  DbFails = FALSE
  MaxClock = 2
  MaxRestart = 1
  NoCall = NoCall
  r1 = r1
  r2 = r2
  Work = {r1, r2}
  Subject = {s1}
  Date = {2, 3}
  LeadTimes <- Lists
  LastDay = 4
  MaxEdit = 3
  MaxCrash = 1
SPECIFICATION DaemonSpec
INVARIANTS DaemonTypeOK OneMessagePerOutage OneCycleAtATime CleanExit CountsKept
           NeverWarnedAgain
PROPERTIES EveryWriteIsAMove EveryCallReturns AddNeverRacesWait ShutdownEnds LapseAnnounced
CONSTRAINT Bounds
CHECK_DEADLOCK FALSE
