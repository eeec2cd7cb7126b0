CONSTANTS
  Call = {c1}
  Kind = {"gateway"}
  circuitPeriods <- Ladder
  RetryAfter = {0}
  startupGrace = 1
  startupGraceCap = 1
  failoverAfter = 2
  failoverRetry = 2
  failoverProbeTimeout = 1
  DbFails = FALSE
  MaxClock = 5
  MaxRestart = 0
  NoCall = NoCall
SPECIFICATION Spec
PROPERTY StreakIsUnbroken
