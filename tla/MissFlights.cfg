CONSTANTS
  Req = {r1, r2}
  Mut = {m1}
  Swr = {s1}
  Fickle = {r1, r2}
  Op = {}
  NegativeTTL = TRUE
  Slow = TRUE
  DbFails = FALSE
  MaxCommit = 0
  MaxCrash = 0
  None = None
SPECIFICATION FairSpec
INVARIANT HealthyNotCanceled
PROPERTY EveryRequestAnswered
