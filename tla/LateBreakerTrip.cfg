CONSTANTS
  Req = {r1}
  Mut = {m1}
  Swr = {}
  Fickle = {}
  Op = {"update"}
  NegativeTTL = TRUE
  Slow = FALSE
  DbFails = FALSE
  MaxCommit = 1
  MaxCrash = 0
  None = None
SPECIFICATION CacheSpec
INVARIANT BreakerCoherent
