CONSTANTS
  Req = {r1}
  Mut = {m1}
  Swr = {}
  Fickle = {}
  Op = {"update"}
  NegativeTTL = FALSE
  Slow = FALSE
  DbFails = FALSE
  MaxCommit = 1
  MaxCrash = 0
  None = None
SPECIFICATION CacheSpec
INVARIANT RowCoherent
