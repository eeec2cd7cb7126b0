CONSTANTS
  Req = {r1, r2}
  Mut = {m1}
  Swr = {}
  Fickle = {}
  Op = {"update", "promote", "enable", "delete", "restore", "resource"}
  NegativeTTL = FALSE
  Slow = FALSE
  DbFails = TRUE
  MaxCommit = 1
  MaxCrash = 1
  None = None
SPECIFICATION CacheSpec
SYMMETRY Symmetry
INVARIANTS CacheTypeOK SettingsCoherent FlightIsFresh
