SPECIFICATION Spec
CONSTANTS
  None = None
  Keys = {k1}
  OrderIds = {o1}
  Qty = 2
  Live = TRUE
  Auths = {a1, a2}
  Sells = {}
  Prohibited = {}
  Workers = {w1, w2}
  Ops = {"submit", "halt", "activate", "revoke", "mutate_state", "mutate_limits"}
  ProviderResults <- Filling
  Anomalies = {}
  ProviderSnapshot <- Flat
  EngineLimits = 4
  Deposits = {1}
  NewLimits = {5}
  MaxVersion = 1
  MayExpire = {a2}
  CrashOps = {}
SYMMETRY WorkerSymmetry
INVARIANTS
  RevokedStaysRevoked
  LimitsPinned
  RiskEqualsExecuted
PROPERTIES
  IntentsUnderLiveAuthority
\* The system may stop: nobody has to make another call.
CHECK_DEADLOCK FALSE
