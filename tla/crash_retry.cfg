SPECIFICATION Spec
CONSTANTS
  None = None
  Keys = {k1, k2, k3}
  OrderIds = {o1, o2}
  Qty = 2
  Live = TRUE
  Auths = {a1}
  Sells = {k2}
  Prohibited = {k3}
  Workers = {w1}
  Ops = {"submit", "prepare", "recover", "reconcile", "discover", "activate"}
  ProviderResults <- Filling
  Anomalies = {}
  ProviderSnapshot <- Long
  EngineLimits = 4
  Deposits = {}
  NewLimits = {}
  MaxVersion = 0
  MayExpire = {}
  CrashOps = {"submit", "recover", "reconcile"}
INVARIANTS
  SingleContact
  WriteAhead
  RiskEqualsExecuted
\* The system may stop: nobody has to make another call.
CHECK_DEADLOCK FALSE
