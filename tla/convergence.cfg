SPECIFICATION FairSpec
CONSTANTS
  None = None
  Keys = {k1}
  OrderIds = {o1}
  Qty = 2
  Live = TRUE
  Auths = {a1}
  Sells = {}
  Prohibited = {}
  Workers = {w1, w2}
  Ops = {"submit", "recover", "reconcile", "activate"}
  ProviderResults <- Filling
  Anomalies = {}
  ProviderSnapshot <- Flat
  EngineLimits = 4
  Deposits = {}
  NewLimits = {}
  MaxVersion = 0
  MayExpire = {}
  CrashOps = {"submit"}
PROPERTIES
  OutcomesBecomeKnown
\* The system may stop: nobody has to make another call.
CHECK_DEADLOCK FALSE
