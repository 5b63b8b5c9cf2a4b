SPECIFICATION Spec
CONSTANTS
  None = None
  Keys = {k1}
  OrderIds = {o1, o2}
  Qty = 2
  Live = FALSE
  Auths = {}
  Sells = {}
  Prohibited = {}
  Workers = {w1}
  Ops = {"submit", "recover", "reconcile", "discover"}
  ProviderResults <- Filling
  Anomalies <- Strays
  ProviderSnapshot <- Flat
  EngineLimits = 4
  Deposits = {}
  NewLimits = {}
  MaxVersion = 0
  MayExpire = {}
  CrashOps = {}

  
PROPERTIES
  ImplementsLifecycle
\* The system may stop: nobody has to make another call.
CHECK_DEADLOCK FALSE
