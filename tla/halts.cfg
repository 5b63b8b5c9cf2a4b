SPECIFICATION Spec
CONSTANTS
  None = None
  Keys = {k1}
  OrderIds = {o1}
  Qty = 2
  Live = FALSE
  Auths = {}
  Sells = {}
  Prohibited = {}
  Workers = {w1, w2}
  Ops = {"reconcile", "discover", "enforce", "clear_halt", "halt"}
  ProviderResults <- Filling
  Anomalies <- Strays
  ProviderSnapshot <- Flat
  EngineLimits = 4
  Deposits = {}
  NewLimits = {}
  MaxVersion = 0
  MayExpire = {}
  CrashOps = {}
SYMMETRY WorkerSymmetry
INVARIANTS
  HaltsAudited
\* The system may stop: nobody has to make another call.
CHECK_DEADLOCK FALSE
