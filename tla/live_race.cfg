SPECIFICATION Spec
CONSTANTS
  None = None
  Keys = {k1}
  OrderIds = {o1}
  Qty = 2
  Live = TRUE
  Auths = {a1}
  Sells = {}
  Prohibited = {}
  Workers = {w1, w2}
  Ops = {"submit", "recover", "reconcile", "discover", "activate"}
  ProviderResults <- Working
  Anomalies = {}
  ProviderSnapshot <- Flat
  EngineLimits = 4
  Deposits = {}
  NewLimits = {}
  MaxVersion = 0
  MayExpire = {}
  CrashOps = {"submit"}
SYMMETRY WorkerSymmetry
INVARIANTS
  TypeOK
  AuditMatchesState
  CanCatchUp
  AlwaysHealthy
  NoFalseOrphan
  RiskEqualsExecuted
PROPERTIES
  ImplementsLifecycle
\* The system may stop: nobody has to make another call.
CHECK_DEADLOCK FALSE
