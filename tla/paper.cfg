SPECIFICATION FairSpec
CONSTANTS
  None = None
  Paths <- ShortPaths
  Threshold = 10
  Quantity = 1
  StartingCash = 8
  RiskLimits <- TightLimits
  JevChoices = {TRUE, FALSE}
  JevActions = {"ENTER", "EXIT", "HOLD"}
  Armings = {TRUE, FALSE}
  Environments <- Environments3
  CrashAt <- Anywhere
  MaxCrashes = 2
INVARIANTS
  TypeOK
  AuditTrail
  FileReconciles
  ApprovalStillFits
  SessionUsable
  
PROPERTIES
  SessionKept
  KillStopsTrading
  ImplementsPaperTrading
  
\* The system may stop: nobody has to start another run.
CHECK_DEADLOCK FALSE
