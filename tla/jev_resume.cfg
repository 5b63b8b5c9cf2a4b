SPECIFICATION Spec
CONSTANTS
  None = None
  Paths <- RisingPath
  Threshold = 10
  Quantity = 1
  StartingCash = 8
  RiskLimits <- TightLimits
  JevChoices = {TRUE}
  JevActions = {"ENTER", "EXIT", "HOLD"}
  Armings = {FALSE}
  Environments = {}
  CrashAt <- Anywhere
  MaxCrashes = 1
INVARIANTS
  RecordedOutcomeResumes
\* The system may stop: nobody has to start another run.
CHECK_DEADLOCK FALSE
