SPECIFICATION Spec
CONSTANTS
  e1 = e1
  e2 = e2
  Procs = {p1}
  EventIds = {e1, e2}
  Legacy <- OldFiles
  SoloUpgrade = TRUE
  CrashAt <- Anywhere
  Ops = {"append", "read", "find", "identity"}
  Blank = Blank
  None = None

INVARIANTS
  MigrationResumes
\* The system may stop: nobody has to make another call.
CHECK_DEADLOCK FALSE
