SPECIFICATION Spec
CONSTANTS
  e1 = e1
  e2 = e2
  Procs = {p1, p2, p3}
  EventIds = {e1, e2}
  Legacy <- OldFiles
  SoloUpgrade = TRUE
  CrashAt <- AnywhereButTip
  Ops = {"append", "read", "find", "identity"}
  Blank = Blank
  None = None
SYMMETRY ProcSymmetry
INVARIANTS
  TypeOK
  ChainIntact
  AlarmsOnlyDuringAppends
PROPERTIES
  ImplementsLog
\* The system may stop: nobody has to make another call.
CHECK_DEADLOCK FALSE
