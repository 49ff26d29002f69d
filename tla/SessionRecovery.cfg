SPECIFICATION FairSpec
CONSTANTS
  Threads = {t1, t2}
  MaxSessions = 1
  Names = {n1}
  Workspaces = {w1}
  NoName = NoName
  NoWorkspace = NoWorkspace
  MaxWindows = 2
  MaxCrashes = 2
  Faults = {"storage", "misread", "backend"}
INVARIANTS
  TypeOK
  NoAbandonedCreate
  RunningHasTerminal
PROPERTIES
  LongLivedNotReportedDead
  DeletedIsFinal
  RegistrySpec
  ObservedDeathReported
