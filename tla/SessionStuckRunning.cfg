SPECIFICATION FairSpec
CONSTANTS
  Threads = {t1}
  MaxSessions = 1
  Names = {n1}
  Workspaces = {}
  NoName = NoName
  NoWorkspace = NoWorkspace
  MaxWindows = 1
  MaxCrashes = 0
  Faults = {}
PROPERTIES
  DeadIsReported
