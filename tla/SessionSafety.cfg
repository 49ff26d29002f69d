SPECIFICATION MCSpec
CONSTANTS
  Threads = {t1, t2}
  MaxSessions = 2
  Names = {n1, n2}
  Workspaces = {w1}
  NoName = NoName
  NoWorkspace = NoWorkspace
  MaxWindows = 2
  MaxCrashes = 1
  Faults = {"unheeded"}
SYMMETRY Interchangeable
INVARIANTS
  OneWindow
  NoOrphanWindow
  NoOrphanDir
  CreatorsDistinct
