SPECIFICATION Spec
CONSTANTS
  Threads = {t1}
  MaxSessions = 2
  Names = {n1, n2}
  Workspaces = {w1}
  NoName = NoName
  NoWorkspace = NoWorkspace
  MaxWindows = 2
  MaxCrashes = 0
  Faults = {}
INVARIANTS
  WorkspaceKept
