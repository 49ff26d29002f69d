SPECIFICATION GateSpec
CONSTANTS
  Clients = {c1, c2}
  Sessions = {s1, s2}
  MaxApprovals = 2
  MaxRestarts = 1
PROPERTIES
  DestroyNeedsConsent
CHECK_DEADLOCK FALSE
