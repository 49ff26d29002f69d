SPECIFICATION MCSpec
CONSTANTS
  Daemons = {d1, d2}
  Processes = {d1, d2}
  Writers = {d1, d2}
  Nobody = Nobody
  Orderly = TRUE
  Events = {e1, e2}
  MaxEntries = 3
  MaxEdits = 2
  Clients = {c1, c2}
  Sessions = {s1, s2}
  MaxApprovals = 2
  MaxRestarts = 1
INVARIANTS
  TypeOK
  GateTypeOK
  Reachable
  SoleOwner
  ServesCurrentSchema
  LogVerifies
  VerifiedIsRecorded
PROPERTIES
  DestroyIsGranted
  DecisionFinal
  PromptsEnd
CHECK_DEADLOCK FALSE
