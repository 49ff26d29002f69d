SPECIFICATION Spec
CONSTANTS
  Daemons = {d1, d2}
  Processes = {d1, d2}
  Writers = {d1, d2}
  Nobody = Nobody
  Orderly = FALSE
  Events = {e1}
  MaxEntries = 1
  MaxEdits = 0
INVARIANTS
  Reachable
