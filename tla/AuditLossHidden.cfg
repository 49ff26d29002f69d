SPECIFICATION LossSpec
CONSTANTS
  Daemons = {d1}
  Processes = {d1}
  Writers = {d1}
  Nobody = Nobody
  Orderly = TRUE
  Events = {e1, e2}
  MaxEntries = 2
  MaxEdits = 0
INVARIANTS
  LossShows
