SPECIFICATION MCSpec
CONSTANTS
  Capacity = 2
  MaxWire = 2
  Sessions = {s1}
  MaxTurns = 1
  MaxSessions = 3
  NoSession = NoSession
  Paths = {a, b}
  Contents = {v1, v2, plain}
  Capable = {v1, v2}
  Absent = Absent
  Torn = Torn
  Commands = {k1, k2}
  MaxCommands = 2
  MaxEdits = 1
INVARIANTS
  TypeOK
  NoRowTwice
  AnswersMatch
  ViewIsRow
  KeysGoToScreen
  GrantIsApproved
PROPERTIES
  RequestEnds
  SelectionFollows
CHECK_DEADLOCK FALSE
