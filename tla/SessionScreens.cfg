SPECIFICATION MCSpec
CONSTANTS
  Ids = {1, 10}
  Texts = {0, 1}
  Sizes = {80, 120}
  DefaultSize = 80
  Clients = {c1, c2}
  Typists = {c1}
  Parts = 2
  Blank = Blank
  MaxCrashes = 1
  MaxDraws = 2
  Failures = TRUE
INVARIANTS
  InputWhole
  OwnWindow
  TerminalHadWindow
  SizesAgree
PROPERTIES
  ScreenCatchesUp
