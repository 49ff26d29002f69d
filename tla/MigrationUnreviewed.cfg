SPECIFICATION Spec
CONSTANTS
  Names = {"claude", "sandbox", "theme"}
  Sensitive = {"sandbox"}
  Sources <- MCSources
  Unparsable = Unparsable
  Nothing = Nothing
  MaxEdits = 0
PROPERTIES
  ReviewedIsWritten
CHECK_DEADLOCK FALSE
