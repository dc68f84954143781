SPECIFICATION MCSpec
CONSTANTS
  Values = {1, 2, 3}
  Defaults <- MCDefaults
  Explicit <- MCExplicit
  Rows = {"alias", " "}
  Trim <- MCTrim
  Nameless = "nameless"
  Keys = {"long", "short"}
  Short = {"short"}
  Stars = "stars"
  Dots = "dots"
  NoKey = "nokey"
  Nothing = Nothing
  Files <- MCFiles
  MaxEdits = 1
  MaxNet = 2
  MaxWrites = 2
  MaxFails = 1
INVARIANTS
  NeverBlanked
PROPERTIES
  CurrentSavesAreEdits
CHECK_DEADLOCK FALSE
