SPECIFICATION MCSpec
CONSTANTS
  None = None
  One = 1
  Client = {c1}
  Object <- TwoObjects
  Replace <- OnlyFalse
  Policy <- CellPolicy
  External <- NoScenes
  MaxLate = 0
PROPERTIES
  SceneFrozenWhileActive
