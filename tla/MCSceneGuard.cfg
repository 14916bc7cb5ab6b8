SPECIFICATION MCSpec
CONSTANTS
  None = None
  One = 1
  Client = {c1, c2}
  Object <- AllObjects
  Replace <- Either
  Policy <- CellPolicy
  External <- MeshArrives
  MaxLate = 1
SYMMETRY Symmetry
INVARIANTS
  SceneInv
  MotionInItsScene
PROPERTIES
  PolicyKept
