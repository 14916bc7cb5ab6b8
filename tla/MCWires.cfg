SPECIFICATION MCSpec
CONSTANTS
  None = None
  NotFinite = NotFinite
  One = 2
  NormSlack = 0
  Giga = 4
  ModelFrame <- World
  JointBand = 0
  IkTimeout = 1
  Message <- MCMessage
  Seconds <- MCSeconds
  Start <- MCStart
  Foreign <- MCForeign
  Pose <- MCPose
  Turn <- MCTurn
  Reach = 1
  Client = {c1}
  Joint <- Joints
  Position = {0, 1}
  Question <- MCQuestion
  Scene <- MCScene
  Code = {"SUCCESS", "NO_IK_SOLUTION", "FRAME_TRANSFORM_FAILURE"}
  Skew = {0, 1}
  MaxTime = 2
  GroupName <- Groups
INVARIANTS
  QueryInv
  TrajectoriesSurvive
  ScenesAreRead
PROPERTIES
  ReapplyingKeepsPlace
CHECK_DEADLOCK FALSE
