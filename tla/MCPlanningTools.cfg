SPECIFICATION Spec
CONSTANTS
  None = None
  NotFinite = NotFinite
  One = 2
  NormSlack = 0
  Giga = 2
  ModelFrame <- World
  JointBand = 0
  IkTimeout = 1
  Client = {c1, c2}
  Policy <- CellPolicy
  Request <- MCRequest
  Path <- MCPath
  Code = {"SUCCESS", "TIMED_OUT"}
  Planned <- MCPlanned
  Fraction = {0, 1, 2}
  Revision = {r1, r2}
  MaxPlans = 1
  TTL = 1
  MaxIssue = 3
  MaxExec = 1
  MaxTime = 1
SYMMETRY Symmetry
INVARIANTS
  PlansServeTheirRequests
  PolicyIsKept
PROPERTIES
  StoredIsTold
CHECK_DEADLOCK FALSE
