SPECIFICATION FairSpec
CONSTANTS
  MaxIssue = 2
  MaxExec = 3
  None = None
  MaxPlans = 2
  TTL = 1
  MaxTime = 0
  MaxTerminal = 3
  Faults = {"stop_lost"}
INVARIANTS
  StopHitsItsOwner
  MotionIsOwned
  PlanRunsOnce
  AmbiguityQuarantines
  AdapterFollowsSlot
PROPERTIES
  KeepsContract
  ExecutionEnds
