SPECIFICATION Spec
CONSTANTS
  MaxIssue = 2
  MaxExec = 2
  None = None
  MaxPlans = 2
  TTL = 1
  MaxTime = 1
  MaxTerminal = 2
  Faults = {"wait_error"}
INVARIANTS
  MotionIsOwned
