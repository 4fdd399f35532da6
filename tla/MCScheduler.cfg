CONSTANTS
  minutely = minutely
  fast = fast
  Job <- MCJob
  Registered <- MCRegistered
  Period <- MCPeriod
  Offset <- MCOffset
  Second = 2
  Minute = 8
  Cap = 1
  Horizon = 28
SPECIFICATION Spec
CHECK_DEADLOCK FALSE
INVARIANTS OncePerMinute FireBudget PunctualJobsFire
