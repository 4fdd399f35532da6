SPECIFICATION FairSpec
CONSTANTS
  a1 = a1
  a2 = a2
  c1 = c1
  c2 = c2
  c3 = c3
  c4 = c4
  Agent <- MCAgent
  Call <- MCCall
  Owner <- MCOwner
  Shell = {c2, c4}
  Bulky = {c3}
  Huge = {c1}
CHECK_DEADLOCK FALSE
INVARIANTS
  NoStrayMachine
PROPERTIES
  ImplementsExecutor
  RunsInSandbox
  OperationsEnd
