SPECIFICATION Spec
CONSTANTS
  a1 = a1
  j1 = j1
  c1 = c1
  c2 = c2
  t1 = t1
  f1 = f1
  f2 = f2
  Health = health
  Nobody = nobody
  Interactive = {}
  Scheduled = {j1}
  Frontend = {f1}
  Tool = {t1}
  Call = {c1, c2}
  Owner <- JobOwner
  ToolOf <- JobTool
  Cap = 2
  MaxCommands = 2
  MaxReloads = 0
CHECK_DEADLOCK FALSE
INVARIANTS
  TypeOK
  OutcomeOnce
  InitFirst
  NothingLeftBehind
PROPERTIES
  ImplementsGate
