SPECIFICATION Spec
CONSTANTS
  a1 = a1
  j1 = j1
  c1 = c1
  c2 = c2
  t1 = t1
  f1 = f1
  f2 = f2
  Health = health
  Nobody = nobody
  Interactive = {a1}
  Scheduled = {}
  Frontend = {f1, f2}
  Tool = {t1}
  Call = {c1, c2}
  Owner <- UserOwner
  ToolOf <- SameTool
  Cap = 2
  MaxCommands = 1
  MaxReloads = 1
CHECK_DEADLOCK FALSE
SYMMETRY Symmetry
INVARIANTS
  EffectNeedsConsent
  HandledOnce
  AuditTellsTruth
  OverlayJustified
