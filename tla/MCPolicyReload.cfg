SPECIFICATION FairSpec
CONSTANTS
  a1 = a1
  a2 = a2
  t1 = t1
  star = star
  inside = inside
  outside = outside
  Absent = Absent
  Malformed = Malformed
  Any <- star
  Agent <- MCAgent
  Tool <- MCTool
  Args <- MCArgs
  GlobalFiles <- MCGlobalFiles
  ProjectFiles <- MCProjectFiles
  Cap = 2
  MaxEdits = 3
CHECK_DEADLOCK FALSE
INVARIANTS
  TypeOK
  ProjectNeverGrants
  GlobalDenyHolds
  NoLostEdit
PROPERTIES
  Converges
