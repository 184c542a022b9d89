CONSTANTS
  r1 = r1  r2 = r2  n1 = n1  n2 = n2  e1 = e1  e2 = e2
  Robots = {r1, r2}
  Reporting = {r1}
  Nodes = {n1, n2}
  Routes <- Overlapping
  StartLists <- Together
  Events = {e1, e2}
  NodeOf <- OnSharedNode
  MaxMissions = 3
  MaxCommands = 3
  None = None
SPECIFICATION Spec
INVARIANTS OneHolderPerNode
