CONSTANTS
  r1 = r1  r2 = r2  aisle = aisle  junction = junction
  Robots = {r1, r2}
  Points = {aisle}
  NoPoint = NoPoint
  NoRobot = NoRobot
  ZonePlans <- OneAislePlans
  AnomalyRoutes <- NoDetours
  DockRoutes <- NoDetours
  PromptNetwork = FALSE
  Faults = FALSE
  MaxInFlight = 2
  OperatorCommands = {}
  MaxCommands = 0
SPECIFICATION Spec
INVARIANTS MutualExclusion
CHECK_DEADLOCK FALSE
