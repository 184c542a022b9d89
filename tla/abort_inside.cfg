CONSTANTS
  r1 = r1  r2 = r2  aisle = aisle  junction = junction
  Robots = {r1, r2}
  Points = {aisle, junction}
  NoPoint = NoPoint
  NoRobot = NoRobot
  ZonePlans <- CrossingPlans
  AnomalyRoutes <- NoDetours
  DockRoutes <- NoDetours
  PromptNetwork = TRUE
  Faults = TRUE
  MaxInFlight = 2
  OperatorCommands = {}
  MaxCommands = 0
SPECIFICATION Spec
INVARIANTS MutualExclusion
CHECK_DEADLOCK FALSE
