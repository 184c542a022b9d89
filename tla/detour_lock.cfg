CONSTANTS
  r1 = r1  r2 = r2
  Robots = {r1, r2}
  Corridor <- Graph
  Points <- SharedPoints
  NoPoint = NoPoint
  NoRobot = NoRobot
  ZonePlans <- Plans
  Trips <- AllTrips
  ShortestPlans <- ShortestWays
  AnomalyRoutes <- Detours
  DockRoutes <- NoDetours
  PromptNetwork = TRUE
  MaxInFlight = 2
  ZoneLists <- OneAisle
  DetoursOf <- ThroughTheAisle
  Faults = FALSE
  OperatorCommands = {"anomaly"}
  MaxCommands = 1
SPECIFICATION Spec
INVARIANTS OneRobotPerCorridor
CHECK_DEADLOCK FALSE
