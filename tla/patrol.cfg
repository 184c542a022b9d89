CONSTANTS
  r1 = r1  r2 = r2
  Robots = {r1, r2}
  Corridor <- Graph
  Points <- SharedPoints
  NoPoint = NoPoint
  NoRobot = NoRobot
  ZonePlans <- Plans
  Trips <- AllTrips
  ShortestPlans <- ShortestWays
  AnomalyRoutes <- Detours
  DockRoutes <- NoDetours
  DetoursOf <- NoDetours
  PromptNetwork = TRUE
  MaxInFlight = 2
  ZoneLists <- OneList
  Faults = FALSE
  OperatorCommands = {"emergency_stop"}
  MaxCommands = 2
SPECIFICATION FairSpec
INVARIANTS MutualExclusion OneRobotPerCorridor
PROPERTIES KeepsAisleLock EveryHoldEnds
CHECK_DEADLOCK FALSE
