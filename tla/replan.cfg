CONSTANTS
  r1 = r1  r2 = r2
  Robots = {r1, r2}
  Corridor <- Graph
  Points <- SharedPoints
  NoPoint = NoPoint
  NoRobot = NoRobot
  ZonePlans <- Plans
  Trips <- AllTrips
  ShortestPlans <- ShortestWays
  AnomalyRoutes <- Detours
  DockRoutes <- NoDetours
  DetoursOf <- NoDetours
  PromptNetwork = TRUE
  MaxInFlight = 2
  ZoneLists <- TwoLists
  Faults = TRUE
  OperatorCommands = {}
  MaxCommands = 0
SPECIFICATION Spec
INVARIANTS NoHoldAndWait NoTwoDriving NoOrphanHold MissionsAreShortest
CHECK_DEADLOCK TRUE
