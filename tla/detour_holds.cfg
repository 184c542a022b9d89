CONSTANTS
  r1 = r1  r2 = r2  aisle = aisle  junction = junction
  Robots = {r1, r2}
  Points = {aisle, junction}
  NoPoint = NoPoint
  NoRobot = NoRobot
  ZonePlans <- DetourPlans
  AnomalyRoutes <- AnomalyDetours
  DockRoutes <- DockDetours
  PromptNetwork = TRUE
  Faults = FALSE
  MaxInFlight = 2
  OperatorCommands = {"anomaly", "anomaly_resume"}
  MaxCommands = 2
SPECIFICATION Spec
INVARIANTS NoOrphanHold
CHECK_DEADLOCK FALSE
