CONSTANTS
  r1 = r1  r2 = r2  aisle = aisle  junction = junction
  Robots = {r1}
  Points = {aisle, junction}
  NoPoint = NoPoint
  NoRobot = NoRobot
  ZonePlans <- LonePlans
  AnomalyRoutes <- LoneAnomalies
  DockRoutes <- LoneDocks
  PromptNetwork = TRUE
  Faults = TRUE
  MaxInFlight = 2
  OperatorCommands = {"anomaly", "dock", "emergency_stop", "pause", "anomaly_resume",
                      "anomaly_captured", "repatrol"}
  MaxCommands = 4
SPECIFICATION Spec
INVARIANTS TypeOK BusyAccounted EmergencyAgreement HoldsWhatFleetRecords
CHECK_DEADLOCK FALSE
