CONSTANTS
  r1 = r1  k1 = k1  k2 = k2
  Robots = {r1}
  Checks = {k1, k2}
  AbortOnMismatch = TRUE
  MaxGates = 2
  MaxInFlight = 2
  NoCheck = NoCheck
  NoRobot = NoRobot
  NoCode = NoCode
SPECIFICATION GateSpec
INVARIANTS OneCallPerRobot HeardInTime PassIsOnRecord
PROPERTIES InspectionEnds CallsEnd
CHECK_DEADLOCK FALSE
