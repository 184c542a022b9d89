CONSTANTS
  Zones = {"Z01"}
  Types = {"PERSON", "INTRUSION"}
  Robots = {"AMR-01"}
  Plans <- CutThenWater
  Labels = {"NORMAL"}
  PersonPage = 1
  MaxEvents = 2
  MaxSuppressions = 1
  MaxRollbacks = 1
  MaxObservations = 0
SPECIFICATION Spec
PROPERTIES NobodyInside
