CONSTANTS
  Zones = {"Z01"}
  Types = {"PERSON", "FIRE"}
  Robots = {"AMR-01"}
  Plans <- CutThenWater
  Labels = {"NORMAL", "ABNORMAL"}
  PersonPage = 1
  MaxEvents = 1
  MaxSuppressions = 2
  MaxRollbacks = 1
  MaxObservations = 4
SPECIFICATION Spec
INVARIANTS OnlyApprovedRuns DoneInOrder VerdictIsMajority
