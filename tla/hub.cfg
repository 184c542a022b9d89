CONSTANTS
  c1 = c1
  Clients = {c1}
  Wishes = {{"LOG"}, {"ROBOT_STATUS", "MISSION_STATUS", "DETECTION", "LOG", "unknown"}}
  QueueSize = 2
  EventQueueSize = 1
  MaxRow = 2
  MaxAlerts = 1
SPECIFICATION Spec
INVARIANTS MonitorTypeOK NoClientLeft ShowsWhatWasTold
PROPERTIES AlertsArrive
