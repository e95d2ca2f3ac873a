SPECIFICATION Spec
CONSTANTS
  File = {f1, f2}
  EditedFiles = {f1}
  Workers = {w1}
  QueueSize = 1
  MaxTroubles = 2
INVARIANTS DiscoveryTypeOK NoEventLost
PROPERTIES EventuallyRecorded StopEndsAll
CHECK_DEADLOCK FALSE
