SPECIFICATION Spec
CONSTANTS
  Exports <- SmallExports
  MaximumPartBytes = 3
  Interval = 3
  DayLength = 4
  OfflineAfter = 1
  RetentionDays = 1
  SessionOffset = 0
  MaxLatency = 4
  LastInstant = 13
  MaxBeats = 5
  MaxClock = 12
  MaxImages = 2
INVARIANTS PartsFit
CHECK_DEADLOCK FALSE
