SPECIFICATION Spec
CONSTANTS
  Jobs <- TwoJobs
  PartCount <- OnePart
  Unbuildable <- NoJobs
  BatchSize = 2
  MaxFaults = 0
PROPERTIES CancelIsFinal
CHECK_DEADLOCK FALSE
