SPECIFICATION FairSpec
CONSTANTS
  Jobs <- ThreeJobs
  PartCount <- TwoParts
  Unbuildable <- ThirdJob
  BatchSize = 2
  MaxFaults = 1
INVARIANTS PartsAccounted ResendsNeedFaults
PROPERTIES OutcomesStay DeliverySpec JobsEnd
CHECK_DEADLOCK FALSE
