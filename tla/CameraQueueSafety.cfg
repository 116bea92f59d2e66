SPECIFICATION Spec
CONSTANTS
  Captures <- TwoCaptures
  Size <- SizeOf
  MaxBytes = 2
  MaxFaults = 2
  None = None
INVARIANTS
  RowsTellTheTruth
  InFlightImageIsHeld
  DropAccounting
  UploadingHasOwner
PROPERTIES
  LeavesOnce
  KeepsCustody
