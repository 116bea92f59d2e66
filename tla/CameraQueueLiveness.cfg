SPECIFICATION SmallLiveSpec
CONSTANTS
  Captures <- TwoCaptures
  Size <- SizeOf
  MaxBytes = 2
  MaxFaults = 2
  None = None
PROPERTIES
  RowsLeave
