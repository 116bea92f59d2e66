SPECIFICATION Spec
CONSTANTS
  Images <- OneImage
  Uploads <- TwoUploads
  ImageOf <- SameImage
  ScanLimit = 1
  MaxExports = 0
  MaxFaults = 0
INVARIANTS StoredHasFile
