SPECIFICATION Spec
CONSTANTS
  Images <- TwoImages
  Uploads <- ThreeUploads
  ImageOf <- OddFirst
  ScanLimit = 1
  MaxExports = 1
  MaxFaults = 1
INVARIANTS NothingDestroyed
PROPERTIES DeletionIsFinal HeldImagesAreSpared
CONSTRAINT OneOrTwo
