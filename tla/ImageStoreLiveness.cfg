SPECIFICATION LiveSpec
CONSTANTS
  Images <- TwoImages
  Uploads <- ThreeUploads
  ImageOf <- OddFirst
  ScanLimit = 1
  MaxExports = 0
  MaxFaults = 1
PROPERTIES ArchiveSettles
