SPECIFICATION Spec
CONSTANTS
  r1 = r1
  r2 = r2
  Uploads <- MCUploads
  MaxSize = 2
  MaxFaults = 1
INVARIANTS RowKeepsItsFile
SYMMETRY MCSymmetry
CHECK_DEADLOCK FALSE
