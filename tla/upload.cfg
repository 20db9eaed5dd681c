SPECIFICATION Spec
CONSTANTS
  r1 = r1
  r2 = r2
  Uploads <- MCUploads
  MaxSize = 2
  MaxFaults = 2
INVARIANTS CreatedIsStored OrphanTakesFaults
SYMMETRY MCSymmetry
CHECK_DEADLOCK FALSE
