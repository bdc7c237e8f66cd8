CONSTANTS
  p1 = p1
  p2 = p2
  f1 = f1
  f2 = f2
  Passwords = {p1, p2}
  BackupFiles = {f1, f2}
  MaxKeys = 3
  MaxPhrases = 3
  MaxMessages = 4
  MaxRows = 2
  MaxFaults = 2
SPECIFICATION Spec
INVARIANT EitherOneAlone
CHECK_DEADLOCK FALSE
SYMMETRY MCSymmetry
