CONSTANTS
  MaxSend = 1
  MaxLosses = 0
  MaxLinks = 2
SPECIFICATION Spec
INVARIANT ShownAtMostOnce
CHECK_DEADLOCK FALSE
