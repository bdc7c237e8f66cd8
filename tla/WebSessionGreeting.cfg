CONSTANTS
  MaxSend = 2
  MaxLosses = 0
  MaxLinks = 1
SPECIFICATION Spec
INVARIANT FreshKeys
CHECK_DEADLOCK FALSE
