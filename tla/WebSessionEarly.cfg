CONSTANTS
  MaxSend = 1
  MaxLosses = 0
  MaxLinks = 1
SPECIFICATION Spec
PROPERTY AllArrive
CHECK_DEADLOCK FALSE
