CONSTANTS
  Relays = {r1, r2}
  MaxSteps = 5
SPECIFICATION ContactsSpec
PROPERTY FallsBack
CHECK_DEADLOCK FALSE
SYMMETRY MCSymmetry
