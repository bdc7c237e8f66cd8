CONSTANTS
  Relays = {r1, r2}
  MaxSteps = 5
SPECIFICATION ContactsSpec
INVARIANTS ContactsTypeOK ConfirmationLasts ListAgrees
PROPERTIES FallsBackIfNeverSeen
CHECK_DEADLOCK FALSE
SYMMETRY MCSymmetry
