CONSTANTS
  alice = alice
  bob = bob
  Peers = {alice, bob}
  Other <- MCOther
  Starts = 2
  Faults = 1
SPECIFICATION Spec
INVARIANTS TypeOK ActiveIsJoint AgreementBreaks HeardWhenJoinedBreaks CanHangUp
CHECK_DEADLOCK FALSE
SYMMETRY MCSymmetry
