CONSTANTS
  alice = alice
  bob = bob
  Peers = {alice, bob}
  Other <- MCOther
  Starts = 2
  Faults = 0
SPECIFICATION Spec
INVARIANT HeardWhenJoined
CHECK_DEADLOCK FALSE
SYMMETRY MCSymmetry
