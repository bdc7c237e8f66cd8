CONSTANTS
  alice = alice
  bob = bob
  carol = carol
  Peers = {alice, bob}
  MaxCalls <- MCCallBothWays
  MaxSend <- MCSendOne
  MaxFaults <- MCNoFaults
SPECIFICATION Spec
INVARIANT SameRoot
CHECK_DEADLOCK FALSE
