CONSTANTS
  alice = alice
  bob = bob
  carol = carol
  Peers = {alice, bob, carol}
  MaxCalls <- MCCallBob
  MaxSend <- MCSendBob
  MaxFaults <- MCNoFaults
SPECIFICATION FairSpec
PROPERTY MessagesArrive
CHECK_DEADLOCK FALSE
