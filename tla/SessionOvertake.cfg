CONSTANTS
  alice = alice
  bob = bob
  carol = carol
  Peers = {alice, bob}
  MaxCalls <- MCCallBob
  MaxSend <- MCSendOne
  MaxFaults <- MCNoFaults
SPECIFICATION FairSpec
PROPERTY MessagesArrive
CHECK_DEADLOCK FALSE
