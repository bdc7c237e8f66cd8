CONSTANTS
  alice = alice
  bob = bob
  carol = carol
  Peers = {alice, bob}
  MaxCalls <- MCCallTwice
  MaxSend <- MCSendAlice
  MaxFaults <- MCFaults
SPECIFICATION FairSpec
INVARIANTS TypeOK KeyUsedOnce
PROPERTIES ShownOnceInOrder CallersMessagesArrive
CHECK_DEADLOCK FALSE
