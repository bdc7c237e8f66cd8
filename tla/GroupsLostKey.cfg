CONSTANTS
  alice = alice
  bob = bob
  carol = carol
  Peers = {alice, bob, carol}
  Creator = alice
  May <- MCQuiet
  MaxOps = 0
SPECIFICATION Spec
INVARIANT EveryoneHasEveryKey
CHECK_DEADLOCK FALSE
