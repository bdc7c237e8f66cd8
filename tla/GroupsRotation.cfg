CONSTANTS
  alice = alice
  bob = bob
  carol = carol
  Peers = {alice, bob, carol}
  Creator = alice
  May <- MCRemoval
  MaxOps = 2
SPECIFICATION Spec
INVARIANT OnlyMembersRead
CHECK_DEADLOCK FALSE
