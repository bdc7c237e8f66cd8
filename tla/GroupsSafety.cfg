CONSTANTS
  alice = alice
  bob = bob
  carol = carol
  Peers = {alice, bob, carol}
  Creator = alice
  May <- MCBusy
  MaxOps = 2
SPECIFICATION Spec
INVARIANTS TypeOK GroupKeyUsedOnce NothingOlderIsReadable
CHECK_DEADLOCK FALSE
