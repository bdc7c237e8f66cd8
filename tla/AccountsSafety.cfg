CONSTANTS
  alice = alice
  ALICE = ALICE
  bob = bob
  carol = carol
  b1 = b1
  b2 = b2
  pw1 = pw1
  pw2 = pw2
  Browsers = {b1, b2}
  Names = {alice, ALICE, bob, carol}
  Lower <- MCLower
  Rank <- MCRank
  Passwords = {pw1, pw2}
  Old = {bob}
  MaxSalts = 4
  MaxRequests = 2
SPECIFICATION Spec
INVARIANTS TypeOK NewAccountsOpen PhraseRecovers LoginOpens OneIdentity
CHECK_DEADLOCK FALSE
