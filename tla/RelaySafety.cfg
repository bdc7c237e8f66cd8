CONSTANTS
  alice = alice
  bob = bob
  a1 = a1
  NoConn = NoConn
  Clients = {alice, bob}
  Conns = {a1, b1, b2}
  WsConns = {b2}
  Cap = 4
  MaxRestarts = 1
  Owner <- MCOwner
  MaxSend <- MCMaxSend
SPECIFICATION Spec
INVARIANTS TypeOK NoStranded RegistrationSurvives
PROPERTY AtLeastOnce
CHECK_DEADLOCK FALSE
