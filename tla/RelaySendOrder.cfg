CONSTANTS
  alice = alice
  bob = bob
  a1 = a1
  NoConn = NoConn
  Clients = {alice, bob}
  Conns = {a1, b1}
  WsConns = {}
  Cap = 4
  MaxRestarts = 0
  Owner <- MCOwner
  MaxSend <- MCMaxSend
SPECIFICATION Spec
PROPERTY SendOrder
CHECK_DEADLOCK FALSE
