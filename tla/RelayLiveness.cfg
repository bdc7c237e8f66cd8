CONSTANTS
  alice = alice
  bob = bob
  a1 = a1
  NoConn = NoConn
  Clients = {alice, bob}
  Conns = {a1, b1, b2}
  WsConns = {b2}
  Cap = 4
  MaxRestarts = 0
  Owner <- MCOwner
  MaxSend <- MCMaxSend
SPECIFICATION FairSpec
PROPERTY QueueDrains
CHECK_DEADLOCK FALSE
