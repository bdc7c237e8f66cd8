CONSTANTS
  alice = alice
  bob = bob
  a1 = a1
  NoConn = NoConn
  Clients = {alice, bob}
  Conns = {a1, b1}
  WsConns = {}
  Cap = 1
  MaxRestarts = 0
  Owner <- MCOwner
  MaxSend <- MCMaxSendBacklog
SPECIFICATION FairSpec
PROPERTY QueueDrains
CHECK_DEADLOCK FALSE
