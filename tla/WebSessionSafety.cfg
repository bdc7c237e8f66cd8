CONSTANTS
  MaxSend = 2
  MaxLosses = 1
  MaxLinks = 2
SPECIFICATION Spec
INVARIANTS TypeOK BrowserKeyUsedOnce BrowserShowsOnceInOrder
PROPERTY MessagesArrive
CHECK_DEADLOCK FALSE
