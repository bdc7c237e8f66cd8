CONSTANTS
  Attempts = 2
  MaxMessages = 4
  MaxConnects = 3
  MaxFaults = 2
SPECIFICATION Spec
INVARIANTS TypeOK SentOnce SentInOrder NothingLostQuietly QueueIsServed Patient
PROPERTIES QueueEmpties
CHECK_DEADLOCK FALSE
