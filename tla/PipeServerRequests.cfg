\* One client sends more than the pool and its queue can hold.
SPECIFICATION Spec
CONSTANTS
  MaxSessions = 1
  FifoPairs = 1
  CorePool = 1
  MaxPool = 2
  QueueCap = 1
  WireCap = 1
  MaxRequests = 4
INVARIANTS NoLostWork
PROPERTIES ImplementsService
\* A server that is left alone may stop.
CHECK_DEADLOCK FALSE
