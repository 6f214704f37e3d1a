\* One client over TCP or FIFOs, fair threads.
SPECIFICATION FairSpec
CONSTANTS
  MaxSessions = 1
  FifoPairs = 1
  CorePool = 1
  MaxPool = 1
  QueueCap = 1
  WireCap = 1
  MaxRequests = 1
PROPERTIES ReaderFollowsAnyClient
\* A server that is left alone may stop.
CHECK_DEADLOCK FALSE
