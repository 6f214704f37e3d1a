\* Two clients share one pool thread; the first may leave with its answers unread.
SPECIFICATION ServingSpec
CONSTANTS
  MaxSessions = 2
  FifoPairs = 1
  CorePool = 1
  MaxPool = 1
  QueueCap = 1
  WireCap = 1
  MaxRequests = 2
INVARIANTS OneAnswerEach
PROPERTIES AcceptedAnswered
\* A server that is left alone may stop.
CHECK_DEADLOCK FALSE
