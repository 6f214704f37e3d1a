\* One caller, one user thread closing, over TCP or FIFOs.
SPECIFICATION FairSpec
CONSTANTS
  c1 = c1
  c2 = c2
  u1 = u1
  Callers <- OneCaller
  Untimed <- NoCallers
  Closers <- OneCloser
  MaxMsgId = 1
  MaxOutstanding = 1
  QueueCap = 1
  WireCap = 1
  Protocols = {"TCP", "FIFO"}
INVARIANTS CloseReachesThreads
PROPERTIES CloseStopsThreads CloseEnds TimedCallsReturn
\* Idle daemon threads block in take() and read() for ever.
CHECK_DEADLOCK FALSE
