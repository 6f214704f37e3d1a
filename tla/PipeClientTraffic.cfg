\* Two callers, one of them with timeoutMs = 0, two requests, a TCP server that may answer
\* or vanish; nobody closes.
SPECIFICATION FairSpec
CONSTANTS
  c1 = c1
  c2 = c2
  u1 = u1
  Callers <- TwoCallers
  Untimed <- OneCaller
  Closers <- NoCallers
  MaxMsgId = 2
  MaxOutstanding = 1
  QueueCap = 1
  WireCap = 1
  Protocols = {"TCP"}
INVARIANTS AnswersBelong NoMissedNotify NoOrphanRequest SentAtMostOnce
PROPERTIES DoneIsFinal TimedCallsReturn DoneCallsReturn ImplementsRpc
\* Idle daemon threads block in take() and read() for ever.
CHECK_DEADLOCK FALSE
