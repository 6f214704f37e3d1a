\* The FIFOs of one connection are handed to the next.
SPECIFICATION Spec
CONSTANTS
  s1 = s1
  s2 = s2
  Sessions <- TwoSessions
  NumFifos = 2
  FifoCap = 2
  MaxRequests = 1
INVARIANTS FromRemoteEndpoint
\* All sessions of the run may be over.
CHECK_DEADLOCK FALSE
