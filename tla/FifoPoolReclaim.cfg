\* Two connections compete for three FIFOs, which have room for what can be in them.
SPECIFICATION FairSpec
CONSTANTS
  s1 = s1
  s2 = s2
  Sessions <- TwoSessions
  NumFifos = 3
  FifoCap = 3
  MaxRequests = 1
INVARIANTS ExclusiveFifos
PROPERTIES PipeReclaimed ImplementsAllocator
\* All sessions of the run may be over.
CHECK_DEADLOCK FALSE
