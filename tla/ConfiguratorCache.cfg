\* Two threads, four calls, two resources of which one may change once, from the end of
\* the first lease on.
SPECIFICATION LateSpec
CONSTANTS
  t1 = t1
  t2 = t2
  r1 = r1
  r2 = r2
  Threads <- TwoThreads
  Resources <- TwoResources
  Lifetime = 1
  MaxTime = 6
  MaxVersion = 2
  MaxCalls = 4
INVARIANTS OneObject StalenessBounded
PROPERTIES GetsReturn
\* All calls of a run may be over.
CHECK_DEADLOCK FALSE
