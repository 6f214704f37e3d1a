\* Two threads, two resources of one class, files that do not change.
SPECIFICATION Spec
CONSTANTS
  t1 = t1
  t2 = t2
  r1 = r1
  r2 = r2
  Threads <- TwoThreads
  Resources <- TwoResources
  Lifetime = 1
  MaxTime = 3
  MaxVersion = 1
  MaxCalls = 3
INVARIANTS ResourceAsked
\* All calls of a run may be over.
CHECK_DEADLOCK FALSE
