SPECIFICATION FairMutexSpec
CONSTANTS
  c1 = c1  c2 = c2  i1 = i1  i2 = i2  m1 = m1  m2 = m2  w1 = w1  w2 = w2
  None = None
  Cpus = {c1}
  Threads = {i1, m1, w1, w2}
  Idle <- OneIdle
  Main <- OneMain
  UserThreads = {w1}
  MaxRecursivityDepth = 1
CHECK_DEADLOCK FALSE
INVARIANTS ReferencesSound
PROPERTIES AcquireReturns ReadyEventuallyRuns
