SPECIFICATION MutexSpec
CONSTANTS
  c1 = c1  c2 = c2  i1 = i1  i2 = i2  m1 = m1  m2 = m2  w1 = w1  w2 = w2
  None = None
  Cpus = {c1, c2}
  Threads = {i1, i2, m1, m2, w1}
  Idle <- TwoIdle
  Main <- TwoMain
  UserThreads = {}
  MaxRecursivityDepth = 2
SYMMETRY CpuSymmetry
CONSTRAINT OneExits
INVARIANTS MutexSound NoPanic OneCpuPerThread ReadyListSound NoThreadLost
PROPERTIES RefinesScheduler RefinesFairLock
