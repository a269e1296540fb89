SPECIFICATION EventSpec
CONSTANTS
  c1 = c1  c2 = c2  i1 = i1  i2 = i2  m1 = m1  m2 = m2  w1 = w1  w2 = w2
  None = None
  Cpus = {c1, c2}
  Threads = {i1, i2, m1, m2}
  Idle <- TwoIdle
  Main <- TwoMain
  UserThreads = {}
  EventTypes = {"Notification", "Synchronization"}
  MaxSignals = 2
  MaxReturns = 2
  Clearers = {m1, m2}
SYMMETRY CpuSymmetry
INVARIANTS EventSound
PROPERTIES NoEarlyReturn RefinesScheduler
