SPECIFICATION FairSpec
CONSTANTS
  c1 = c1  c2 = c2  c3 = c3  e1 = e1  e2 = e2  s1 = s1  s2 = s2
  None = None
  Cpus = {c1, c2}
  Senders = {s1, s2}
  Events = {e1, e2}
  Modes = {"AllIncludingSelf", "AllExcludingSelf"}
  Waits = {TRUE, FALSE}
CHECK_DEADLOCK FALSE
INVARIANTS NoUseAfterFree RefCountExact
PROPERTIES WaitedMeansDone CallsServed
