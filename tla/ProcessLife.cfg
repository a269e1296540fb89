SPECIFICATION Spec
CONSTANTS
  c1 = c1  c2 = c2  s1 = s1  s2 = s2  p1 = p1  p2 = p2  p3 = p3
  None = None  System = System
  Cpus = {c1, c2}
  SysThreads = {s1, s2}
  Creators = {s1}
  Processes = {p1, p2, p3}
  Pids = {1, 2}
SYMMETRY ProcessSymmetry
CHECK_DEADLOCK FALSE
INVARIANTS LifetimeSound TranslationsSound
