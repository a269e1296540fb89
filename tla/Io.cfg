SPECIFICATION FairSpec
CONSTANTS
  t1 = t1
  t2 = t2
  None = None
  Threads <- MCThreads
  Async <- MCAsync
  Volumes <- MCVolumes
  Ini = {1}
  Mandatory = {}
  MaxLetters = 2
  Sector = 2
  Lengths = {1}
  MaxOffset = 1
CHECK_DEADLOCK FALSE
INVARIANTS RequestsSound FilesSound
PROPERTIES CallsReturn
