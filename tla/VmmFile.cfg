CONSTANTS
    t1 = t1
    t2 = t2
    c1 = c1
    c2 = c2
    file1 = file1
    Nobody = Nobody
    NoFile = NoFile
    Threads = {t1}
    Cpus = {c1}
    Files = {file1}
    NumFrames = 4
    StartVa = 1
    MaxBitmaps = 2
    MaxVa = 2
    MaxPages = 2
    FixedBases = {2}
SPECIFICATION Spec
CHECK_DEADLOCK FALSE
INVARIANTS RegionsSound
PROPERTIES EagerIsMapped
