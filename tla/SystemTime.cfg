SPECIFICATION FairSpec
CONSTANTS
    c1 = c1
    c2 = c2
    Cpus <- MCCpus
    Bsp = c1
    SecUs = 2
    Period = 2
    ToIdle = 3
    TimerUs <- MCTimerUs
    MaxSeconds = 1
    MaxTicks = 2
CHECK_DEADLOCK FALSE
INVARIANTS StartSound IdleSound
PROPERTIES TimesMonotonic TimerWaitExact StartupCompletes
