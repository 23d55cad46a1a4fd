\* SIGUSR1, or a clock that is set; ten wake-ups.
SPECIFICATION Spec
CONSTANTS
    Readings <- MCReadings
    Limits <- MCLimits
    Delay = 60
    Tick = 30
    MaxTime = 600
    MaxRetry = 2
    Modes <- MCModes
    Spread = 5
    MaxStreak = 9
CHECK_DEADLOCK FALSE
INVARIANTS
    MemoryInRange
    ValidIsCurrent
    LockoutBounded
PROPERTIES
    CounterNeverDown
    RateWithinDelay
