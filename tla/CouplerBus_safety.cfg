\* Two lost commands at any place, reloads between passes; fairness.
SPECIFICATION FairSpec
CONSTANTS
    c1 = c1
    c2 = c2
    dm = dm
    da = da
    dx = dx
    None = None
    Couplers <- MCCouplers
    Devices <- MCDevices
    Configs <- MCConfigs
    MaxRetry = 3
    MaxFaults = 2
INVARIANTS
    OneBranchUnlessMissed
    SampledAlone
    QuietBetweenPasses
    MemoryIsTrue
PROPERTIES
    RetrySendsNothing
    KeepsPromise
    Resync
