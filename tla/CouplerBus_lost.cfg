\* One lost command is enough for two powered branches.
SPECIFICATION Spec
CONSTANTS
    c1 = c1
    c2 = c2
    dm = dm
    da = da
    dx = dx
    None = None
    Couplers <- MCCouplers
    Devices <- MCDevices
    Configs <- MCConfigs
    MaxRetry = 3
    MaxFaults = 1
INVARIANTS
    OneBranchEver
