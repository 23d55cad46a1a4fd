SPECIFICATION Spec
CONSTANTS
    Devs <- MCDevs
    Configs <- MCConfigs
    Tables <- MCTables
    Delays <- MCDelays
    Tick = 5
    MaxTime = 60
    MaxBusy = 3
    Word = 65536
    IntMax = 32767
CHECK_DEADLOCK FALSE
INVARIANTS
    TypeOK
    AgeBounded
    TmpComplete
PROPERTIES
    LogTimesGrow
