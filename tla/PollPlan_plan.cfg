\* Three devices, products that fit in the word and products that wrap.
SPECIFICATION PlanSpec
CONSTANTS
    Devs = {1, 2, 3}
    Tables <- MCTables
    Delays <- MCDelays
    Word = 4096
    IntMax = 2047
INVARIANTS
    WakeAndCycleRight
PROPERTIES
    IntervalsNearWanted
    SameFileSamePlan
