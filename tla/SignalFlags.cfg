\* Both kinds of build; signals at any moment, without bound.
SPECIFICATION FairSpec
INVARIANTS
    OnlyRequests
    LostOnlyInRace
    ServedSoon
    OnlyTardyWait
PROPERTIES
    EveryRequestServed
