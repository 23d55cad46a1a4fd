\* Both drivers, both programs; devices and noise come and go at any moment.
SPECIFICATION FairSpec
CONSTANTS
    None = None
    N = 6
    F = 2
    Roms <- MCRoms
    Switch <- MCSwitch
    MaxRetry = 2
    MaxDevices = 3
INVARIANTS
    ListExact
PROPERTIES
    SelectsAsAsked
    SearchEnds
