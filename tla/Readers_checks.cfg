\* A device of every type, two passes with two attempts.
SPECIFICATION Spec
CONSTANTS
    Devices <- MCDevices
    Limits <- MCLimits
    Readings <- MCReadings
    MaxRetry = 2
    MaxPass = 3
CHECK_DEADLOCK FALSE
INVARIANTS
    ReportMatchesValid
    ValidWasRead
    PressureSetUp
PROPERTIES
    KeepsLastGood

