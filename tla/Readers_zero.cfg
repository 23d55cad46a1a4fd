\* A DS2438 whose temperature conversion fails.
SPECIFICATION Spec
CONSTANTS
    Devices <- MCDevices
    Limits <- MCLimits
    Readings <- MCReadings
    MaxRetry = 2
    MaxPass = 3
CHECK_DEADLOCK FALSE
INVARIANTS
    TemperatureWasRead
