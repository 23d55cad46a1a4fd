\* Reloads between configurations, kills, outages and locks at any request.
SPECIFICATION Spec
CONSTANTS
    Libs <- MCLibs
    Kind <- MCKind
    Databases <- MCDatabases
    Servers <- MCServers
    NoDb = "none"
    Sensors = {"temp", "pres"}
    Message = "message"
    MaxRefused = 2
    Files <- MCFiles
    Installed <- MCInstalled
    MAXDLL = 4
    MaxRounds = 2
INVARIANTS
    OnlyRefusedAreMissing
    OwnDatabase
    OnlyTheseLeak
    StatementsAreLive
PROPERTIES
    QuietCallStoresAll
