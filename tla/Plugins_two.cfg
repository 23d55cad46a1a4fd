\* Two log lines of one library that name different databases.
SPECIFICATION Spec
CONSTANTS
    Libs <- MCLibs
    Kind <- MCKind
    Databases <- MCDatabases
    Servers <- MCServers
    NoDb = "none"
    Sensors = {"temp", "pres"}
    Message = "message"
    MaxRefused = 1
    Files <- TwoFiles
    Installed <- MCInstalled
    MAXDLL = 4
    MaxRounds = 1
PROPERTIES
    AllLinesLogged
