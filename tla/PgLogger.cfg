\* The server and the tables come and go at any request; fairness.
SPECIFICATION FairSpec
CONSTANTS
    Sensors <- MCSensors
    Message <- MCMessage
    TableOf <- MCTableOf
INVARIANTS
    AllOrNothing
    NoOpenTransaction
    LossBounded
PROPERTIES
    Recovers
