SPECIFICATION FairSpec
CONSTANTS
    MaxRequests = 4
    MaxVMs = 6
    TickMs = 3000
    MaxMs = 15000
CHECK_DEADLOCK FALSE
INVARIANTS
    TypeOK
    OnePlace
    MiddleTierStands
PROPERTIES
    EveryRequestEnds
