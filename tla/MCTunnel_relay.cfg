\* Three pieces down, two up; opening may ask and may fail, with or without an error.
SPECIFICATION FairSpec
CONSTANTS
    MaxDown = 3
    MaxUp = 2
    Room = 3
    Opening <- AnyOpening
INVARIANTS
    TypeOK
    InOrder
    EofAfterData
PROPERTIES
    TunnelEndStops
    StopEndsTunnel
\* The session may be over.
CHECK_DEADLOCK FALSE
