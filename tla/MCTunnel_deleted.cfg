\* A tunnel that opens at once.
SPECIFICATION FairSpec
CONSTANTS
    MaxDown = 2
    MaxUp = 1
    Room = 2
    Opening <- Opens
PROPERTIES
    TunnelDeleted
\* The session may be over.
CHECK_DEADLOCK FALSE
