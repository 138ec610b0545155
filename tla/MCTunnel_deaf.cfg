\* The local socket may not be created.
SPECIFICATION FairSpec
CONSTANTS
    MaxDown = 2
    MaxUp = 1
    Room = 2
    Opening <- AnyOpening
PROPERTIES
    OpenConcludes
\* The session may be over.
CHECK_DEADLOCK FALSE
