\* The local socket holds less than the server sends.
SPECIFICATION Spec
CONSTANTS
    MaxDown = 3
    MaxUp = 1
    Room = 1
    Opening <- Opens
INVARIANTS
    DownInOrder
\* The session may be over.
CHECK_DEADLOCK FALSE
