\* An upload of an empty file.
SPECIFICATION FairSpec
CONSTANTS
    u = u
    d = d
    s = s
    Transfer = {u}
    Upload = {u}
    Size <- Empty
    Stored <- Empty
    Concurrent = 2
    Failure <- None
    Early = FALSE
    MaxClicks = 1
PROPERTIES
    TransferEnds
\* Every transfer may be over.
CHECK_DEADLOCK FALSE
