\* The view is used while the session is still connecting.
SPECIFICATION FairSpec
CONSTANTS
    u = u
    d = d
    s = s
    Transfer = {d}
    Upload = {}
    Size <- OneSize
    Stored <- OneSize
    Concurrent = 2
    Failure <- None
    Early = TRUE
    MaxClicks = 1
PROPERTIES
    TransferEnds
\* Every transfer may be over.
CHECK_DEADLOCK FALSE
