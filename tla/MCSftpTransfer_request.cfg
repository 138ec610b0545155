\* A request to write that cannot be made.
SPECIFICATION FairSpec
CONSTANTS
    u = u
    d = d
    s = s
    Transfer = {u}
    Upload = {u}
    Size <- Sizes
    Stored <- Sizes
    Concurrent = 2
    Failure <- SendFails
    Early = FALSE
    MaxClicks = 1
PROPERTIES
    TransferEnds
\* Every transfer may be over.
CHECK_DEADLOCK FALSE
