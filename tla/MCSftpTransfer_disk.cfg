\* One download: the local disk is full, the user stops it, the session ends.
SPECIFICATION Spec
CONSTANTS
    u = u
    d = d
    s = s
    Transfer = {d}
    Upload = {}
    Size <- Sizes
    Stored <- Sizes
    Concurrent = 2
    Failure <- DiskFails
    Early = FALSE
    MaxClicks = 3
INVARIANTS
    FinishIsComplete
PROPERTIES
    EndIsShown
    StopNeverStarts
\* Every transfer may be over.
CHECK_DEADLOCK FALSE
