\* A download of a file that has shrunk since it was listed.
SPECIFICATION FairSpec
CONSTANTS
    u = u
    d = d
    s = s
    Transfer = {s}
    Upload = {}
    Size <- Sizes
    Stored <- Stores
    Concurrent = 2
    Failure <- None
    Early = FALSE
    MaxClicks = 1
PROPERTIES
    ShrunkEnds
\* Every transfer may be over.
CHECK_DEADLOCK FALSE
