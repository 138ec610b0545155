\* An upload and a download of three requests, and a download of a file that has shrunk.
SPECIFICATION FairSpec
CONSTANTS
    u = u
    d = d
    s = s
    Transfer = {u, d, s}
    Upload = {u}
    Size <- Sizes
    Stored <- Stores
    Concurrent = 2
    Failure <- SshFails
    Early = FALSE
    MaxClicks = 4
INVARIANTS
    TypeOK
    WorkIsShown
    FinishIsComplete
PROPERTIES
    FinishIsFinal
    TransferEnds
\* Every transfer may be over.
CHECK_DEADLOCK FALSE
