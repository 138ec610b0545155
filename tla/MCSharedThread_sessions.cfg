\* Two sessions, at one address or at two; a start may fail.
SPECIFICATION FairSpec
CONSTANTS
    o1 = o1
    o2 = o2
    a1 = a1
    a2 = a2
    Operate = {o1, o2}
    Address = {a1, a2}
    Failure <- StartFails
    Early = FALSE
INVARIANTS
    TypeOK
    BackendOwnerAlive
    NoStrangerStopped
    FinishedOnce
PROPERTIES
    StopEnds
    OpenServes
\* Every session may be over.
CHECK_DEADLOCK FALSE
