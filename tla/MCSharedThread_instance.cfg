\* A backend that cannot be made.
SPECIFICATION FairSpec
CONSTANTS
    o1 = o1
    o2 = o2
    a1 = a1
    a2 = a2
    Operate = {o1}
    Address = {a1}
    Failure <- AnyFails
    Early = FALSE
PROPERTIES
    StopEnds
\* Every session may be over.
CHECK_DEADLOCK FALSE
