\* A session opened before the thread has connected its slots.
SPECIFICATION FairSpec
CONSTANTS
    o1 = o1
    o2 = o2
    a1 = a1
    a2 = a2
    Operate = {o1}
    Address = {a1}
    Failure <- NoFailure
    Early = TRUE
PROPERTIES
    OpenServes
\* Every session may be over.
CHECK_DEADLOCK FALSE
