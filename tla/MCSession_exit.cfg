\* The program ends without waiting for the threads.
SPECIFICATION Spec
CONSTANTS
    d = d
    t = t
    w = w
    NoOperate = NoOperate
    Operate = {t}
    Parented = {}
    Direct = {}
    Silent = {}
    Emits <- StopOnly
INVARIANTS
    OwnerOutlivesBackend
\* The program really stops after Exit.
CHECK_DEADLOCK FALSE
