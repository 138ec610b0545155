\* quit() wakes a backend its thread has deleted.
SPECIFICATION Spec
CONSTANTS
    d = d
    t = t
    w = w
    NoOperate = NoOperate
    Operate = {d}
    Parented = {d}
    Direct = {}
    Silent = {}
    Emits <- StopOnly
INVARIANTS
    WakeTargetAlive
\* The program really stops after Exit.
CHECK_DEADLOCK FALSE
