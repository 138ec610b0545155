\* A thread that is a child of its operate is destroyed with it.
SPECIFICATION Spec
CONSTANTS
    d = d
    t = t
    w = w
    NoOperate = NoOperate
    Operate = {d}
    Parented = {d}
    Direct = {}
    Silent = {}
    Emits <- StopOnly
INVARIANTS
    NoFatal
\* The program really stops after Exit.
CHECK_DEADLOCK FALSE
