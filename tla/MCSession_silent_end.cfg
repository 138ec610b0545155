\* A backend that never emits sigFinished.
SPECIFICATION FairSpec
CONSTANTS
    d = d
    t = t
    w = w
    NoOperate = NoOperate
    Operate = {t}
    Parented = {}
    Direct = {}
    Silent = {t}
    Emits <- StopOnly
PROPERTIES
    StopEnds
\* The program really stops after Exit.
CHECK_DEADLOCK FALSE
