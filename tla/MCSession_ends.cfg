\* Liveness: a self-deleting thread with a dialog, beside a session on the
\* main thread.
SPECIFICATION FairSpec
CONSTANTS
    d = d
    t = t
    w = w
    NoOperate = NoOperate
    Operate = {t, w}
    Parented = {}
    Direct = {w}
    Silent = {}
    Emits <- AllAsk
INVARIANTS
    DialogOwnerAlive
PROPERTIES
    StopEnds
    FailureEnds
    LifeSpec
\* The program really stops after Exit.
CHECK_DEADLOCK FALSE
