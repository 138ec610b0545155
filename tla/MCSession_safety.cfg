\* A thread that is a child of its operate and one that deletes itself and
\* shows a dialog.
SPECIFICATION Spec
CONSTANTS
    d = d
    t = t
    w = w
    NoOperate = NoOperate
    Operate = {d, t}
    Parented = {d}
    Direct = {}
    Silent = {}
    Emits <- SomeAsk
INVARIANTS
    TypeOK
    BackendOwnerAlive
    FinishedIsLast
    ThreadPointerValid
    DialogOwnerAlive
PROPERTIES
    LifeSpec
\* The program really stops after Exit.
CHECK_DEADLOCK FALSE
