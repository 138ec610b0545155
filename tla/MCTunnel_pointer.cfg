\* A tunnel that may ask and fail; -continue shows that both are violated.
SPECIFICATION Spec
CONSTANTS
    MaxDown = 2
    MaxUp = 1
    Room = 2
    Opening <- AnyOpening
INVARIANTS
    TunnelPointerValid
    BackendOutlivesOpen
\* The session may be over.
CHECK_DEADLOCK FALSE
