\* A caller's process restarts and counts its channels from 0 again: OwnPeerAlways is violated.
SPECIFICATION Spec
CONSTANTS
    c1 = c1
    c2 = c2
    u1 = u1
    u2 = u2
    Calls <- MCCalls
    Users <- OneUser
    MaxSent = 0
    MaxTalking = 1
    MaxWrite = 2
    Chunk = 2
    MaxFaults = 1
INVARIANTS
    OwnPeerAlways
CHECK_DEADLOCK FALSE
