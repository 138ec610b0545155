\* The data channel opens before the connection is connected to it: GreetingHeard is violated.
SPECIFICATION Spec
CONSTANTS
    c1 = c1
    c2 = c2
    u1 = u1
    u2 = u2
    Calls <- OneCall
    Users <- OneUser
    MaxSent = 0
    MaxTalking = 1
    MaxWrite = 2
    Chunk = 2
    MaxFaults = 1
INVARIANTS
    GreetingHeard
CHECK_DEADLOCK FALSE
