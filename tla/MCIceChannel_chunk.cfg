\* A write of more than one chunk: PipeSpec is violated.
SPECIFICATION Spec
CONSTANTS
    c1 = c1
    c2 = c2
    u1 = u1
    u2 = u2
    Calls <- OneCall
    Users <- OneUser
    MaxSent = 3
    MaxTalking = 1
    MaxWrite = 3
    Chunk = 2
    MaxFaults = 1
PROPERTIES
    PipeSpec
CHECK_DEADLOCK FALSE
