\* A signal may be lost: CallConcludes is violated.
SPECIFICATION FairSpec
CONSTANTS
    c1 = c1
    c2 = c2
    u1 = u1
    u2 = u2
    Calls <- OneCall
    Users <- OneUser
    MaxSent = 0
    MaxTalking = 1
    MaxWrite = 2
    Chunk = 2
    MaxFaults = 1
PROPERTIES
    CallConcludes
\* Everybody may have hung up.
CHECK_DEADLOCK FALSE
