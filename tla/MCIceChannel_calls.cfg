\* Two calls by one user, one signal may be lost; data while there is one call.
SPECIFICATION FairSpec
CONSTANTS
    c1 = c1
    c2 = c2
    u1 = u1
    u2 = u2
    Calls <- MCCalls
    Users <- OneUser
    MaxSent = 2
    MaxTalking = 1
    MaxWrite = 2
    Chunk = 2
    MaxFaults = 1
INVARIANTS
    TypeOK
    OwnPeer
PROPERTIES
    PipeSpec
    CallConnects
\* Everybody may have hung up.
CHECK_DEADLOCK FALSE
