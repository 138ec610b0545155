\* A server that reports its errors, three runs.
SPECIFICATION FairSpec
CONSTANTS
    MaxRuns = 3
    Outcome <- FtpOutcomes
INVARIANTS
    TypeOK
    ActionControlsServer
    ThreadPointerValid
PROPERTIES
    FailureUnchecks
\* The session may be over.
CHECK_DEADLOCK FALSE
