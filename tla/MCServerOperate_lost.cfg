\* Closing a server that has just failed.
SPECIFICATION FairSpec
CONSTANTS
    MaxRuns = 1
    Outcome <- FtpOutcomes
PROPERTIES
    CloseEnds
\* The session may be over.
CHECK_DEADLOCK FALSE
