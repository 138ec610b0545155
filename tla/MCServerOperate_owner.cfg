\* Unchecking the action, then closing.
SPECIFICATION Spec
CONSTANTS
    MaxRuns = 1
    Outcome <- AllListen
INVARIANTS
    OwnerOutlivesRun
\* The session may be over.
CHECK_DEADLOCK FALSE
