\* Closing, then checking the action again.
SPECIFICATION Spec
CONSTANTS
    MaxRuns = 2
    Outcome <- AllListen
INVARIANTS
    NothingLeftServing
\* The session may be over.
CHECK_DEADLOCK FALSE
