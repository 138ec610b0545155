\* A group that is there already is shown once more, and moved below itself.
SPECIFICATION Spec
CONSTANTS
    f1 = f1
    f2 = f2
    g1 = g1
    g2 = g2
    Files <- OneFile
    Names <- OneName
    MaxFolders = 2
    MaxLeaves = 1
    MaxKeys = 1
    MaxNodes = 4
    MaxFaults = 0
    ReadsFail = FALSE
INVARIANTS
    NodesShown
CHECK_DEADLOCK FALSE
