\* Any statement may fail, a SELECT too; and a group that could not be made is deleted.
\* Run with -continue: each of the three is violated.
SPECIFICATION Spec
CONSTANTS
    f1 = f1
    f2 = f2
    g1 = g1
    g2 = g2
    Files <- OneFile
    Names <- OneName
    MaxFolders = 2
    MaxLeaves = 1
    MaxKeys = 1
    MaxNodes = 3
    MaxFaults = 1
    ReadsFail = TRUE
INVARIANTS
    Acyclic
    KeyHasLeaf
PROPERTIES
    DeletesItsOwn
CHECK_DEADLOCK FALSE
