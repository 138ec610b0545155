\* One user edits groups and a file that may be in several; one statement may fail.
SPECIFICATION Spec
CONSTANTS
    f1 = f1
    f2 = f2
    g1 = g1
    g2 = g2
    Files <- OneFile
    Names <- OneName
    MaxFolders = 3
    MaxLeaves = 2
    MaxKeys = 1
    MaxNodes = 2
    MaxFaults = 1
    ReadsFail = FALSE
INVARIANTS
    TypeOK
    Acyclic
    KeyHasLeaf
    FolderNodesLive
PROPERTIES
    KeepsOthers
CHECK_DEADLOCK FALSE
