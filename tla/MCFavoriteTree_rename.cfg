\* The name typed for a favorite goes to the table that its id is not of.
SPECIFICATION Spec
CONSTANTS
    f1 = f1
    f2 = f2
    g1 = g1
    g2 = g2
    Files <- TwoFiles
    Names <- OneName
    MaxFolders = 2
    MaxLeaves = 3
    MaxKeys = 2
    MaxNodes = 3
    MaxFaults = 1
    ReadsFail = FALSE
PROPERTIES
    EditsItsOwn
CHECK_DEADLOCK FALSE
