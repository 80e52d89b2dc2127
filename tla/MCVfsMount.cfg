SPECIFICATION VfsSpec
CONSTANTS
    Tree <- MCTree
    Longer <- MCLonger
    Paths <- MCPaths
    Computers <- MCComputers
    InodesPerGroup = 4
    InodesPerBlock = 2
    GroupsPerBlock = 2
    MaxCalls = 2
    MaxNodes = 2
INVARIANT MountsTheExt2
\* A kernel that panicked stops.
CHECK_DEADLOCK FALSE
