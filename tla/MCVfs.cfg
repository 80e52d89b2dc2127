SPECIFICATION VfsSpec
CONSTANTS
    Tree <- MCTree
    Longer <- MCLonger
    Paths <- MCPaths
    Computers <- MCComputers
    InodesPerGroup = 4
    InodesPerBlock = 2
    GroupsPerBlock = 2
    MaxCalls = 3
    MaxNodes = 2
INVARIANTS OwnedOnce ListsTheDirectory NothingLost 
\* A kernel that panicked stops.
CHECK_DEADLOCK FALSE
