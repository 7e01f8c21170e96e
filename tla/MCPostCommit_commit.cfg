SPECIFICATION FairSpec
CONSTANTS
    p1 = p1
    p2 = p2
    a = a
    t = t
    Posts <- MCPosts
    SrcOf <- MCSrcOf
    ThmOf <- MCThmOf
    NoFileSync = FALSE
    MaxRetries = 1
    MaxFaults = 1
CHECK_DEADLOCK FALSE
INVARIANTS
    RowHasFiles
    CountsExact
    Tracked
PROPERTIES
    Returns
