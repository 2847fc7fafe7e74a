\* <dir2> below <dir>: the lists have files in common.
SPECIFICATION Spec
CONSTANTS
    Pic <- MCPic
    Hash <- MCHash
    Near <- MCNear
    Code <- MCCode
    Second = 2
    Order <- NestedOrder
    Under1 <- InBoth
    Under2 <- InDir2
    Dest <- ToDup
    Photos <- Ordinary
    Start0 <- NestedDisks
    Options <- TwoDirectories
    Openings <- AsAWhole
    Calls <- AllHashes
    Stored = {}
    MayFail = {}
    MaxRuns = 1
    MaxEdits = 0
INVARIANTS
    FoundIsAnother
CHECK_DEADLOCK FALSE
