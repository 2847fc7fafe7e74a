\* A picture with an alpha channel and a file that CImg cannot load.
SPECIFICATION Spec
CONSTANTS
    Pic <- MCPic
    Hash <- MCHash
    Near <- MCNear
    Code <- MCCode
    Second = 2
    Order <- ApartOrder2
    Under1 <- InDir
    Under2 <- InDir2
    Dest <- ToDup
    Photos <- Hashless
    Start0 <- HashlessDisks
    Options <- TwoDirectories
    Openings <- AsAWhole
    Calls <- AllHashes
    Stored = {}
    MayFail = {"move"}
    MaxRuns = 1
    MaxEdits = 0
INVARIANTS
    MovedIsSimilar
CHECK_DEADLOCK FALSE
