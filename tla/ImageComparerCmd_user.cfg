\* Run in <dir> itself, so that DUP is searched too and <dir2> may be <dir>, by
\* a user who writes and deletes files at any time.
SPECIFICATION Spec
CONSTANTS
    Pic <- MCPic
    Hash <- MCHash
    Near <- MCNear
    Code <- MCCode
    Second = 2
    Order <- InsideOrder
    Under1 <- InsideDirs
    Under2 <- InsideDirs
    Dest <- Deeper
    Photos <- Ordinary
    Start0 <- InsideDisks
    Options <- EitherWay
    Openings <- AsAWhole
    Calls <- AllHashes
    Stored = {}
    MayFail = {}
    MaxRuns = 2
    MaxEdits = 1
PROPERTIES
    NothingLost
    Ends
CHECK_DEADLOCK FALSE
