\* <dir>, <dir2> and DUP apart, up to three files in them: two runs of either
\* mode, with and without list files; a move, the analysis of a file or a part
\* of it may fail, a crash at any step.
SPECIFICATION Spec
CONSTANTS
    Pic <- MCPic
    Hash <- MCHash
    Near <- MCNear
    Code <- MCCode
    Second = 2
    Order <- ApartOrder
    Under1 <- InDir
    Under2 <- InDir2
    Dest <- ToDup
    Photos <- Ordinary
    Start0 <- ApartDisks
    Options <- SomeLines
    Openings <- InPart
    Calls <- SomeHashes
    Stored <- Records0
    MayFail = {"move", "analysis"}
    MaxRuns = 2
    MaxEdits = 0
INVARIANTS
    TypeOK
    OneOfEachStays
    MovedIsSimilar
    RepeatFindsNothing
CHECK_DEADLOCK FALSE
