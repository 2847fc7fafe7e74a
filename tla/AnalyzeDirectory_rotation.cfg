\* Runs with and without -r over one list file.
SPECIFICATION Spec
CONSTANTS
    Pic <- MCPic
    Hash <- MCHash
    Near <- MCNear
    Code <- MCCode
    Second = 2
    Order <- TwoNames
    Worlds <- RotationWorld
    MaxRuns = 2
    MaxEdits = 0
INVARIANTS
    RotationAsAsked
CHECK_DEADLOCK FALSE
