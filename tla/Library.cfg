\* One call of each kind over small inputs, with others changing the directory
\* and every schedule of the threads.
SPECIFICATION Spec
CONSTANTS
    Dots <- MCDots
    File <- MCFile
    MaxChanges = 2
    Picture <- MCPicture
    Locked <- MCLocked
    ThreadChoices <- MCThreadChoices
    Cpus = 5
    Text <- MCText
    Fold <- MCFold
    Skipped = "skipped"
    Key <- MCKey
    Width = 3
    KgramLength = 2
    WindowLength = 4
    Points <- MCPoints
    Video <- MCVideo
    Batch = 4
    S = 2
    L = 10
    Alpha1 = 3
    Alpha2 = 2
    Frames <- MCFrames
    Alike <- MCAlike
INVARIANTS
    ListsDirectory
    HashesAsListed
    StaysInArrays
    RollingHash
    PointsAreMinima
    MatchesAreRuns
    OneFramePerShot
    BoundariesApart
    LongestInCommon
