\* Three runs over one directory, or over two that share a list file; two
\* changes by the user at any time, a crash at any step.
SPECIFICATION Spec
CONSTANTS
    Pic <- MCPic
    Hash <- MCHash
    Near <- MCNear
    Code <- MCCode
    Second = 2
    Order <- TwoNames
    Worlds <- EitherWorld
    MaxRuns = 3
    MaxEdits = 2
INVARIANTS
    TypeOK
    CacheTransparent
    ListedOnce
    NeverForeign
PROPERTIES
    ReadBack
    Returns
CHECK_DEADLOCK FALSE
