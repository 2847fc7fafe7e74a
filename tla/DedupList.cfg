\* Four files: every list of images of one of three hashes and three quality
\* classes without rotation, and lists whose records may disagree on
\* ImageCanBeRotated, so that similarity need not be symmetric; both values of
\* -s and every outcome of every move.
SPECIFICATION Spec
CONSTANTS
    Pic <- MCPic
    Hash <- MCHash
    Near <- MCNear
    Code <- MCCode
    Second = 2
    File <- MCFile
    Inputs <- MCInputs
INVARIANTS
    TypeOK
    HeadSettled
    Tally
    LossesAreGrounded
    LargestStays
    OneOfEachAtEnd
PROPERTIES
    HeadIsFinal
    Terminates
    KeepsOneOfEach
CHECK_DEADLOCK FALSE
