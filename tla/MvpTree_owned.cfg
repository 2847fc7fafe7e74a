\* What mvptree.h says of ownership, against the code.
SPECIFICATION Spec
CONSTANTS
    Place <- MCPlace
    Dist <- MCDist
    branchfactor = 2
    pathlength = 3
    leafcap = 1
    Supplies <- Walks
    Batches = {1, 2, 5}
PROPERTIES
    OwnedStay
CHECK_DEADLOCK FALSE
