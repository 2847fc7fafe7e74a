\* Every batching of the supplies, with the tree read back at any time.
SPECIFICATION Spec
CONSTANTS
    Place <- MCPlace
    Dist <- MCDist
    branchfactor = 2
    pathlength = 3
    leafcap = 1
    Supplies <- MCSupplies
    Batches = {1, 2, 5}
INVARIANTS
    TypeOK
    FreedOnce
    RetrieveExact
PROPERTIES
    SuccessKeeps
CHECK_DEADLOCK FALSE
