CONSTANTS
    Id = {1, 2, 3, 4, 5, 6, 7, 8, 9, 10}
    MaxHeap = 36
    CHUNKSIZE = 28
    Trace <- MCReallocTrace
    ClassBounds <- MCClassBounds
    Rounded <- MCRounded
    Reserved = 4
    Trigger = 8
    MINIMUM_TREE_BLOCK_SIZE = 6
    BackAsize = 8
    BackRest = 6
    LeaveTaken = TRUE
SPECIFICATION Spec
PROPERTIES ReallocKeepsData
CHECK_DEADLOCK FALSE
