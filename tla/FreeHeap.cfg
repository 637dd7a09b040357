CONSTANTS
    Id = {1, 2, 3, 4, 5, 6, 7, 8, 9, 10}
    MaxHeap = 74
    CHUNKSIZE = 8
    Trace <- MCTrace
    ClassBounds <- MCClassBounds
    Rounded <- MCRounded
    Reserved = 4
    Trigger = 8
    MINIMUM_TREE_BLOCK_SIZE = 6
    BackAsize = 8
    BackRest = 6
    LeaveTaken = FALSE
SPECIFICATION Spec
INVARIANTS HeapTiled FreeBlocksListed Coalesced
PROPERTIES BestFit ReallocKeepsData KeepsContract
CHECK_DEADLOCK FALSE
