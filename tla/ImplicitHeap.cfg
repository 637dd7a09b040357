CONSTANTS
    Id = {i1, i2, i3}
    NULL = NULL
    MaxHeap = 22
    CHUNKSIZE = 8
    Size = {1, 7}
SPECIFICATION FairSpec
INVARIANTS HeapTiled PointersAreBlocks AllocatedIffInUse
PROPERTIES FitIsRight KeepsContract CallsReturn
