SPECIFICATION Spec
CONSTANTS
    None = None
    Lengths = {0, 1, 2, 3, 4, 5, 6}
    ChunkSizes <- MCSizes
    CounterMax = 4
INVARIANTS TypeOK NoIvTwice ChunksPartition ReadIsWritten StoredOpens RefusedOnlyOnOverflow
CHECK_DEADLOCK FALSE
