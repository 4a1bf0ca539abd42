SPECIFICATION Spec
CONSTANTS
    None = None
    Changed = Changed
    Error = Error
    Closed = Closed
    Fault = Fault
    t1 = t1
    t2 = t2
    o1 = o1
    Handles = {o1}
    Order <- MCOrder
    Frameworks <- MCFrameworks
    HeaderLens = {1, 2}
    MaxFiles = 2
    MaxSaves = 2
    MaxRewraps = 1
INVARIANT EverySliceReads
CHECK_DEADLOCK FALSE
