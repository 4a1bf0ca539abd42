SPECIFICATION Spec
CONSTANTS
    None = None
    Builds = {TRUE, FALSE}
    Limit = 256
    MaxRank = 3
    MaxAt = 3
    Views <- MCViews
    Requests <- MCRequests
INVARIANTS TypeOK ChunksAreSelection ShapeMatchesBytes WholeBytesServed
CHECK_DEADLOCK FALSE
