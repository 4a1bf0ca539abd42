SPECIFICATION Spec
CONSTANTS
    None = None
    Builds = {TRUE, FALSE}
    Limit = 256
    MaxRank = 2
    MaxAt = 3
    Views <- MCViews
    Requests <- MCOrdered
INVARIANT EmptySelectionIsEmpty
CHECK_DEADLOCK FALSE
