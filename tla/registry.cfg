SPECIFICATION Spec
CONSTANTS
    d1 = d1
    d2 = d2
    n1 = n1
    k1 = k1
    k2 = k2
    th1 = th1
    None = None
    Direct = {d1, d2}
    Native = {n1}
    Holds <- MCHolds
    NativeName <- MCNativeName
    Priorities = {100}
    Kids = {k1, k2}
    KeySets <- MCKeySets
    Names = {"DirectKeyProvider", "native", "file", "env"}
    Threads = {th1}
    MaxWrites = 3
INVARIANTS TypeOK NamesUnique PriorityThenAge
PROPERTIES FirstAbleAnswers DisabledAreSilent
