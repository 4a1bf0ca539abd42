SPECIFICATION Spec
CONSTANTS
    c1 = c1
    c2 = c2
    c3 = c3
    w1 = w1
    w2 = w2
    None = None
    Calls = {c1, c2, c3}
    Callers <- ThreadsOrTasks
    Workers = {w1, w2}
    Chunks = {1, 2}
INVARIANTS TypeOK OneInitializer PublishedIsPlain
PROPERTIES PublishedOnce ThreadedCallsReturn IsLazyTensor
