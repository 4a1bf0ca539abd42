SPECIFICATION Spec
CONSTANTS
    t1 = t1
    t2 = t2
    e1 = e1
    e2 = e2
    e3 = e3
    s1 = s1
    s2 = s2
    bad = bad
    None = None
    Garbage = Garbage
    Tensors = {t1, t2}
    EncKeys = {e1, e2, e3}
    SignKeys = {s1, s2, bad}
    BadSignKeys = {bad}
    AlgName <- Algs
    MaxSaves = 1
    MaxEmpty = 1
    KeepOnError = FALSE
INVARIANTS TypeOK HeaderCoherent NamedKeysOpen DeksMatchData ReadsGenuine
PROPERTY KeepsPromise
