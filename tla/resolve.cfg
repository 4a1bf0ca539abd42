SPECIFICATION Spec
CONSTANTS
    k1 = k1
    k2 = k2
    s1 = s1
    s2 = s2
    aes = aes
    chacha = chacha
    ed = ed
    Empty = Empty
    Missing = Missing
    None = None
    Kids = {k1, k2}
    Secrets = {s1, s2}
    EncAlgs = {aes, chacha}
    SignAlgs = {ed}
    DirectSets <- MCDirectSets
    KeySets <- MCKeySets
    GivenKeys <- MCGivenKeys
    Configs <- MCConfigs
    MaxChanges = 2
INVARIANT TypeOK
PROPERTIES SavedOpens RotatedKeysOpen
