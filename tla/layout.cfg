SPECIFICATION Spec
CONSTANTS
    None = None
    BitSize <- MCBitSize
    Inputs <- MCInputs
    Buffers <- MCBuffers
    JsonLens = {7, 8, 9, 41}
    MaxHeader = 40
    Limit = 64
    MaxRewraps = 1
INVARIANTS TypeOK OpenTiles OpenSized ReadsBack WrittenOpens ElementsAligned
CHECK_DEADLOCK FALSE
