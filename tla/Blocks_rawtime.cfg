SPECIFICATION Spec
CONSTANTS
    Payload = 4
    Selectors <- MCSelectors
    Bits = 6
    Base = 3
    MaxExp = 2
    FloatBits = 4
    LogBits = 2
    NaNs <- MCNaNs
    Uvnan = 7
    FloatAdd <- MCFloatAdd
    ByteBits = 3
    MaxEncoded = 23
    History <- MCHistory
    Inputs <- MCInputs
    MaxBlocks = 2
INVARIANT UncompressedBack
CHECK_DEADLOCK FALSE
