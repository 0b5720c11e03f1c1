CONSTANTS
    ByteBits = 8
    CharBits = 5
    KeyBytes = 32
    SumBytes = 5
    PadBits = 4
    nanoAlphabet <- Digits
    OtherChar = "l"
    blake2bSum <- Sum
    Keys <- OneBitKeys
    Slips = 0
    Invalid = Invalid
SPECIFICATION NanoSpec
INVARIANT RoundTrip
