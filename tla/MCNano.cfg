CONSTANTS
    ByteBits = 2
    CharBits = 3
    KeyBytes = 2
    SumBytes = 3
    PadBits = 2
    nanoAlphabet <- SmallAlphabet
    OtherChar = "l"
    blake2bSum <- Sum
    Keys <- AllKeys
    Slips = 4
    Invalid = Invalid
SPECIFICATION NanoSpec
INVARIANT RoundTrip AcceptsExactlyAliases
