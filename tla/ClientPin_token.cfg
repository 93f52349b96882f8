SPECIFICATION Spec
CONSTANTS
    Pins = {1, 2}
    PinLength <- FourAndSix
    Protocols = {"v1", "v2"}
    RPs = {"a", "b"}
    Requests <- Mixed
    Lengths = {6}
    DefaultMin = 4
    MaxRetries = 1
    UsageLimit = 0
    MaxAllowance = 1
INVARIANTS
    TokenUnderCurrentPin
    OneToken
    SpentTokenOnlyWritesBlobs
    OneRpPerToken
    ShortPinForced
    TokenForLongPin
