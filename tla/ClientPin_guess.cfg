SPECIFICATION Spec
CONSTANTS
    Pins = {1, 2}
    PinLength <- FourAndSix
    Protocols = {"v1"}
    RPs = {"a"}
    Requests <- Assert
    Lengths = {6}
    DefaultMin = 4
    MaxRetries = 4
    UsageLimit = 0
    MaxAllowance = 8
INVARIANTS
    TypeOK
    GuessesBounded
    ThreePerBoot
