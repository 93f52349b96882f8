SPECIFICATION Spec
CONSTANTS
    Clients = {"a", "b"}
    Arrays <- MCArrays
    MinLen = 2
    MaxLen = 3
    MaxFragment = 2
INVARIANTS BlobWhole
PROPERTIES UndisturbedIsStored
