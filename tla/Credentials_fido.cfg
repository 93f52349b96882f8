SPECIFICATION Spec
CONSTANTS
    u = u
    v = v
    w = w
    c1 = c1
    c2 = c2
    RPs = {1, 2}
    Users = {u, v, w}
    Slots = 3
    Channels = {c1, c2}
    Policies = {"Optional", "Required"}
    MaxMade = 4
SYMMETRY Symmetry
INVARIANTS
    OneCredentialPerAccount
    SeriesExact
PROPERTIES
    NeverOverwritten
    ImplementsPasskeys
