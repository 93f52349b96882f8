SPECIFICATION Spec
CONSTANTS
    site = site
    www = www
    Descs = {site, www}
    Users = {u1, u2}
    Passwords = {p1, p2}
    TotpNames = {site, t1}
    Guids <- MCGuids
    PwHash <- MCPwHash
    TotpHash <- MCTotpHash
    Base <- OneSite
SYMMETRY DataSymmetry
INVARIANTS RecordKeyed ListedHasRecord
PROPERTIES AssertsHold StaysComplete ScanKeepsPasswords ImplementsBook
