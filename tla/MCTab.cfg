\* Two users, two sessions, two exchanges of each, one reload; anything fails.
CONSTANTS
    Users = {alice, bob}
    NoUser = NoUser
    Families = {f1, f2}
    NoFamily = NoFamily
    MaxToken = 1
    MaxReload = 1
    Faults = {"network", "server"}
SPECIFICATION Spec
SYMMETRY Symmetric
CHECK_DEADLOCK FALSE
INVARIANTS
    TypeOK
    NoReplay
    OneAccount
    NobodyWaitsInVain
PROPERTY ServerIsSessionChain
