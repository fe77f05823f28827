\* Two users, two sessions, three requests in progress, three tokens; anything
\* may fail.
CONSTANTS
    Users = {alice, bob}
    NoUser = NoUser
    Families = {f1, f2}
    NoFamily = NoFamily
    Reqs = {r1, r2, r3}
    MaxToken = 3
    Faults = {"statement", "abandon"}
SPECIFICATION Spec
SYMMETRY Symmetric
CHECK_DEADLOCK FALSE
INVARIANTS
    TypeOK
    OneHeirPerFamily
    FamilyKeepsItsUser
PROPERTY ImplementsSessionChain
