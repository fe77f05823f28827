\* Two accounts, one of them known, two requests at a time, two changes of an
\* address; any statement may fail.
CONSTANTS
    Subs = {ann, ben}
    NoSub = NoSub
    Known = {ann}
    Reqs = {r1, r2}
    MaxId = 3
    MaxChange = 2
    Faults = {"statement"}
SPECIFICATION Spec
SYMMETRY Symmetric
CHECK_DEADLOCK FALSE
INVARIANTS
    TypeOK
    OneUserPerAccount
PROPERTIES
    AddressNeverOlder
    ImplementsDirectory
