\* Two callers, two conversations, two requests in progress, six message ids;
\* tokens cost nothing; anything may fail.
CONSTANTS
    Users = {alice, bob}
    Owners = {}
    NoUser = NoUser
    ConvIds = {c1, c2}
    NoConv = NoConv
    Reqs = {r1, r2}
    Budget = 1
    MaxCost = 0
    MaxId = 6
    Faults = {"statement", "read", "upstream", "abandon"}
SPECIFICATION Spec
SYMMETRY Symmetric
CHECK_DEADLOCK FALSE
INVARIANTS
    TypeOK
    OwnershipHolds
    MarksOfAnAnswer
PROPERTY ImplementsTranscript
