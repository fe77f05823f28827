\* A conversation deleted during its stream; nothing fails.
CONSTANTS
    Users = {alice}
    Owners = {}
    NoUser = NoUser
    ConvIds = {c1}
    NoConv = NoConv
    Reqs = {r1, r2}
    Budget = 2
    MaxCost = 1
    MaxId = 6
    Faults = {}
SPECIFICATION FairSpec
CHECK_DEADLOCK FALSE
PROPERTY CompletedCallsCharged
