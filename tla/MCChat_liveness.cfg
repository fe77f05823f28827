\* No statement fails and no client leaves; the model call may fail.  One
\* caller under the budget and the owner; three calls of at most two tokens.
CONSTANTS
    Users = {alice, olga}
    Owners = {olga}
    NoUser = NoUser
    ConvIds = {c1}
    NoConv = NoConv
    Reqs = {r1, r2}
    Budget = 2
    MaxCost = 2
    MaxId = 6
    Faults = {"upstream"}
SPECIFICATION FairSpec
CHECK_DEADLOCK FALSE
INVARIANTS
    BudgetOvershootBounded
    OneNamer
PROPERTIES
    SendEnds
    ReplyIsCharged
