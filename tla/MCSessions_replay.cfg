\* One session; a token is presented twice; nothing fails.
CONSTANTS
    Users = {alice}
    NoUser = NoUser
    Families = {f1}
    NoFamily = NoFamily
    Reqs = {r1, r2}
    MaxToken = 3
    Faults = {}
SPECIFICATION Spec
CHECK_DEADLOCK FALSE
INVARIANT ReplayEndsFamily
