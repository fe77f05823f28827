\* Any user and any network; two sends.
CONSTANTS
    Old = {c1}
    New = {c2}
    Sends = {s1, s2}
    NoSend = NoSend
    MaxText = 2
    Faults = {"hasty", "network"}
SPECIFICATION Spec
CHECK_DEADLOCK FALSE
SYMMETRY SendSymmetry
INVARIANTS
    TypeOK
    OneStream
    ReplyShown
    TextIsWhole
    NoRowTwice
    WaitsAreServed
