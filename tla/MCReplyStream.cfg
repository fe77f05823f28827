\* Every body of up to three lines, cut anywhere.
CONSTANTS
    MaxLines = 3
    Faults = {"database", "network"}
SPECIFICATION Spec
CHECK_DEADLOCK FALSE
INVARIANTS
    TypeOK
    HandledAsWritten
    StoredAsSaid
    OneVerdict
