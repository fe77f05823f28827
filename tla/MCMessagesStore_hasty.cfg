\* A good network; one send, hasty or not. Without the fault, a patient user.
CONSTANTS
    Old = {c1}
    New = {c2}
    Sends = {s1}
    NoSend = NoSend
    MaxText = 1
    Faults = {"hasty"}
SPECIFICATION Spec
CHECK_DEADLOCK FALSE
INVARIANT EveryReplyShown
