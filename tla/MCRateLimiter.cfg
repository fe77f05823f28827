\* One user; a bucket of two tokens, a token every four ticks, two ticks to a
\* second, forgotten as early as the assumption lets them be.
CONSTANTS
    Keys = {u1}
    One = 4
    Rate = 1
    Burst = 2
    Second = 2
    IdleTTL = 8
    MaxTime = 20
SPECIFICATION Spec
CHECK_DEADLOCK FALSE
INVARIANTS
    TypeOK
    RateBounded
    RetrySucceeds
PROPERTY ImplementsTokenBucket
