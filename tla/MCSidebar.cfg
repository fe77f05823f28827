\* One conversation at first, one created, one user title, two calls; anything
\* may fail.
CONSTANTS
    Old = {o}
    New = {n}
    NoConv = NoConv
    Titles = {t}
    MaxCalls = 2
    Faults = {"network", "server", "title"}
SPECIFICATION FairSpec
CHECK_DEADLOCK FALSE
INVARIANTS
    TypeOK
    InStep
    TitlesAreStored
    NotStranded
PROPERTY NothingHangs
