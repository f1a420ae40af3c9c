SPECIFICATION Spec
CONSTANT
    MaxFragments = 3
CHECK_DEADLOCK FALSE
INVARIANTS
    TypeOK
    NothingLost
    ExitCode
PROPERTIES
    ProxyEnds
    CountedOut
    RepliesArrive
