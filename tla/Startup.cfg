SPECIFICATION Spec
CONSTANTS
    Clients = {c1, c2}
    Daemons = {d1, d2}
    None = None
CHECK_DEADLOCK FALSE
INVARIANTS
    TypeOK
    NoOrphan
PROPERTIES
    BailMeansNone
    EnsureReturns
