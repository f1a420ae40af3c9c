SPECIFICATION Spec
CONSTANTS
    Callers = {c1, c2, c3}
    Projects = {p1}
    Loads = {l1, l2, l3}
    NoLoad = NoLoad
    MaxDisk = 2
INVARIANTS
    TypeOK
    EntryHasOneLeader
PROPERTIES
    ContentMonotone
    OnlyReloadReplaces
    CallReturns
