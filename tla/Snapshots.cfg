SPECIFICATION Spec
CONSTANTS
    Sessions = {s1, s2}
    Loaders = {l}
    Double = {s1}
    MaxCommits = 1
    MaxEdits = 1
CHECK_DEADLOCK FALSE
INVARIANTS
    TypeOK
    SnapshotsAgree
    NeverCancelsOthers
    CollectsAlone
PROPERTIES
    CallsReturn
