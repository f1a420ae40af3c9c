SPECIFICATION Spec
CONSTANTS
    Keys = {k1, k2}
    Sessions = {1, 2}
    MaxFileId = 4
CHECK_DEADLOCK FALSE
INVARIANTS
    TypeOK
    LinkedApart
    CratesResolve
    SearchInView
