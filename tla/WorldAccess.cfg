SPECIFICATION Spec
CONSTANTS
    Tasks = {t1, t2, t3, t4}
    Sessions = {s1, s2}
    NoSession = NoSession
INVARIANTS
    TypeOK
    CountsExact
    NoLostWakeup
PROPERTIES
    WriterGranted
    ImplementsSessionLock
