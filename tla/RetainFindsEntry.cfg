SPECIFICATION Spec
CONSTANTS
    Runtimes = {r1, r2, r3}
    Keys = {1}
    Worlds = {w1, w2, w3, w4}
    NoWorld = NoWorld
    NoRuntime = NoRuntime
    MaxPanics = 1
SYMMETRY Symmetry
INVARIANTS
    RetainFindsEntry
