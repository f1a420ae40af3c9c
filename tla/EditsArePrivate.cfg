SPECIFICATION Spec
CONSTANTS
    Files = {f, root}
    Root = root
    Closed <- NobodyOpensRoot
    s1 = s1
    Sessions = {s1, s2}
    Runtimes = {r1, r2}
    NoRuntime = NoRuntime
    Original = Original
    Nothing = Nothing
    MaxUpsets = 1
INVARIANT EditsArePrivate
