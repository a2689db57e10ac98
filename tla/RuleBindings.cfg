SPECIFICATION Spec
CONSTANTS
    t1 = t1
    t2 = t2
    c1 = c1
    c2 = c2
    c3 = c3
    n1 = n1
    e = e
    Threads = {t1, t2}
    Rules = {c1, c2, c3}
    Names = {n1, e}
    EmptyName = e
    NoRule = NoRule
    Bindings = {"python", "csharp"}
    MaxDepth = 2
SYMMETRY Symmetry
INVARIANTS
    TypeOK
    CallbackAlive
    RegistryKept
