SPECIFICATION Spec
CONSTANTS
    t1 = t1
    t2 = t2
    c1 = c1
    c2 = c2
    n1 = n1
    e = e
    Threads = {t1, t2}
    Rules = {c1, c2}
    Names = {n1, e}
    EmptyName = e
    NoRule = NoRule
    Bindings = {"python"}
    MaxDepth = 2
SYMMETRY Symmetry
INVARIANTS
    NoDeadCallback
