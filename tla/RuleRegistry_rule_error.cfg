SPECIFICATION Spec
CONSTANTS
    t1 = t1
    t2 = t2
    n1 = n1
    c1 = c1
    Threads = {t1, t2}
    Names = {n1}
    EmptyName = EmptyName
    Rules = {c1}
    NoRule = NoRule
    NativeRules = {}
    UserDrop = {}
    Free = Free
    MaxDepth = 1
    MaxCalls = 2
SYMMETRY Symmetry
INVARIANTS
    RuleErrorsReported
