SPECIFICATION Spec
CONSTANTS
    t1 = t1
    t2 = t2
    n1 = n1
    c1 = c1
    r1 = r1
    r2 = r2
    Threads = {t1, t2}
    Names = {n1}
    EmptyName = EmptyName
    Rules = {c1, r1, r2}
    NoRule = NoRule
    NativeRules = {r1, r2}
    UserDrop = {r1, r2}
    Free = Free
    MaxDepth = 3
    MaxCalls = 5
SYMMETRY Symmetry
CHECK_DEADLOCK FALSE
INVARIANTS
    RefsCountOwners
    NoUseAfterDrop
    OnlyDestructorsDeadlock
PROPERTIES
    PoisonStopsRules
    ImplementsPoisonableStore
