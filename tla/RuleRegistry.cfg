SPECIFICATION FairSpec
CONSTANTS
    t1 = t1
    t2 = t2
    n1 = n1
    c1 = c1
    c2 = c2
    r1 = r1
    Threads = {t1, t2}
    Names = {n1}
    EmptyName = EmptyName
    Rules = {c1, c2, r1}
    NoRule = NoRule
    NativeRules = {r1}
    UserDrop = {}
    Free = Free
    MaxDepth = 2
    MaxCalls = 4
INVARIANTS
    TypeOK
    CriticalSection
    NoUserCodeUnderLock
    RefsCountOwners
    NoUseAfterDrop
    NothingLeaks
    FailureExplained
PROPERTIES
    ImplementsStore
    ControlReturns
