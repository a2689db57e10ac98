SPECIFICATION WrapperSpec
CONSTANTS
    w1 = w1
    w2 = w2
    w3 = w3
    o1 = o1
    o2 = o2
    a = a
    b = b
    Holders = {w1, w2, w3}
    Objects = {o1, o2}
    Closers = {a, b}
    Null = Null
    Bindings = {"cpp", "python", "csharp"}
    MaxSize = 3
    RuleCap = 2
    Stable = FALSE
    MaxInputs = 2
SYMMETRY Symmetry
INVARIANTS
    WrapperTypeOK
    RtwBytesExact
    WithinCapacity
    RunExactOrThrows
    ClosedThrows
    BufferLifetimes
    HandlesOwned
    NoUseAfterFree
    NothingLost
