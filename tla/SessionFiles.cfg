SPECIFICATION Spec
CONSTANTS
    p1 = p1
    p2 = p2
    t1 = t1
    t2 = t2
    i1 = i1
    i2 = i2
    f1 = f1
    f2 = f2
    d1 = d1
    Procs = {p1, p2}
    Threads = {t1, t2}
    Pids = {i1, i2}
    Formulas = {f1, f2}
    Dirs = {d1}
    Workers <- TwoProcesses
    NoPid = NoPid
    Absent = Absent
    Partial = Partial
    Prebuilt = Prebuilt
    InitialPath <- PathOfFirst
    MaxSessions <- SessionsOfEach
    MaxCrashes = 1
SYMMETRY Symmetry
INVARIANTS
    TypeOK
    NamesDiffer
    SessionFileIntact
    TempFilesOwned
    PrebuiltKept
