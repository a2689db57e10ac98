SPECIFICATION Spec
CONSTANTS
    p1 = p1
    p2 = p2
    t1 = t1
    t2 = t2
    i1 = i1
    f1 = f1
    d1 = d1
    d2 = d2
    Procs = {p1}
    Threads = {t1, t2}
    Pids = {i1}
    Formulas = {f1}
    Dirs = {d1, d2}
    Workers <- OneProcess
    NoPid = NoPid
    Absent = Absent
    Partial = Partial
    Prebuilt = Prebuilt
    InitialPath <- NoPath
    MaxSessions <- TwoSessions
    MaxCrashes = 1
INVARIANTS
    PathHasCompiler
