SPECIFICATION Spec
CONSTANTS
    t1 = t1
    t2 = t2
    h1 = h1
    x1 = x1
    x2 = x2
    Threads = {t1, t2}
    Handles = {h1}
    Texts = {x1, x2}
    NulTexts = {x2}
    Empty = Empty
    NoObject = NoObject
    Lengths = {3, 4, 8, 16}
    Counts = {0, 1, 2, 3, 4}
    MaxWord = 31
SYMMETRY Symmetry
INVARIANTS
    TypeOK
    LoansHold
    MessageIsOwn
    CountFitsPayload
