SPECIFICATION Spec
CONSTANTS
    MaxWord = 31
    Cap = 8
    DimValues = {0, 1, 2, 3, 8, 9, 16, 31}
    MaxRank = 4
INVARIANTS
    TypeOK
    WithinCap
    NumelIsProduct
    RefusalsJustified
    NumpyRowMajor
