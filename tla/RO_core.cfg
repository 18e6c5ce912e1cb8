SPECIFICATION Spec
CONSTANTS
    i1 = i1
    i2 = i2
    i3 = i3
    a = a
    b = b
    dir = dir
    Paths = {a, b, dir}
    Covers <- MCCovers
    Copies = {}
    Issues = {i1, i2, i3}
    Nobody = Nobody
    FileLists <- MCFileLists
    ChangedFiles <- MCChangedFiles
    MAX_ITERATIONS = 2
    MaxPRs = 2
SYMMETRY IssueSymmetry
INVARIANTS BuildsDisjoint BuildsClearOfPRs HeldBehindWork
PROPERTIES EveryRoundCounts HoldsLastForAReason
CHECK_DEADLOCK FALSE
