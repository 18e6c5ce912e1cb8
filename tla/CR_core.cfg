SPECIFICATION Spec
CONSTANTS
    i1 = i1
    i2 = i2
    i3 = i3
    Issues = {i1, i2, i3}
    AddErrors = {"lost"}
SYMMETRY IssueSymmetry
INVARIANT NoLoop
CHECK_DEADLOCK FALSE
