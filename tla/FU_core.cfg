\* Two runs at once, each of which may die or lose a call.
SPECIFICATION Spec
CONSTANTS
    Runs = {r1, r2}
    Threads = {"bot"}
    Checks = {"build"}
    FOLLOW_UP_PASS_CAP = 1
    MaxMain = 1
    MaxActs = 1
    MaxFaults = 1
INVARIANTS PassesCapped FixesAreInThePullRequest
PROPERTY AnswersOnce
\* A settled pull request is left alone.
CHECK_DEADLOCK FALSE
SYMMETRY RunSymmetry
