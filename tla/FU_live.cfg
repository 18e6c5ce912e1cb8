\* One run after the other, and people who push, ask and move main.
SPECIFICATION LiveSpec
CONSTANTS
    Runs = {r1}
    Threads = {"owner"}
    Checks = {"build", "codeql", "code scanning"}
    FOLLOW_UP_PASS_CAP = 1
    MaxMain = 1
    MaxActs = 1
    MaxFaults = 1
PROPERTY SettledOrHandedBack
\* A settled pull request is left alone.
CHECK_DEADLOCK FALSE
