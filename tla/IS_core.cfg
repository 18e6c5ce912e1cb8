SPECIFICATION LiveSpec
CONSTANTS
    Drafts = 2
    Errors = {"lost", "applied"}
    MaxRequeues = 1
INVARIANTS HeldTillSplit SplitOnce BuiltInOrder ClosesWhatIsDone HandBacksSayWhy
PROPERTY SplitsClose
CHECK_DEADLOCK FALSE
