SPECIFICATION LiveSpec
CONSTANTS
    DeveloperRoles = 2
    FixerAttempts = 2
    EditKinds = {"tracked", "untracked"}
    None = None
INVARIANTS PushedPassedGate NothingLeaks MergeUnrepaired FallsBackToReviewed CountsFailedAttempts
PROPERTY BuildEnds
CHECK_DEADLOCK FALSE
