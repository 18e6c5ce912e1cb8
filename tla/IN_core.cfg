SPECIFICATION IntakeLiveSpec
CONSTANTS
    Queued = 6
    INTAKE_BATCH_SIZE = 3
    INTAKE_FAILED_RUNS_LIMIT = 5
    INTAKE_REFUSED_BATCHES_LIMIT = 2
    MaxBreaking = 2
    MaxFlakes = 1
    None = None
INVARIANT Isolates
PROPERTY GoodIssuesAreJudged
CHECK_DEADLOCK FALSE
