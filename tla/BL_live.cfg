SPECIFICATION LiveSpec
CONSTANTS
    Runs = {r1, r2}
    Issues = {}
    PullRequests = {p1}
    None = None
    MaxAge = 1
    BuildMax = 1
    AddErrors = {"lost", "applied"}
    RemoveErrors = {}
    RoundTripsOverlap = TRUE
PROPERTY LabelsDoNotStick
