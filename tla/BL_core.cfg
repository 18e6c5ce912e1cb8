SPECIFICATION Spec
CONSTANTS
    Runs = {r1, r2, r3}
    Issues = {i1}
    PullRequests = {p1}
    None = None
    MaxAge = 2
    BuildMax = 2
    AddErrors = {"applied"}
    RemoveErrors = {"lost"}
    RoundTripsOverlap = FALSE
INVARIANTS BuildsHoldLabel Exclusive
PROPERTY OrphansOnlyByDeath
SYMMETRY RunSymmetry
