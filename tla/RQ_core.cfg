SPECIFICATION Spec
CONSTANTS
    MaxMerges = 4
    FirstRelease = FALSE
    None = None
INVARIANT VersionsFollowMerges
PROPERTY ReleasesOldestFirst
