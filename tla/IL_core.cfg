SPECIFICATION LiveSpec
CONSTANTS
    BUILD_FAILURE_CAP = 2
    PUBLISH_RETRY_ATTEMPTS = 2
    WriteErrors = {"lost", "applied"}
    CreateErrors = {"lost", "applied"}
    DeleteErrors = {"lost", "applied"}
INVARIANTS HandBacksAreExplained GivesUpAtTheCap DiscardsWithConsent LocalStartsClean StartsFromMain
PROPERTY FailingBuildsAreHandedBack
