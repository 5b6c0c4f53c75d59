CONSTANTS
    j1 = j1
    j2 = j2
    j3 = j3
    Components <- AllComponents
    Abbreviations <- MCAbbreviations
    JobIds <- MCJobIds
    RetryLimit = 5
    MaxCrashes = 2
SPECIFICATION FairSpec
INVARIANTS TypeOK StartsRunner JobsAccountedFor ReportsTheJob
PROPERTIES NoSecondJob LauncherEnds
CHECK_DEADLOCK FALSE
