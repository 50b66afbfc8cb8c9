\* The scheduler in one window, unattended with failures, or beside the CLI.
SPECIFICATION FairSpec
CONSTANTS
    FirstMonth = 3
    HoursOfDay = 2
    MonthlyHour = 1
    QuarterlyHour = 1
    MaxTime = 1
    MaxLedger = 26
    Scenario <- MCScenario
INVARIANTS OneDigestUnlessRaced VerifiedBeforeDigest ArchivedIsInLedger CompletedIsRecorded
PROPERTIES ExportedWasStored DueJobsComplete ArchiveSettles
CHECK_DEADLOCK FALSE
