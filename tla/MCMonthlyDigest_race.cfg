\* The scheduler and `digest generate` at the same time.
SPECIFICATION Spec
CONSTANTS
    FirstMonth = 3
    HoursOfDay = 2
    MonthlyHour = 1
    QuarterlyHour = 1
    MaxTime = 1
    MaxLedger = 8
    Scenario <- MCCalm
INVARIANTS OneDigestPerPeriod
CHECK_DEADLOCK FALSE
