\* `digest verify` of a generated digest.
SPECIFICATION Spec
CONSTANTS
    FirstMonth = 3
    HoursOfDay = 2
    MonthlyHour = 1
    QuarterlyHour = 1
    MaxTime = 1
    MaxLedger = 8
    Scenario <- MCCalm
INVARIANTS GeneratedSignatureIsValid
CHECK_DEADLOCK FALSE
