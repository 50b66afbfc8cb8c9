\* The resend loop and two handlers that detect an incident of their own.
SPECIFICATION Spec
CONSTANTS
    resend_loop = resend_loop
    h1 = h1
    h2 = h2
    siem = siem
    read = read
    Caller <- MCCaller
    Handler <- MCHandler
    Key <- MCKey
    ReadKey = read
    Events = 2
    MaxNow = 2
    MaxFaults = 2
    MaxTroubles = 2
    MaxTotal = 2
    Window = 1
    MaxRetries = 1
    Threshold = 1
INVARIANTS
    BufferedIsKept
    OneIncidentPerWindow
    AnsweredIsOnRecord
PROPERTIES
    LongOutageReported
CHECK_DEADLOCK FALSE
