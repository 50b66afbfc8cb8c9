\* Requests of the auditor UI, or the background checks, on one server.
SPECIFICATION FairSpec
CONSTANTS
    k1 = k1
    k2 = k2
    e1 = e1
    r1 = r1
    Request <- MCRequest
    Key <- MCKey
    Rs256 <- MCRs256
    JwksSets <- MCJwksSets
    RateLimit = 1
    Check = {"integrity", "restore"}
    Loads = {{"requests"}, {"checks"}}
    MaxTroubles = 2
INVARIANTS
    AnsweredIsAudited
PROPERTIES
    ServerFollows
    FindingReported
CHECK_DEADLOCK FALSE
