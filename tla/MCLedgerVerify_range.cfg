\* A range of the auditor command that does not begin at 1.
SPECIFICATION Spec
CONSTANTS
    p1 = p1
    p2 = p2
    s1 = s1
    o1 = o1
    o2 = o2
    Version <- MCVersion
    Material <- MCMaterial
    Config <- MCConfig
    Server <- MCServer
    Operator <- OneOperator
    Bootstrap = 1
    First = p1
    MaxEntries = 4
    MaxRows = 3
    MaxTroubles = 0
INVARIANT
    AuditorRangeVerifies
