\* Keys and verdicts: two versions of the key, one server and two operators, one trouble.
SPECIFICATION ApartSpec
CONSTANTS
    p1 = p1
    p2 = p2
    s1 = s1
    o1 = o1
    o2 = o2
    Version <- MCVersion
    Material <- MCMaterial
    Config <- MCConfig
    Server <- MCServer
    Operator <- TwoOperators
    Bootstrap = 1
    First = p1
    MaxEntries = 3
    MaxRows = 2
    MaxTroubles = 1
SYMMETRY Symmetry
INVARIANTS
    SignedAfterActivation
    LifecycleIsLedgered
    GenuineVerifies
    DamageIsFound
