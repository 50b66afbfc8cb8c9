\* Writers, readers and a rotation of one row per batch on one secret, of which
\* one version is retained; the keyring may be switched at any time.
SPECIFICATION FairSpec
CONSTANTS
    Proc = {p1, p2}
    Secret = {1}
    Old = 1
    New = 2
    RetentionLimit = 1
    BatchLimit = 1
    Workload <- MCWorkload
INVARIANTS RetentionWindow NoLostUpdate PlaintextIsAudited
PROPERTIES PurgesAreLedgered RotationCountsExact EveryOperationEnds
