\* Every report of every call site, in both allowlist modes, with outages.
SPECIFICATION Spec
CONSTANTS
    MaxOutages = 2
INVARIANTS
    OnlyUnpreparedLost
    BuiltIsStorable
PROPERTIES
    FallbackIsStored
