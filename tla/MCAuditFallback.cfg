\* The server beside a CLI command, or alone with an event that the database refuses or
\* whose id is taken, or with a file that it seals; crashes and failing writes leave
\* partial lines.
SPECIFICATION FairSpec
CONSTANTS
    Event = {1, 2}
    Process = {"server", "cli"}
    Server = "server"
    Tearing = TRUE
    Deployment <- MCDeployments
INVARIANTS KeptUntilDelivered SentIsStored
PROPERTIES SealedComplete DeliveredUnlessTorn
