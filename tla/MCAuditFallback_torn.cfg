\* A single torn line, with everything working afterwards.
SPECIFICATION FairSpec
CONSTANTS
    Event = {1, 2}
    Process = {"server"}
    Server = "server"
    Tearing = TRUE
    Deployment <- MCUnsealed
PROPERTIES DeliveredEventually
