SPECIFICATION FairSpec
CONSTANTS
    MaxVote = 4
    Panels <- AllPanels
    Jobs <- AllJobs
    Faults <- Recoverable
    MaxFaults = 2
INVARIANTS
    TypeOK
    TransfersAreFed
    BlankReleases
    SuppliesMatch
    NextAttemptWorks
    LanesAwake
    CallersNest
PROPERTIES
    CallsReturn
