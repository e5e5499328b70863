SPECIFICATION FairSpec
CONSTANTS
    Client = {c1, c2}
    NoClient = none
    Ctrl = {m, s}
    Master = m
    ReqStates <- OnOff
    MaxRef = 2
    MaxDebt = 2
    Faults <- NoFaults
    MaxFaults = 0
INVARIANTS
    TypeOK
    VotesDecideState
    ClocksMatchState
    NoUnderflow
    GrantedClocksRun
PROPERTIES
    ImmediateOnIsOn
    DomainsAreShared
