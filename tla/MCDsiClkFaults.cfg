SPECIFICATION Spec
CONSTANTS
    Client = {c1, c2}
    NoClient = none
    Ctrl = {m, s}
    Master = m
    ReqStates <- OnOff
    MaxRef = 1
    MaxDebt = 2
    Faults <- AllFaults
    MaxFaults = 2
INVARIANTS
    CoreSurvivesFaults
    OrderSurvivesFaults
    NoHsLeak
PROPERTIES
    SuccessFollowsVotes
SYMMETRY Symmetry
