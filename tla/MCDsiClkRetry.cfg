SPECIFICATION Spec
CONSTANTS
    Client = {c1, c2}
    NoClient = none
    Ctrl = {m, s}
    Master = m
    ReqStates <- OnOff
    MaxRef = 2
    MaxDebt = 2
    Faults <- CoreFaults
    MaxFaults = 1
PROPERTIES
    ImmediateOnIsOn
SYMMETRY Symmetry
