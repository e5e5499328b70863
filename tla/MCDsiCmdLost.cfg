SPECIFICATION Spec
CONSTANTS
    Lens <- SomeLens
    Embedded = 8
    Size = 16
    MaxOvertakes = 0
    MaxOrphans = 0
INVARIANTS
    DoneIsKept
