SPECIFICATION FairSpec
CONSTANTS
    Lens <- SomeLens
    Embedded = 8
    Size = 16
    MaxOvertakes = 1
    MaxOrphans = 1
INVARIANTS
    TypeOK
    LineFollows
    LeaksAreOvertakes
PROPERTIES
    ResultIsTrue
    TransfersReturn
