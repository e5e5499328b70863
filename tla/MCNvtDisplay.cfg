SPECIFICATION FairSpec
CONSTANTS
    Actors <- NoRecovery
    Failures <- AllFailures
    AnySwitch = FALSE
    RecoveryMax = 1
INVARIANTS
    TypeOK
    FollowsDisplay
PROPERTIES
    CallsReturn
    DisplayOnWakes
