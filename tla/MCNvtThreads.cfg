SPECIFICATION Spec
CONSTANTS
    Actors <- All
    Failures <- AllFailures
    AnySwitch = FALSE
    RecoveryMax = 1
INVARIANTS
    IrqFollowsMode
    IrqBalanced
    NoStuckTouch
