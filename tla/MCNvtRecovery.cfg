SPECIFICATION Spec
CONSTANTS
    Actors <- Recovery
    Failures <- None
    AnySwitch = FALSE
    RecoveryMax = 1
INVARIANTS
    FollowsDisplay
