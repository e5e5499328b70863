SPECIFICATION Spec
CONSTANTS
    Actors <- None
    Failures <- None
    AnySwitch = TRUE
    RecoveryMax = 1
INVARIANTS
    AwakeTouchFires
