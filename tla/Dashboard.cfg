SPECIFICATION Spec
CONSTANTS
    Limit = 2
    MaxEvents = 6
    MaxTime = 7
    Window = 4
    Retention = 2
    Limits = {1, 6}
    MaxPoints = 3
INVARIANTS ListedOnce NoHoles DeltaNotNegative
PROPERTY AnswerEven
CHECK_DEADLOCK FALSE
