SPECIFICATION Spec
CONSTANTS
    Scheduled = FALSE
    BucketWidth = 2
    Base = 2
    Width = 3
    TaskIDs = {0, 1, 2}
    BoundIDs = {2, 4}
    Task <- TasksOf
    Bound <- BoundsOf
    Writer = {w1, w2}
    Nil = Nil
PROPERTY
    RetiringIsBestEffort
