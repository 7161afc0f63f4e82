SPECIFICATION MCSpec
CONSTANTS
    Nil = Nil
    Scheduled = FALSE
    BucketWidth = 2
    Base = 2
    Width = 3
    TaskIDs = {0, 1, 2}
    BoundIDs = {2, 4}
    Task <- TasksOf
    Bound <- BoundsOf
    Writer = {w1, w2}
    BatchSize = 1
    MaxIDs = {0}
    Host = h1
    Owner = {h1, h2}
    TaskBucketSize = 2
    RangeSize = 3
    MaxLease = 2
    Pass = {1, 2}
    ScanFrom <- Starts
    ScanTo = {0, 2}
    TaskLevel <- Levels
    TaskPage = 1
    CompleteLimit = {0, 1}
    Producer = {p1, p2}
    QueueBucketSize = 2
    FirstQueueMessageID = 0
    MaxMessageID = 3
    MessagePage = 2
    DLQWriter = {v1}
    DLQBucketSize = 2
    DLQTask = {1, 2, 3}
    DLQBound = {0, 2, 4}
    DLQBatch = 1
    Root = root
    Child = child
    NodeID = {1, 2}
    ForkNode = 2
    MaxTxnID = 3
    NodePage = 1
    Entry = {1, 2, 3}
    Together = {1, 2}
    ListPage = {0, 1, 2}
INVARIANTS PagesFollowTheOrder
CHECK_DEADLOCK FALSE
