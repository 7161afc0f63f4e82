SPECIFICATION MCSpec
CONSTANTS
    Host = {1, 2}
    InitialRange = 0
    MaxRange = 2
    MaxOperation = 2
    Prober = {p1}
    MaxFault = 1
    Nil = Nil
    Tab = {1, 2}
    SubBuffer = 2
    MaxEvent = 4
    Count = 3
    BatchConcurrency = 2
    ReportEvery = 2
    MaxPods = 2
INVARIANTS OneOwner WipedStoreIsIdle SuccessServes ChannelsCloseOnce SlowTabCostsNoOther
PROPERTIES SomebodyOwns OperationEnds WorkerComesBack StreamsEnd BatchComesBack
CHECK_DEADLOCK FALSE
