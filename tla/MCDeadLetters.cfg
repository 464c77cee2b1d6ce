CONSTANTS
    stockChanged = stockChanged
    search = search
    realtime = realtime
    i1 = i1
    i2 = i2
    Events = {stockChanged}
    Queues = {search, realtime}
    Route <- MCRoute
    Instances = {i1, i2}
    MaxAttempts = 2
    Workers <- MCWorkers
    MaxReplays <- MCMaxReplays
    Listeners = {i1}
    MaxFaults = 1
SPECIFICATION Spec
CHECK_DEADLOCK FALSE
INVARIANTS
    FailureIsRecorded
    ReplayedIsProcessed
