CONSTANTS
    stockChanged = stockChanged
    search = search
    realtime = realtime
    i1 = i1
    i2 = i2
    Events = {stockChanged}
    Queues = {search, realtime}
    Route <- MCRoute
    Instances = {i1, i2}
    MaxAttempts = 2
    Workers <- MCWorkers
    MaxReplays <- MCMaxReplays
    MaxFaults = 2
SPECIFICATION OutboxFairSpec
CHECK_DEADLOCK FALSE
INVARIANTS
    PublishedIsQueued
    CompletedIsApplied
    RepeatedForCause
PROPERTIES
    PublishedIsFinal
    EventsSettle
