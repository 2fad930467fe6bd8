CONSTANTS
    NaN = NaN
    Failed = Failed
    Labels = {"a", "b"}
    MaxLabels = 2
    MaxAddresses = 3
    LastNanosecond = 11
    c1 = c1
    stat = stat
    None = None
    Subs <- MCSubs
    Keys <- MCKeys
    Callers <- MCCallers
    Calls <- MCCalls
    Statuses <- MCStatuses
    InitStores <- MCInitStores
    UpCount = 3
    DownCount <- MCDown
    MaxPending = 1
    MaxWrites = 1
    MaxFaults = 1
SPECIFICATION MCSpec
INVARIANT LookupIsReference
INVARIANT FilterIsReference
INVARIANT OrderIsFair
INVARIANT FilterKeepsBest
INVARIANT StaleStatusHasCause
