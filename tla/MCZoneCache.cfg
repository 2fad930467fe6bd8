CONSTANTS
    c1 = c1
    c2 = c2
    zoneKeys = zoneKeys
    zoneName = zoneName
    Subs <- MCSubs
    Keys <- MCKeys
    Clients <- MCClients
    Values <- MCValues
    InitStores <- MCInitStores
    MaxPending = 1
    MaxWrites = 1
    MaxFailures = 1
SPECIFICATION Spec
INVARIANT SignedHasKeys
INVARIANT StaleHasCause
PROPERTY EventuallyServesCurrent
