CONSTANTS
    zoneList = zoneList
    zoneKeys = zoneKeys
    k1 = k1
    Subs <- MCSubs
    Keys <- MCKeys
    MaxPending = 2
SPECIFICATION ShutSpec
INVARIANT ReceiverIsSafe
INVARIANT PscTellsReceiver
INVARIANT ReturnMeansStopped
PROPERTY Reconnects
PROPERTY ImplementsChannel
PROPERTY ShutDownReturns
\* The subscriptions really stop after a quit.
CHECK_DEADLOCK FALSE
