CONSTANTS
    list = list
    k1 = k1
    k2 = k2
    Subs <- MCSubs
    Keys <- MCKeys
    MaxPending = 1
SPECIFICATION Spec
PROPERTY QuitAlwaysStops
\* The subscriptions really stop after a quit.
CHECK_DEADLOCK FALSE
