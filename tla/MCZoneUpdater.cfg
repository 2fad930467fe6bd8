CONSTANTS
    z1 = z1
    z2 = z2
    zoneList = zoneList
    zonesKey = zonesKey
    Zones <- MCZones
    Subs <- MCSubs
    Keys <- MCKeys
    MaxPending = 2
    MaxWrites = 2
    MaxFailures = 2
SPECIFICATION Spec
INVARIANT OnlyKnownCauses
PROPERTY LoadKeepsEnabled
PROPERTY EventuallyCurrent
