SPECIFICATION Spec
CONSTANTS
    Zones <- MCZones
    Locations <- MCLocations
    Contents <- ManyContents
    Requests <- ManyRequests
    BusyContents <- FewContents
    BusyRequests <- FewRequests
    MaxHops = 2
    MaxChanges = 0
    MaxFailures = 0
INVARIANTS
    AnameToNothingFails
\* The model is one request: it stops when it is answered.
CHECK_DEADLOCK FALSE
