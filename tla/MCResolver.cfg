SPECIFICATION Spec
CONSTANTS
    Zones <- MCZones
    Locations <- MCLocations
    Contents <- ManyContents
    Requests <- ManyRequests
    BusyContents <- FewContents
    BusyRequests <- FewRequests
    MaxHops = 2
    MaxChanges = 2
    MaxFailures = 1
INVARIANTS
    NameErrorIsTrue
    AnswerChain
    QuietDenialIsTrue
    NegativeIsComplete
    SignedSetsVerify
PROPERTIES
    Responds
\* The model is one request: it stops when it is answered.
CHECK_DEADLOCK FALSE
