CONSTANTS
    j1 = j1
    j2 = j2
    Jobs <- OneJob
    NumWorkers = 1
    MaxWaiting = 1
    Confs <- Anywhere
    Nowhere = Nowhere
    Unknown <- MCUnknown
    UpCount = 1
    DownCount <- MCDown
    MaxChanges = 1
    MaxFailures = 1
SPECIFICATION Spec
PROPERTY TakesOverConfig
PROPERTY Terminates
\* The checker really stops after ShutDown.
CHECK_DEADLOCK FALSE
