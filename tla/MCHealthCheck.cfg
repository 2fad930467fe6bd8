CONSTANTS
    j1 = j1
    j2 = j2
    Jobs <- TwoJobs
    NumWorkers = 2
    MaxWaiting = 1
    Confs <- Located
    Nowhere = Nowhere
    Unknown <- MCUnknown
    UpCount = 2
    DownCount <- MCDown
    MaxChanges = 1
    MaxFailures = 0
SPECIFICATION Spec
INVARIANT OneTicket
INVARIANT StoppedIsIdle
INVARIANT StatusIsEarned
SYMMETRY JobSymmetry
\* The checker really stops after ShutDown.
CHECK_DEADLOCK FALSE
