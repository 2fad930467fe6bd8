SPECIFICATION Spec
CONSTANTS
    c1 = c1
    c2 = c2
    Callers = {c1, c2}
    Clients = {c1, c2}
    Keys = {"A", "ANAME"}
    Targets <- MCTargets
    Contents <- MCContents
    Entries <- MCEntries
    Values <- MCValues
    Bad = Bad
    None = None
    Nobody = Nobody
    MinTTL = 1
    MaxTTL = 3
    Clock = 5
    Timeouts = {4, 6}
    MaxWrites = 1
    MaxReadFailures = 1
    Names = {"t", "u"}
    Servers <- MCServers
    Replies <- MCReplies
    DefaultTtl = 2
    Wrapped = 99
    MaxTime = 2
    MaxAnswers = 2
    MaxTimeouts = 4
INVARIANTS
    ReadIsCurrent
    NothingOfAMoment
    AllServersTried
    OutlivesNothing
SYMMETRY CallerSymmetry
