CONSTANTS
    c1 = c1
    c2 = c2
    Clients <- TwoClients
    MaxLimiters = 4
    Minute = 6
    Rate = 3
    Burst = 1
    MaxNow = 9
SPECIFICATION Spec
INVARIANT BucketBound
INVARIANT OneBurst
INVARIANT BurstPerClient
SYMMETRY ClientSymmetry
\* The clock stops at its bound.
CHECK_DEADLOCK FALSE
