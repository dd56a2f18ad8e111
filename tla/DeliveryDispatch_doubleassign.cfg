\* No double assignment (spec 8.4): one worker, two orders.
CONSTANTS
    w1 = w1
    w2 = w2
    Worker <- MCWorkerOne
    Dist <- MCDistOne
    MaxOrders = 2
    MaxDist = 2
    Clients0 = 0
    Registered0 <- MCNoneRegistered
    MaxRetries = 2
SPECIFICATION Spec
INVARIANT NoDoubleAssignment
CHECK_DEADLOCK FALSE
