\* One worker that logs in while two orders are handled: the delivery hand-off from startup.
CONSTANTS
    w1 = w1
    w2 = w2
    Worker <- MCWorkerOne
    Dist <- MCDistOne
    MaxOrders = 2
    MaxDist = 2
    Clients0 = 0
    Registered0 <- MCNoneRegistered
    MaxRetries = 2
SPECIFICATION Spec
INVARIANT TypeOK
INVARIANT NoUnwrapPanic
PROPERTY RequestsAnswered
CHECK_DEADLOCK FALSE
