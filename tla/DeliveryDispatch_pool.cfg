\* Two workers, w1 registered before the first order: the server pool with a near and a far worker.
CONSTANTS
    w1 = w1
    w2 = w2
    Worker <- MCWorker
    Dist <- MCDist
    MaxOrders = 2
    MaxDist = 2
    Clients0 = 0
    Registered0 <- MCRegistered0
    MaxRetries = 2
SPECIFICATION Spec
INVARIANT TypeOK
INVARIANT NoUnwrapPanic
PROPERTY RequestsAnswered
CHECK_DEADLOCK FALSE
