\* Reproduction: a customer recovering while its order is being prepared
\* (or already ready, whose status the code leaves PreparingOrder) makes
\* RecoverOrderData run PrepareOrder again, and GetDeliveries a second time.
CONSTANTS
    MaxConn <- MCMaxConn
    MaxCrashes = 1
    PaymentType = "CreditCard"
SPECIFICATION Spec
INVARIANT DispatchedOnce
CHECK_DEADLOCK FALSE
