\* One customer paying by card, three restaurant connections, one crash and
\* restart with recover: decisions of every round agree, and every order the
\* restaurant committed to is prepared and offered to the deliveries.
CONSTANTS
    MaxConn <- MCMaxConn
    MaxCrashes = 1
    PaymentType = "CreditCard"
SPECIFICATION Spec
INVARIANT TypeOK DecisionsAgree
PROPERTY CommittedOrdersReady
CHECK_DEADLOCK FALSE
