\* The customer crashes after committing a paid round and before any save
\* records payment_authorized; RecoverData then orders again, and the gateway
\* charges a second round.
CONSTANTS
    MaxConn <- MCMaxConn
    MaxCrashes = 1
    PaymentType = "CreditCard"
SPECIFICATION Spec
INVARIANT PaymentAtMostOnce
CHECK_DEADLOCK FALSE
