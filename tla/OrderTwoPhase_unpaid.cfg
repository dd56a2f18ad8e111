\* Reproduction: the customer crashes after check_2pc_decision committed,
\* with commit_order written and commit_payment still in its TcpSender: the
\* restaurant prepares an order the gateway never charges.
CONSTANTS
    MaxConn <- MCMaxConn
    MaxCrashes = 1
    PaymentType = "CreditCard"
SPECIFICATION Spec
PROPERTY OrdersPaid
CHECK_DEADLOCK FALSE
