\* Driver and passenger both send FinishTrip.
CONSTANTS
    d1 = d1  d2 = d2  p1 = p1  p2 = p2
    NoDriver = NoDriver  NoPassenger = NoPassenger
    Driver <- MCDriver1
    Passenger <- MCPassenger1
    PeerMayExpire = FALSE
SPECIFICATION Spec
INVARIANT PaymentAtMostOnce
\* Every trip may end and every connection fall quiet: quiescence is no deadlock.
CHECK_DEADLOCK FALSE
