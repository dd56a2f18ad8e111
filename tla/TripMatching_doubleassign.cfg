\* Two MakeTrip handlers offering the same driver.
CONSTANTS
    d1 = d1  d2 = d2  p1 = p1  p2 = p2
    NoDriver = NoDriver  NoPassenger = NoPassenger
    Driver <- MCDriver1
    Passenger <- MCPassenger2
    PeerMayExpire = FALSE
SPECIFICATION Spec
INVARIANT NoDoubleAssignment
\* Every trip may end and every connection fall quiet: quiescence is no deadlock.
CHECK_DEADLOCK FALSE
