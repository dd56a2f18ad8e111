\* Two drivers, two passengers: a late decline re-dispatches a reaped passenger.
CONSTANTS
    d1 = d1  d2 = d2  p1 = p1  p2 = p2
    NoDriver = NoDriver  NoPassenger = NoPassenger
    Driver <- MCDriver2
    Passenger <- MCPassenger2
    PeerMayExpire = FALSE
SPECIFICATION Spec
INVARIANT ReaperCannotPanic
\* Every trip may end and every connection fall quiet: quiescence is no deadlock.
CHECK_DEADLOCK FALSE
