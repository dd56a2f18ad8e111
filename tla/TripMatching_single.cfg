\* One passenger and two drivers; the Coordinator may find no fresh peer and drop the trip,
\* and the reaper may remove the passenger while a driver still answers an offer
\* or between the two awaits of an accepted answer.
CONSTANTS
    d1 = d1  d2 = d2  p1 = p1  p2 = p2
    NoDriver = NoDriver  NoPassenger = NoPassenger
    Driver <- MCDriver2
    Passenger <- MCPassenger1
    PeerMayExpire = TRUE
SPECIFICATION Spec
INVARIANT TypeOK
INVARIANT OneDriverPerPassenger
PROPERTY TripsSettle
\* Every trip may end and every connection fall quiet: quiescence is no deadlock.
CHECK_DEADLOCK FALSE
