\* One passenger, two drivers: a driver's acceptance is handled while a
\* ReapDeadDrivers sweep waits in the Storage mailbox behind GetPassenger.
\* TLC finds StartedPassengerStored violated: StartTrip reached both clients,
\* then the sweep removed the still-Waiting driver and the passenger.
CONSTANTS
    d1 = d1  d2 = d2  p1 = p1  p2 = p2
    NoDriver = NoDriver  NoPassenger = NoPassenger
    Driver <- MCDriver2
    Passenger <- MCPassenger1
    PeerMayExpire = TRUE
SPECIFICATION Spec
INVARIANT StartedPassengerStored
CHECK_DEADLOCK FALSE
