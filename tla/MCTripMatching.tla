--------------------------- MODULE MCTripMatching ---------------------------
(* Model-checking instances of TripMatching. *)
EXTENDS TripMatching

CONSTANTS d1, d2, p1, p2

MCDriver2 == {d1, d2}
MCDriver1 == {d1}
MCPassenger2 == {p1, p2}
MCPassenger1 == {p1}
=============================================================================
