------------------------- MODULE MCDeliveryDispatch -------------------------
(* Model-checking instances of DeliveryDispatch. *)
EXTENDS DeliveryDispatch

CONSTANTS w1, w2

(* w1 lives within MAX_DELIVERY_DISTANCE of the restaurant and w2 outside  *)
(* it, so a list is either the nearby entries or, with w1 absent, the      *)
(* sorted fallback.                                                        *)
MCWorker == {w1, w2}
MCDist == [w \in MCWorker |-> IF w = w1 THEN 1 ELSE 4]
(* w1 logged in and registered before the restaurant's first order; w2     *)
(* starts while orders are handled.                                        *)
MCRegistered0 == <<w1>>
MCWorkerOne == {w1}
MCDistOne == [w \in MCWorkerOne |-> 4]
MCNoneRegistered == <<>>
====
