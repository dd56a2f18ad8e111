--------------------------- MODULE MCDeliveryRing ---------------------------
(* Model-checking instances of DeliveryRing. *)
EXTENDS DeliveryRing, TLC

CONSTANTS o1, o2

(* Two orders: the second can reach a node whose courier is busy with the *)
(* first, and one can be reported to the leader while the other travels.  *)
MCOrder == {o1, o2}

(* One kitchen: the second order reaches it while the first cooks or     *)
(* after it has gone idle, the two cases of PedidoACocinar.               *)
MCCocina == 0 .. 0

(* Orders are interchangeable ids. *)
MCSymmetry == Permutations(MCOrder)
=============================================================================
