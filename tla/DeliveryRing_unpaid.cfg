\* Two courier nodes, two orders: an order offered to a node whose courier
\* is delivering the other one overwrites id_pedido_actual, and the Cobrar
\* of the delivery in progress no longer finds its order.
CONSTANTS
    N = 2
    Order <- MCOrder
    o1 = o1
    o2 = o2
    Cocina <- MCCocina
    IdRestaurante = r1
SYMMETRY MCSymmetry
SPECIFICATION Spec
INVARIANT DeliveredOrdersCharged
CHECK_DEADLOCK FALSE
