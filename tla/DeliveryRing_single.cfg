\* One courier node, its own leader, two orders: after the first delivery
\* its courier keeps the order reported by InfoPedidoEnCurso and declines
\* every later offer, so the second order is never delivered.
CONSTANTS
    N = 1
    Order <- MCOrder
    o1 = o1
    o2 = o2
    Cocina <- MCCocina
    IdRestaurante = r1
SPECIFICATION Spec
PROPERTY OrdersDelivered
CHECK_DEADLOCK FALSE
