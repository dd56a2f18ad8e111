\* One courier node, two orders: the PedidoTomado a courier sends reaches
\* the restaurant node, whose pedidos.remove is keyed by the restaurant's
\* id, so no order is ever reported EnCamino to its customer.
CONSTANTS
    N = 1
    Order <- MCOrder
    o1 = o1
    o2 = o2
    Cocina <- MCCocina
    IdRestaurante = r1
SPECIFICATION Spec
PROPERTY CustomerToldEnCamino
CHECK_DEADLOCK FALSE
