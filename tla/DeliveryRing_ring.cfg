\* One restaurant with one kitchen, three courier nodes (2 is the leader),
\* two orders: no kitchen loses its wake-up, no order is delivered twice,
\* and every order a customer places is delivered.
CONSTANTS
    N = 3
    Order <- MCOrder
    o1 = o1
    o2 = o2
    Cocina <- MCCocina
    IdRestaurante = r1
SPECIFICATION Spec
INVARIANT TypeOK NoDoubleDelivery KitchenAwake
PROPERTY OrdersDelivered
CHECK_DEADLOCK FALSE
