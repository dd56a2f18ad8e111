--------------------------- MODULE DeliveryRing ---------------------------
(***************************************************************************)
(* The order flow of PedidosRust (alandavies): a restaurant and its       *)
(* kitchens (src/restaurantes) prepare an order, and the courier ring      *)
(* (src/repartidores) delivers it.                                         *)
(*                                                                         *)
(* Restaurant side: the NodoRestaurante receives a customer's Pedir and    *)
(* passes it to its Restaurante actor, which hands it to one of its Cocina *)
(* actors round robin.  A Cocina batches the orders queued while it cooks; *)
(* each cooked order goes back as PedidoCocido, the Restaurante reports it *)
(* Listo, and the NodoRestaurante sends PedidoListo to some courier node.  *)
(*                                                                         *)
(* Courier side: one process per courier port, each running two actors on *)
(* one thread, the NodoRepartidor (ring member) and the Repartidor (the    *)
(* courier).  A node offers the order to its courier or, when busy or      *)
(* declined, to the next node of the ring; a courier that accepts travels  *)
(* (PedidoTomado, forwarded to the restaurant), arrives (LlegoPedido) and  *)
(* asks its node to charge (Cobrar); the node then reports the order to    *)
(* the leader (InfoPedidoEnCurso).                                         *)
(*                                                                         *)
(* Handlers run one at a time from each actor's FIFO mailbox.  Every       *)
(* ResponseActFuture a handler returns is spawned: it runs later, after    *)
(* the mailbox is drained, and its .map closure writes the actor's state   *)
(* then.  TCP messages between nodes use one connection each, so they are  *)
(* delivered in any order.  There is one restaurant node, its own leader.  *)
(* The courier leader is the one the ring election settles on (the largest *)
(* port); the elections, KeepAlive and crashes are not part of this module.*)
(***************************************************************************)
EXTENDS Naturals, Sequences, FiniteSets

CONSTANTS
    N,          \* number of courier nodes, ports 0 .. N-1 of rango_nodos
    Order,      \* order ids (model values)
    Cocina,     \* the restaurant's kitchens, 0 .. cantidad_cocinas-1
    IdRestaurante \* the restaurant's id (a model value, not an order id)

ASSUME N \in Nat \ {0}
ASSUME Cocina = 0 .. Cardinality(Cocina) - 1 /\ Cocina # {}

Node == 0 .. N-1
None == "None"
Lider == N - 1                 \* the election's puerto_maximo

SiguienteNoWrap(n) ==
    \* mutant: the last port's next is not wrapped to the first
    n + 1

\* NodoRepartidor::new: the next port, wrapping at the end of rango_nodos.
Siguiente(n) == IF n = N - 1 THEN 0 ELSE n + 1

Msg(k, o) == [kind |-> k, order |-> o]
MsgKinds == {"OfrecerPedido", "PedidoTomado", "LlegoPedido", "Cobrar", "InfoPedidoEnCurso"}
\* Messages of the NodoRestaurante (Pedir, ProgresoPedido by its state,
\* PedidoTomado), the Restaurante (Pedir, PedidoCocido) and a Cocina.
RestKinds == {"Pedir", "Preparando", "Listo", "PedidoTomado", "PedidoCocido"}
CocinaMsgs == {Msg("PedidoACocinar", o) : o \in Order} \cup {Msg("IniciarCoccion", None)}

(* A spawned future of a NodoRepartidor, by the stage it has reached:     *)
(*   "ask"     offer future, repartidor.send not yet polled               *)
(*   "wait"    offer future awaiting the courier's answer                 *)
(*   "forward" offer future declined: offers to siguiente, then the map   *)
(*             clears id_pedido_actual                                    *)
(*   "report"  offer future accepted: InfoPedidoEnCurso to the leader      *)
(*   "udp"     LlegoPedido future: notifies the customer, then the map    *)
(*             clears id_pedido_actual                                    *)
Fut(s, o) == [stage |-> s, order |-> o]
Stages == {"ask", "wait", "forward", "report", "udp"}

VARIABLES
    idPedidoActual,   \* NodoRepartidor.id_pedido_actual
    nodeBox,          \* NodoRepartidor mailbox
    futs,             \* NodoRepartidor spawned futures
    pedidoActual,     \* Repartidor.pedido_actual
    courierBox,       \* Repartidor mailbox
    entrega,          \* Repartidor delivery future: its order and stage
    net,              \* TCP messages in flight, [to, msg]
    released,         \* orders a restaurant has sent as PedidoListo
    delivered,        \* orders whose delivery future has finished
    billed,           \* orders whose Cobrar a node has handled
    paid,             \* orders a node has sent to the payment gateway
    nodoRestBox,      \* NodoRestaurante mailbox
    pedidos,          \* NodoRestaurante.pedidos (keys)
    listos,           \* NodoRestaurante futures sending PedidoListo
    restBox,          \* Restaurante mailbox
    pedidosRecibidos, \* Restaurante.pedidos_recibidos (keys)
    cocinaProxima,    \* Restaurante.cocina_proxima
    cocinaBox,        \* Cocina mailboxes
    cola,             \* Cocina.pedidos, the VecDeque of queued orders
    cocinaEnUso,      \* Cocina.cocina_en_uso
    despertar,        \* Cocina: the actix::spawn task sending IniciarCoccion
    cocinando,        \* Cocina: the cooking future is running
    coccion,          \* Cocina: the cooking future's orders left
    ordered,          \* orders a customer has sent as Pedir
    enCamino          \* orders whose customer was told EnCamino

ringVars == <<idPedidoActual, nodeBox, futs, pedidoActual, courierBox, entrega,
              net, delivered, billed, paid>>
kitchenVars == <<restBox, pedidosRecibidos, cocinaProxima, cocinaBox, cola,
                 cocinaEnUso, despertar, cocinando, coccion>>
restVars == <<nodoRestBox, pedidos, listos, released, ordered, enCamino>>
vars == <<ringVars, kitchenVars, restVars>>

Init ==
    /\ idPedidoActual = [n \in Node |-> None]
    /\ nodeBox = [n \in Node |-> <<>>]
    /\ futs = [n \in Node |-> {}]
    /\ pedidoActual = [n \in Node |-> None]
    /\ courierBox = [n \in Node |-> <<>>]
    /\ entrega = [n \in Node |-> [order |-> None, stage |-> "idle"]]
    /\ net = {}
    /\ released = {}
    /\ delivered = {}
    /\ billed = {}
    /\ paid = {}
    /\ nodoRestBox = <<>>
    /\ pedidos = {}
    /\ listos = {}
    /\ restBox = <<>>
    /\ pedidosRecibidos = {}
    /\ cocinaProxima = 0
    /\ cocinaBox = [k \in Cocina |-> <<>>]
    /\ cola = [k \in Cocina |-> <<>>]
    /\ cocinaEnUso = [k \in Cocina |-> FALSE]
    /\ despertar = [k \in Cocina |-> FALSE]
    /\ cocinando = [k \in Cocina |-> FALSE]
    /\ coccion = [k \in Cocina |-> <<>>]
    /\ ordered = {}
    /\ enCamino = {}

\* A spawned future of actor n is polled only once its mailbox is empty.
Drained(box, n) == box[n] = <<>>

-----------------------------------------------------------------------------
(* NodoRestaurante (the restaurant node), one handler per message at the  *)
(* head of its mailbox.                                                    *)

\* A customer's Pedir reaches the restaurant node (NodoComensal, over TCP).
Pedir(o) ==
    /\ o \notin ordered
    /\ ordered' = ordered \cup {o}
    /\ nodoRestBox' = Append(nodoRestBox, Msg("Pedir", o))
    /\ UNCHANGED <<ringVars, kitchenVars, pedidos, listos, released, enCamino>>

\* Handler<Pedir>, the order is for this restaurant: it is kept in pedidos
\* and do_sent to the Restaurante.  (AgregarPedidoEnCurso to the leader
\* fills pedidos_en_curso, read only when a node is found dead.)
PedirNodo(o) ==
    /\ pedidos' = pedidos \cup {o}
    /\ restBox' = Append(restBox, Msg("Pedir", o))
    /\ UNCHANGED <<listos, enCamino>>

\* Handler<ProgresoPedido>: a Listo order found in pedidos returns the
\* future that sends PedidoListo; any other known order is a UDP notice.
ProgresoPedidoNodo(estado, o) ==
    /\ listos' = IF estado = "Listo" /\ o \in pedidos THEN listos \cup {o} ELSE listos
    /\ UNCHANGED <<pedidos, restBox, enCamino>>

\* Handler<PedidoTomado> for this restaurant: pedidos.remove is keyed by
\* the restaurant's id; only a removed entry tells the customer EnCamino
\* and sends EliminarPedidoEnCurso to the leader.
PedidoTomadoRestaurante(o) ==
    /\ pedidos' = pedidos \ {IdRestaurante}
    /\ enCamino' = IF IdRestaurante \in pedidos THEN enCamino \cup {o} ELSE enCamino
    /\ UNCHANGED <<listos, restBox>>

HandleNodoRestaurante ==
    /\ nodoRestBox # <<>>
    /\ LET m == Head(nodoRestBox) IN
       /\ nodoRestBox' = Tail(nodoRestBox)
       /\ CASE m.kind = "Pedir"        -> PedirNodo(m.order)
            [] m.kind = "PedidoTomado" -> PedidoTomadoRestaurante(m.order)
            [] OTHER                   -> ProgresoPedidoNodo(m.kind, m.order)
    /\ UNCHANGED <<ringVars, released, ordered, pedidosRecibidos, cocinaProxima,
                   cocinaBox, cola, cocinaEnUso, despertar, cocinando, coccion>>

\* The Listo future: PedidoListo goes to the first courier port of a
\* shuffled list that accepts a connection.
EnviarPedidoListo(o, n) ==
    /\ o \in listos
    /\ listos' = listos \ {o}
    /\ released' = released \cup {o}
    /\ net' = net \cup {[to |-> n, msg |-> Msg("OfrecerPedido", o)]}
    /\ UNCHANGED <<idPedidoActual, nodeBox, futs, pedidoActual, courierBox,
                   entrega, delivered, billed, paid, kitchenVars,
                   nodoRestBox, pedidos, ordered, enCamino>>

-----------------------------------------------------------------------------
(* Restaurante.                                                            *)

\* enviar_a_cocina: PedidoACocinar to cocina_proxima, round robin.
EnviarACocina(o) ==
    /\ cocinaBox' = [cocinaBox EXCEPT ![cocinaProxima] = Append(@, Msg("PedidoACocinar", o))]
    /\ cocinaProxima' = (cocinaProxima + 1) % Cardinality(Cocina)

\* Handler<Pedir>: pedidos_recibidos.insert, enviar_a_cocina, then
\* ProgresoPedido Preparando to the node.
PedirRestaurante(o) ==
    /\ pedidosRecibidos' = pedidosRecibidos \cup {o}
    /\ EnviarACocina(o)
    /\ nodoRestBox' = Append(nodoRestBox, Msg("Preparando", o))

\* Handler<PedidoCocido>: an order in pedidos_recibidos is reported Listo.
PedidoCocido(o) ==
    /\ nodoRestBox' = IF o \in pedidosRecibidos
                      THEN Append(nodoRestBox, Msg("Listo", o)) ELSE nodoRestBox
    /\ UNCHANGED <<pedidosRecibidos, cocinaBox, cocinaProxima>>

HandleRestaurante ==
    /\ restBox # <<>>
    /\ LET m == Head(restBox) IN
       /\ restBox' = Tail(restBox)
       /\ IF m.kind = "Pedir" THEN PedirRestaurante(m.order) ELSE PedidoCocido(m.order)
    /\ UNCHANGED <<ringVars, pedidos, listos, released, ordered, enCamino,
                   cola, cocinaEnUso, despertar, cocinando, coccion>>

-----------------------------------------------------------------------------
(* Cocina k.                                                               *)

\* Handler<PedidoACocinar>: push_back; a kitchen not in use is marked in
\* use and a task is spawned to send it IniciarCoccion.
PedidoACocinar(k, o) ==
    /\ cola' = [cola EXCEPT ![k] = Append(@, o)]
    /\ cocinaEnUso' = [cocinaEnUso EXCEPT ![k] = TRUE]
    /\ despertar' = IF cocinaEnUso[k] THEN despertar ELSE [despertar EXCEPT ![k] = TRUE]
    /\ UNCHANGED <<cocinando, coccion>>

\* Handler<IniciarCoccion>: the queue is drained; an empty one frees the
\* kitchen, otherwise the drained orders become the cooking future.
IniciarCoccion(k) ==
    /\ \/ /\ cola[k] = <<>>
          /\ cocinaEnUso' = [cocinaEnUso EXCEPT ![k] = FALSE]
          /\ UNCHANGED <<cocinando, coccion>>
       \/ /\ cola[k] # <<>>
          /\ cocinando' = [cocinando EXCEPT ![k] = TRUE]
          /\ coccion' = [coccion EXCEPT ![k] = cola[k]]
          /\ UNCHANGED cocinaEnUso
    /\ cola' = [cola EXCEPT ![k] = <<>>]
    /\ UNCHANGED despertar

HandleCocina(k) ==
    /\ cocinaBox[k] # <<>>
    /\ LET m == Head(cocinaBox[k]) IN
       /\ cocinaBox' = [cocinaBox EXCEPT ![k] = Tail(@)]
       /\ IF m.kind = "PedidoACocinar" THEN PedidoACocinar(k, m.order) ELSE IniciarCoccion(k)
    /\ UNCHANGED <<ringVars, restVars, restBox, pedidosRecibidos, cocinaProxima>>

\* The spawned task: self_addr.send(IniciarCoccion).
Despertar(k) ==
    /\ despertar[k]
    /\ despertar' = [despertar EXCEPT ![k] = FALSE]
    /\ cocinaBox' = [cocinaBox EXCEPT ![k] = Append(@, Msg("IniciarCoccion", None))]
    /\ UNCHANGED <<ringVars, restVars, restBox, pedidosRecibidos, cocinaProxima,
                   cola, cocinaEnUso, cocinando, coccion>>

\* The cooking future, one order per 750 ms: do_send(PedidoCocido).
Cocinar(k) ==
    /\ cocinando[k] /\ coccion[k] # <<>>
    /\ restBox' = Append(restBox, Msg("PedidoCocido", Head(coccion[k])))
    /\ coccion' = [coccion EXCEPT ![k] = Tail(@)]
    /\ UNCHANGED <<ringVars, restVars, pedidosRecibidos, cocinaProxima, cocinaBox,
                   cola, cocinaEnUso, despertar, cocinando>>

FinCoccionSilent(k) ==
    \* mutant: the future ends without sending IniciarCoccion again
    /\ cocinando[k] /\ coccion[k] = <<>>
    /\ cocinando' = [cocinando EXCEPT ![k] = FALSE]
    /\ UNCHANGED <<ringVars, restVars, restBox, pedidosRecibidos, cocinaProxima,
                   cocinaBox, cola, cocinaEnUso, despertar, coccion>>

\* The cooking future's end: self_addr.send(IniciarCoccion).
FinCoccion(k) ==
    /\ cocinando[k] /\ coccion[k] = <<>>
    /\ cocinando' = [cocinando EXCEPT ![k] = FALSE]
    /\ cocinaBox' = [cocinaBox EXCEPT ![k] = Append(@, Msg("IniciarCoccion", None))]
    /\ UNCHANGED <<ringVars, restVars, restBox, pedidosRecibidos, cocinaProxima,
                   cola, cocinaEnUso, despertar, coccion>>

-----------------------------------------------------------------------------
(* Courier ring.                                                           *)

\* TcpOyente: a message read from a connection is do_sent to the node.
Deliver(d) ==
    /\ d \in net
    /\ net' = net \ {d}
    /\ nodeBox' = [nodeBox EXCEPT ![d.to] = Append(@, d.msg)]
    /\ UNCHANGED <<idPedidoActual, futs, pedidoActual, courierBox, entrega,
                   delivered, billed, paid, kitchenVars, restVars>>

-----------------------------------------------------------------------------
(* NodoRepartidor handlers, one per message at the head of the mailbox.   *)

\* ofrecer_pedido_a_restaurante (OfrecerPedido and PedidoListo): ocupado is
\* read, then id_pedido_actual is set to the offered order whatever it was.
OfrecerPedidoNodo(n, o) ==
    LET ocupado == idPedidoActual[n] # None IN
    /\ idPedidoActual' = [idPedidoActual EXCEPT ![n] = o]
    /\ futs' = [futs EXCEPT ![n] = @ \cup {Fut(IF ocupado THEN "forward" ELSE "ask", o)}]
    /\ UNCHANGED <<courierBox, pedidoActual, paid, billed, nodoRestBox>>

\* PedidoTomado: its future forwards it, over TCP, to the first restaurant
\* port of a shuffled list that accepts; here, the one restaurant node.
PedidoTomadoNodo(n, o) ==
    /\ nodoRestBox' = Append(nodoRestBox, Msg("PedidoTomado", o))
    /\ UNCHANGED <<idPedidoActual, futs, courierBox, pedidoActual, paid, billed>>

\* LlegoPedido: the UDP notice is a future whose map clears id_pedido_actual.
LlegoPedidoNodo(n, o) ==
    /\ futs' = [futs EXCEPT ![n] = @ \cup {Fut("udp", o)}]
    /\ UNCHANGED <<idPedidoActual, courierBox, pedidoActual, paid, billed, nodoRestBox>>

\* Cobrar: id_pedido_actual is read in the handler; the order goes to the
\* payment gateway only if it is the node's current order.  The
\* QuitarPedidoDeBuffer to the leader acts on pedidos_en_curso, which
\* nothing fills (no code sends InfoRepartidorPedido), so it changes nothing.
CobrarNodo(n, o) ==
    /\ billed' = billed \cup {o}
    /\ paid' = IF idPedidoActual[n] = o THEN paid \cup {o} ELSE paid
    /\ UNCHANGED <<idPedidoActual, futs, courierBox, pedidoActual, nodoRestBox>>

\* InfoPedidoEnCurso: the order becomes the node's and its courier's.
InfoPedidoEnCursoNodo(n, o) ==
    /\ idPedidoActual' = [idPedidoActual EXCEPT ![n] = o]
    /\ courierBox' = [courierBox EXCEPT ![n] = Append(@, Msg("InfoPedidoEnCurso", o))]
    /\ UNCHANGED <<futs, pedidoActual, paid, billed, nodoRestBox>>

HandleNodo(n) ==
    /\ nodeBox[n] # <<>>
    /\ LET m == Head(nodeBox[n]) IN
       /\ nodeBox' = [nodeBox EXCEPT ![n] = Tail(@)]
       /\ CASE m.kind = "OfrecerPedido"     -> OfrecerPedidoNodo(n, m.order)
            [] m.kind = "PedidoTomado"      -> PedidoTomadoNodo(n, m.order)
            [] m.kind = "LlegoPedido"       -> LlegoPedidoNodo(n, m.order)
            [] m.kind = "Cobrar"            -> CobrarNodo(n, m.order)
            [] m.kind = "InfoPedidoEnCurso" -> InfoPedidoEnCursoNodo(n, m.order)
    /\ UNCHANGED <<entrega, net, delivered, kitchenVars, pedidos, listos,
                   released, ordered, enCamino>>

-----------------------------------------------------------------------------
(* NodoRepartidor spawned futures.                                        *)

\* The offer future's first poll: repartidor.send(OfrecerPedido).
AskRepartidor(n, f) ==
    /\ f.stage = "ask"
    /\ courierBox' = [courierBox EXCEPT ![n] = Append(@, Msg("OfrecerPedido", f.order))]
    /\ futs' = [futs EXCEPT ![n] = (@ \ {f}) \cup {Fut("wait", f.order)}]
    /\ UNCHANGED <<idPedidoActual, net>>

\* ofrecer_pedido_al_siguiente, then the map of a false result.
OfrecerAlSiguiente(n, f) ==
    /\ f.stage = "forward"
    /\ net' = net \cup {[to |-> Siguiente(n), msg |-> Msg("OfrecerPedido", f.order)]}
    /\ idPedidoActual' = [idPedidoActual EXCEPT ![n] = None]
    /\ futs' = [futs EXCEPT ![n] = @ \ {f}]
    /\ UNCHANGED courierBox

\* enviar_mensaje_con_fallback(InfoPedidoEnCurso, lider); the map of true.
InformarLider(n, f) ==
    /\ f.stage = "report"
    /\ net' = net \cup {[to |-> Lider, msg |-> Msg("InfoPedidoEnCurso", f.order)]}
    /\ futs' = [futs EXCEPT ![n] = @ \ {f}]
    /\ UNCHANGED <<idPedidoActual, courierBox>>

\* The LlegoPedido future's map.
NotificarLlegada(n, f) ==
    /\ f.stage = "udp"
    /\ idPedidoActual' = [idPedidoActual EXCEPT ![n] = None]
    /\ futs' = [futs EXCEPT ![n] = @ \ {f}]
    /\ UNCHANGED <<net, courierBox>>

PollNodo(n) ==
    /\ Drained(nodeBox, n)
    /\ \E f \in futs[n] :
          \/ AskRepartidor(n, f)
          \/ OfrecerAlSiguiente(n, f)
          \/ InformarLider(n, f)
          \/ NotificarLlegada(n, f)
    /\ UNCHANGED <<nodeBox, pedidoActual, entrega, delivered, billed, paid,
                   kitchenVars, restVars>>

-----------------------------------------------------------------------------
(* Repartidor.  The answer to repartidor.send reaches the awaiting offer   *)
(* future: it moves from "wait" to "forward" (false) or "report" (true).  *)
Answer(n, o, s) ==
    futs' = [futs EXCEPT ![n] = (@ \ {Fut("wait", o)}) \cup {Fut(s, o)}]

AceptarPedidoInverted(n, o) ==
    \* mutant: the free check reads pedido_actual.is_some()
    /\ pedidoActual[n] # None
    /\ pedidoActual' = [pedidoActual EXCEPT ![n] = o]
    /\ entrega' = [entrega EXCEPT ![n] = [order |-> o, stage |-> "restaurante"]]
    /\ UNCHANGED futs

\* Handler<OfrecerPedido>: free and within distance, and rng < 0.75, it
\* accepts (aceptar_pedido) and returns the delivery future.
AceptarPedido(n, o) ==
    /\ pedidoActual[n] = None
    /\ pedidoActual' = [pedidoActual EXCEPT ![n] = o]
    /\ entrega' = [entrega EXCEPT ![n] = [order |-> o, stage |-> "restaurante"]]
    /\ UNCHANGED futs

\* Otherwise it declines: the future answers false.
DeclinarPedido(n, o) ==
    /\ Answer(n, o, "forward")
    /\ UNCHANGED <<pedidoActual, entrega>>

\* Handler<InfoPedidoEnCurso>: pedido_actual is overwritten.
InfoPedidoEnCursoRepartidor(n, o) ==
    /\ pedidoActual' = [pedidoActual EXCEPT ![n] = o]
    /\ UNCHANGED <<futs, entrega>>

HandleRepartidor(n) ==
    /\ courierBox[n] # <<>>
    /\ LET m == Head(courierBox[n]) IN
       /\ courierBox' = [courierBox EXCEPT ![n] = Tail(@)]
       /\ IF m.kind = "OfrecerPedido"
          THEN AceptarPedido(n, m.order) \/ DeclinarPedido(n, m.order)
          ELSE InfoPedidoEnCursoRepartidor(n, m.order)
    /\ UNCHANGED <<idPedidoActual, nodeBox, net, delivered, billed, paid,
                   kitchenVars, restVars>>

\* entregar_pedido, viajar_al_restaurante: after the trip, PedidoTomado.
ViajarAlRestaurante(n) ==
    /\ entrega[n].stage = "restaurante"
    /\ Drained(courierBox, n)
    /\ nodeBox' = [nodeBox EXCEPT ![n] = Append(@, Msg("PedidoTomado", entrega[n].order))]
    /\ entrega' = [entrega EXCEPT ![n].stage = "comensal"]
    /\ UNCHANGED <<idPedidoActual, futs, pedidoActual, courierBox, net,
                   delivered, billed, paid, kitchenVars, restVars>>

EntregarAlComensalFalse(n) ==
    \* mutant: the delivery future answers false, so the node forwards it
    LET o == entrega[n].order IN
    /\ entrega[n].stage = "comensal"
    /\ Drained(courierBox, n)
    /\ nodeBox' = [nodeBox EXCEPT ![n] = @ \o <<Msg("LlegoPedido", o), Msg("Cobrar", o)>>]
    /\ pedidoActual' = [pedidoActual EXCEPT ![n] = None]
    /\ entrega' = [entrega EXCEPT ![n] = [order |-> None, stage |-> "idle"]]
    /\ delivered' = delivered \cup {o}
    /\ Answer(n, o, "forward")
    /\ UNCHANGED <<idPedidoActual, courierBox, net, billed, paid,
                   kitchenVars, restVars>>

\* entregar_al_comensal and cobrar_pedido, with no await between them, then
\* the map: pedido_actual cleared and true answered to the offer future.
EntregarAlComensal(n) ==
    LET o == entrega[n].order IN
    /\ entrega[n].stage = "comensal"
    /\ Drained(courierBox, n)
    /\ nodeBox' = [nodeBox EXCEPT ![n] = @ \o <<Msg("LlegoPedido", o), Msg("Cobrar", o)>>]
    /\ pedidoActual' = [pedidoActual EXCEPT ![n] = None]
    /\ entrega' = [entrega EXCEPT ![n] = [order |-> None, stage |-> "idle"]]
    /\ delivered' = delivered \cup {o}
    /\ Answer(n, o, "report")
    /\ UNCHANGED <<idPedidoActual, courierBox, net, billed, paid,
                   kitchenVars, restVars>>

-----------------------------------------------------------------------------
Next ==
    \/ \E o \in Order : Pedir(o)
    \/ HandleNodoRestaurante
    \/ \E o \in Order, n \in Node : EnviarPedidoListo(o, n)
    \/ HandleRestaurante
    \/ \E k \in Cocina : HandleCocina(k) \/ Despertar(k) \/ Cocinar(k) \/ FinCoccion(k)
    \/ \E d \in net : Deliver(d)
    \/ \E n \in Node :
          \/ HandleNodo(n)
          \/ PollNodo(n)
          \/ HandleRepartidor(n)
          \/ ViajarAlRestaurante(n)
          \/ EntregarAlComensal(n)

(* Every actor keeps handling its mailbox and polling its futures, spawned *)
(* tasks run, TCP messages arrive, and an offer a free courier keeps      *)
(* receiving is eventually accepted: each offer is accepted with          *)
(* probability 0.75.  Customers need not order at all.                    *)
AcceptsOffer(n) ==
    /\ courierBox[n] # <<>>
    /\ Head(courierBox[n]).kind = "OfrecerPedido"
    /\ courierBox' = [courierBox EXCEPT ![n] = Tail(@)]
    /\ AceptarPedido(n, Head(courierBox[n]).order)
    /\ UNCHANGED <<idPedidoActual, nodeBox, net, delivered, billed, paid,
                   kitchenVars, restVars>>

Fairness ==
    /\ \A n \in Node :
          /\ WF_vars(HandleNodo(n)) /\ WF_vars(PollNodo(n))
          /\ WF_vars(HandleRepartidor(n)) /\ SF_vars(AcceptsOffer(n))
          /\ WF_vars(ViajarAlRestaurante(n)) /\ WF_vars(EntregarAlComensal(n))
    /\ WF_vars(\E d \in net : Deliver(d))
    /\ WF_vars(HandleNodoRestaurante) /\ WF_vars(HandleRestaurante)
    /\ \A o \in Order : WF_vars(\E n \in Node : EnviarPedidoListo(o, n))
    /\ \A k \in Cocina :
          /\ WF_vars(HandleCocina(k)) /\ WF_vars(Despertar(k))
          /\ WF_vars(Cocinar(k)) /\ WF_vars(FinCoccion(k))

Spec == Init /\ [][Next]_vars /\ Fairness

-----------------------------------------------------------------------------
OrderOrNone == Order \cup {None}

TypeOK ==
    /\ idPedidoActual \in [Node -> OrderOrNone]
    /\ pedidoActual \in [Node -> OrderOrNone]
    /\ \A n \in Node :
          /\ \A i \in 1 .. Len(nodeBox[n]) : nodeBox[n][i] \in [kind : MsgKinds, order : Order]
          /\ \A i \in 1 .. Len(courierBox[n]) : courierBox[n][i] \in [kind : MsgKinds, order : Order]
          /\ futs[n] \subseteq [stage : Stages, order : Order]
          /\ entrega[n] \in [order : OrderOrNone, stage : {"idle", "restaurante", "comensal"}]
    /\ net \subseteq [to : Node, msg : [kind : MsgKinds, order : Order]]
    /\ {released, delivered, billed, paid, ordered, enCamino} \subseteq SUBSET Order
    /\ {pedidos, listos, pedidosRecibidos} \subseteq SUBSET Order
    /\ \A i \in 1 .. Len(nodoRestBox) : nodoRestBox[i] \in [kind : RestKinds, order : Order]
    /\ \A i \in 1 .. Len(restBox) : restBox[i] \in [kind : RestKinds, order : Order]
    /\ cocinaProxima \in Cocina
    /\ \A k \in Cocina :
          /\ \A i \in 1 .. Len(cocinaBox[k]) : cocinaBox[k][i] \in CocinaMsgs
          /\ \A i \in 1 .. Len(cola[k]) : cola[k][i] \in Order
          /\ \A i \in 1 .. Len(coccion[k]) : coccion[k][i] \in Order
    /\ {cocinaEnUso, despertar, cocinando} \subseteq [Cocina -> BOOLEAN]

\* A wake-up of kitchen k is on its way: the spawned task, an IniciarCoccion
\* in its mailbox, or the cooking future, which ends by sending one.
Awake(k) ==
    \/ despertar[k]
    \/ cocinando[k]
    \/ \E i \in 1 .. Len(cocinaBox[k]) : cocinaBox[k][i].kind = "IniciarCoccion"

(* No lost wake-up in Cocina: cocina_en_uso is set exactly while a wake-up *)
(* is on its way, and no order waits in the queue of a kitchen marked     *)
(* free.  PedidoACocinar spawns IniciarCoccion only when the flag is      *)
(* clear, and only an IniciarCoccion that finds the queue empty clears it;*)
(* an order queued while the future cooks is left to its final           *)
(* IniciarCoccion.                                                         *)
KitchenAwake ==
    \A k \in Cocina :
        /\ cocinaEnUso[k] = Awake(k)
        /\ cola[k] # <<>> => cocinaEnUso[k]

(* Spec 4.5 and 8.6: an order is charged once its delivery completes.     *)
(* Every order whose Cobrar a node has handled was sent to the payment    *)
(* gateway: the Cobrar handler finds the order in id_pedido_actual.       *)
DeliveredOrdersCharged == billed \subseteq paid

(* Spec 8.4: an order goes to one courier.  No courier starts delivering  *)
(* an order already delivered, and no two couriers deliver one order at   *)
(* once: the offer passed around the ring is a single token.              *)
NoDoubleDelivery ==
    \A n \in Node : entrega[n].order # None =>
        /\ entrega[n].order \notin delivered
        /\ \A m \in Node \ {n} : entrega[m].order # entrega[n].order

(* Spec 8.3: every order a customer places is eventually delivered: the   *)
(* restaurant node, the Restaurante and its kitchens, PedidoListo and the  *)
(* courier ring all hand it on.                                            *)
OrdersDelivered == \A o \in Order : o \in ordered ~> o \in delivered

(* The doc comment of NodoRestaurante's Handler<PedidoTomado>: the         *)
(* customer is told when a courier has taken the order and is on its way.  *)
(* Every order a courier delivers was reported EnCamino to its customer.   *)
CustomerToldEnCamino == \A o \in Order : o \in delivered ~> o \in enCamino
=============================================================================
