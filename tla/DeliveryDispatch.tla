-------------------------- MODULE DeliveryDispatch --------------------------
(***************************************************************************)
(* Hand-off of ready orders to delivery workers in the mslepowron food    *)
(* delivery system: the server's pool of free deliveries                  *)
(* (delivery_workers_info), one restaurant looking for a delivery for its *)
(* orders (GetDeliveries, NearbyDeliveries, TryNextDelivery and the       *)
(* DeliveryConnection it opens to each candidate), and the DeliveryWorker *)
(* processes (login, RequestDelivery, StartDelivery and the trip future). *)
(*                                                                         *)
(* Every actor handles its mailbox in order, one handler at a time.  Each *)
(* TCP connection is FIFO; a connection is a sequence of lines.  Order    *)
(* creation and readiness, modelled in OrderTwoPhase, are inputs here.    *)
(***************************************************************************)
EXTENDS Naturals, Sequences, SequencesExt, FiniteSets

CONSTANTS
    Worker,         \* delivery worker processes (model values)
    MaxOrders,      \* orders the restaurant receives (next_order_id 1..)
    Dist,           \* Dist[w]: squared distance of w to the restaurant
    MaxDist,        \* MAX_DELIVERY_DISTANCE squared
    Clients0,       \* clients_connected before any worker logs in
    Registered0,    \* workers already logged in and registered, in order
    MaxRetries      \* bound on run_later timers that fire

ASSUME Dist \in [Worker -> Nat] /\ MaxOrders \in Nat \ {0} /\ Clients0 \in Nat
ASSUME Registered0 \in Seq(Worker) /\ IsInjective(Registered0)

OrderId == 1 .. MaxOrders
NoOrder == 0        \* current_order_id = None

VARIABLES
    pool,       \* server: delivery_workers_info, a sequence of [id, w]
    clients,    \* server: clients_connected, the last id handed out
    toSrvR,     \* lines from the restaurant to the server (get_deliveries)
    toRest,     \* lines from the server to the restaurant (nearby_deliveries)
    toSrvW,     \* toSrvW[w]: lines from worker w to the server
    toW,        \* toW[w]: login_successful_delivery ids from the server to w
    rbox,       \* the Restaurant actor's mailbox
    orders,     \* orders_queue, as the sequence of its order ids
    nextOrder,  \* next_order_id
    out,        \* orders whose status AcceptDelivery set to OutForDelivery
    ready,      \* orders whose OrderReadyToPickup has run
    pending,    \* pending_deliveries
    hasDel,     \* has_deliveries
    current,    \* current_order_id
    timers,     \* run_later(GetDeliveries) timers armed and not yet fired
    retries,    \* timers fired so far
    conns,      \* conns[i]: the i-th DeliveryConnection, [w, o, st]
    started,    \* started[w]: worker process w is running
    avail,      \* avail[w]: DeliveryWorker.available
    wid,        \* wid[w]: DeliveryWorker.id
    wbox,       \* wbox[w]: the DeliveryWorker actor's mailbox
    trips       \* trips[w]: spawned trip futures of w still running

srvVars  == <<pool, clients, toSrvR, toRest, toSrvW, toW>>
restVars == <<rbox, orders, nextOrder, out, ready, pending, hasDel, current, timers, retries>>
wVars    == <<started, avail, wid, wbox, trips>>
vars     == <<srvVars, restVars, conns, wVars>>

Entry == [id : Nat, w : Worker]
(* One record shape for every mailbox and line, so TLC can compare them. *)
Msg(k, l, n) == [k |-> k, list |-> l, n |-> n]

(* A worker that has started got two ids, one for login_delivery and one   *)
(* for register_delivery; the second is in the pool and is its self.id.    *)
RegId(i) == Clients0 + 2 * i
RegIndex(w) == CHOOSE i \in DOMAIN Registered0 : Registered0[i] = w

Init ==
    /\ pool = [i \in DOMAIN Registered0 |-> [id |-> RegId(i), w |-> Registered0[i]]]
    /\ clients = RegId(Len(Registered0))
    /\ toSrvR = <<>> /\ toRest = <<>>
    /\ toSrvW = [w \in Worker |-> <<>>] /\ toW = [w \in Worker |-> <<>>]
    /\ rbox = <<>> /\ orders = <<>> /\ nextOrder = 1
    /\ out = {} /\ ready = {}
    /\ pending = <<>> /\ hasDel = FALSE /\ current = NoOrder
    /\ timers = 0 /\ retries = 0 /\ conns = <<>>
    /\ started = [w \in Worker |-> w \in Range(Registered0)]
    /\ avail = [w \in Worker |-> TRUE]
    /\ wid = [w \in Worker |-> IF w \in Range(Registered0) THEN RegId(RegIndex(w)) ELSE 0]
    /\ wbox = [w \in Worker |-> <<>>]
    /\ trips = [w \in Worker |-> 0]

-----------------------------------------------------------------------------
(* Server *)

(* get_deliveries, relayed to the Server's GetDeliveries: the pool        *)
(* entries within MAX_DELIVERY_DISTANCE, in pool order; when none is in    *)
(* range, all of them sorted by distance (a stable sort).                  *)
RECURSIVE ByDist(_, _)
ByDist(s, d) ==
    IF d > MaxDist + Max(Range(Dist)) THEN <<>>
    ELSE SelectSeq(s, LAMBDA e : Dist[e.w] = d) \o ByDist(s, d + 1)

Nearby(s) ==
    LET near == SelectSeq(s, LAMBDA e : Dist[e.w] <= MaxDist)
    IN  IF near = <<>> /\ s # <<>> THEN ByDist(s, 0) ELSE near

SrvGetDeliveries ==
    /\ toSrvR # <<>>
    /\ toSrvR' = Tail(toSrvR)
    /\ toRest' = Append(toRest, Nearby(pool))
    /\ UNCHANGED <<pool, clients, toSrvW, toW, restVars, conns, wVars>>

(* The server's TcpSender for worker w reads a line and relays it to the   *)
(* Server actor, which handles it at once: the relays of different          *)
(* connections interleave, and the Server handles them in relay order.      *)
WLine(w, k) == toSrvW[w] # <<>> /\ Head(toSrvW[w]).k = k

(* login_delivery: DeliveryWorkerConnected issues a new client id and       *)
(* answers login_successful_delivery with it.                                *)
DeliveryWorkerConnected(w) ==
    /\ WLine(w, "login")
    /\ toSrvW' = [toSrvW EXCEPT ![w] = Tail(@)]
    /\ clients' = clients + 1
    /\ toW' = [toW EXCEPT ![w] = Append(@, clients + 1)]
    /\ UNCHANGED <<pool, toSrvR, toRest, restVars, conns, wVars>>

(* register_delivery: another new id, pushed with the worker's socket on    *)
(* delivery_workers_info, and answered as login_successful_delivery too.    *)
RegisterDelivery(w) ==
    /\ WLine(w, "register")
    /\ toSrvW' = [toSrvW EXCEPT ![w] = Tail(@)]
    /\ clients' = clients + 1
    /\ pool' = Append(pool, [id |-> clients + 1, w |-> w])
    /\ toW' = [toW EXCEPT ![w] = Append(@, clients + 1)]
    /\ UNCHANGED <<toSrvR, toRest, restVars, conns, wVars>>

(* busy_delivery{id}: BusyDeliveryWorker drops every entry with that id.    *)
BusyDeliveryWorker(w) ==
    /\ WLine(w, "busy")
    /\ toSrvW' = [toSrvW EXCEPT ![w] = Tail(@)]
    /\ pool' = SelectSeq(pool, LAMBDA e : e.id # Head(toSrvW[w]).n)
    /\ UNCHANGED <<clients, toW, toSrvR, toRest, restVars, conns, wVars>>

(* free_delivery{id, socket}: FreeDeliveryWorker pushes an entry.           *)
FreeDeliveryWorker(w) ==
    /\ WLine(w, "free")
    /\ toSrvW' = [toSrvW EXCEPT ![w] = Tail(@)]
    /\ pool' = Append(pool, [id |-> Head(toSrvW[w]).n, w |-> w])
    /\ UNCHANGED <<clients, toW, toSrvR, toRest, restVars, conns, wVars>>

SrvFromWorker(w) ==
    \/ DeliveryWorkerConnected(w) \/ RegisterDelivery(w)
    \/ BusyDeliveryWorker(w) \/ FreeDeliveryWorker(w)

-----------------------------------------------------------------------------
(* Restaurant *)

(* Inputs: NewOrder pushes an order on orders_queue; OrderReadyToPickup    *)
(* runs once per order created, and ends by queueing GetDeliveries whether  *)
(* or not the order is still in orders_queue.                               *)
NewOrderIdAfterIncrement ==
    \* mutant: the id is read after next_order_id is incremented
    /\ nextOrder <= MaxOrders
    /\ orders' = Append(orders, nextOrder + 1)
    /\ nextOrder' = nextOrder + 1
    /\ UNCHANGED <<srvVars, rbox, out, ready, pending, hasDel, current, timers, retries, conns, wVars>>

NewOrder ==
    /\ nextOrder <= MaxOrders
    /\ orders' = Append(orders, nextOrder)
    /\ nextOrder' = nextOrder + 1
    /\ UNCHANGED <<srvVars, rbox, out, ready, pending, hasDel, current, timers, retries, conns, wVars>>

OrderReadyToPickup(o) ==
    /\ o < nextOrder
    /\ o \notin ready
    /\ ready' = ready \cup {o}
    /\ rbox' = Append(rbox, Msg("GetDeliveries", <<>>, 0))
    /\ UNCHANGED <<srvVars, orders, nextOrder, out, pending, hasDel, current, timers, retries, conns, wVars>>

RHead(k) == rbox # <<>> /\ Head(rbox).k = k

GetDeliveries ==
    /\ RHead("GetDeliveries")
    /\ rbox' = Tail(rbox)
    /\ toSrvR' = Append(toSrvR, "get_deliveries")
    /\ UNCHANGED <<pool, clients, toRest, toSrvW, toW, orders, nextOrder, out, ready,
                   pending, hasDel, current, timers, retries, conns, wVars>>

(* The restaurant's TcpReceiver forwards nearby_deliveries to the actor. *)
RestReceive ==
    /\ toRest # <<>>
    /\ toRest' = Tail(toRest)
    /\ rbox' = Append(rbox, Msg("NearbyDeliveries", Head(toRest), 0))
    /\ UNCHANGED <<pool, clients, toSrvR, toSrvW, toW, orders, nextOrder, out, ready,
                   pending, hasDel, current, timers, retries, conns, wVars>>

(* NearbyDeliveries.  An empty list cancels the LAST queued order when no   *)
(* delivery was ever seen, and otherwise retries in 2 s.  A non-empty list  *)
(* sets has_deliveries, replaces pending_deliveries, takes the LAST queued   *)
(* order (orders_queue.last().unwrap()) as the current one and queues        *)
(* TryNextDelivery.                                                          *)
NearbyDeliveries ==
    /\ RHead("NearbyDeliveries")
    /\ LET l == Head(rbox).list IN
       \/ /\ l = <<>> /\ ~hasDel
          /\ orders' = IF orders = <<>> THEN orders ELSE Front(orders)
          /\ rbox' = Tail(rbox)
          /\ UNCHANGED <<pending, hasDel, current, timers>>
       \/ /\ l = <<>> /\ hasDel
          /\ rbox' = Tail(rbox)
          /\ timers' = timers + 1
          /\ UNCHANGED <<orders, pending, hasDel, current>>
       \/ /\ l # <<>>
          /\ hasDel' = TRUE
          /\ pending' = l
          /\ current' = Last(orders)
          /\ rbox' = Append(Tail(rbox), Msg("TryNextDelivery", <<>>, 0))
          /\ UNCHANGED <<orders, timers>>
    /\ UNCHANGED <<srvVars, nextOrder, out, ready, retries, conns, wVars>>

(* TryNextDelivery.  No candidate left: retry GetDeliveries in 3 s if any   *)
(* order is queued.  Otherwise remove the first candidate and spawn the     *)
(* connect future for it, carrying current_order_id.unwrap().                *)
TryNextDelivery ==
    /\ RHead("TryNextDelivery")
    /\ rbox' = Tail(rbox)
    /\ \/ /\ pending = <<>>
          /\ timers' = IF orders # <<>> THEN timers + 1 ELSE timers
          /\ UNCHANGED <<pending, conns>>
       \/ /\ pending # <<>>
          /\ pending' = Tail(pending)
          /\ conns' = Append(conns, [w |-> Head(pending).w, o |-> current, st |-> "connecting"])
          /\ UNCHANGED timers
    /\ UNCHANGED <<srvVars, orders, nextOrder, out, ready, hasDel, current, retries, wVars>>

(* A run_later timer fires and queues GetDeliveries.  MaxRetries bounds how *)
(* many do.                                                                  *)
TimerFires ==
    /\ timers > 0 /\ retries < MaxRetries
    /\ timers' = timers - 1
    /\ retries' = retries + 1
    /\ rbox' = Append(rbox, Msg("GetDeliveries", <<>>, 0))
    /\ UNCHANGED <<srvVars, orders, nextOrder, out, ready, pending, hasDel, current, conns, wVars>>

(* AcceptDelivery: if the order is still queued it goes OutForDelivery and  *)
(* the candidate list and current order are cleared; otherwise nothing.     *)
AcceptDeliveryKeepPending ==
    \* mutant: the candidate list is not cleared with the current order
    /\ RHead("AcceptDelivery")
    /\ LET o == Head(rbox).n IN
       IF o \in Range(orders)
       THEN /\ out' = out \cup {o}
            /\ current' = NoOrder
            /\ UNCHANGED pending
       ELSE UNCHANGED <<out, pending, current>>
    /\ rbox' = Tail(rbox)
    /\ UNCHANGED <<srvVars, orders, nextOrder, ready, hasDel, timers, retries, conns, wVars>>

AcceptDelivery ==
    /\ RHead("AcceptDelivery")
    /\ LET o == Head(rbox).n IN
       IF o \in Range(orders)
       THEN /\ out' = out \cup {o}
            /\ pending' = <<>>
            /\ current' = NoOrder
       ELSE UNCHANGED <<out, pending, current>>
    /\ rbox' = Tail(rbox)
    /\ UNCHANGED <<srvVars, orders, nextOrder, ready, hasDel, timers, retries, conns, wVars>>

-----------------------------------------------------------------------------
(* DeliveryConnection i *)

(* The connect future succeeds (the worker is listening), the request line  *)
(* is written, and the worker's RestaurantConnection hands RequestDelivery  *)
(* to the worker actor.                                                      *)
Connect(i) ==
    /\ conns[i].st = "connecting"
    /\ conns' = [conns EXCEPT ![i].st = "requested"]
    /\ wbox' = [wbox EXCEPT ![conns[i].w] = Append(@, Msg("RequestDelivery", <<>>, i))]
    /\ UNCHANGED <<srvVars, restVars, started, avail, wid, trips>>

(* The DeliveryConnection reads the worker's answer: "ok" queues            *)
(* AcceptDelivery for the order, "no" queues TryNextDelivery.                *)
Reply(i) ==
    /\ conns[i].st \in {"ok", "no"}
    /\ conns' = [conns EXCEPT ![i].st = "done"]
    /\ rbox' = Append(rbox, IF conns[i].st = "ok"
                            THEN Msg("AcceptDelivery", <<>>, conns[i].o)
                            ELSE Msg("TryNextDelivery", <<>>, 0))
    /\ UNCHANGED <<srvVars, orders, nextOrder, out, ready, pending, hasDel, current,
                   timers, retries, wVars>>

-----------------------------------------------------------------------------
(* Delivery worker w *)

(* main: the worker starts, and LoginDelivery and RegisterDelivery write    *)
(* login_delivery and register_delivery to the server.                       *)
WorkerStart(w) ==
    /\ ~started[w]
    /\ started' = [started EXCEPT ![w] = TRUE]
    /\ toSrvW' = [toSrvW EXCEPT ![w] = @ \o <<Msg("login", <<>>, 0), Msg("register", <<>>, 0)>>]
    /\ UNCHANGED <<pool, clients, toSrvR, toRest, toW, restVars, conns, avail, wid, wbox, trips>>

(* TcpReceiver: login_successful_delivery becomes SaveLoginDeliveryInfo.    *)
WorkerReceive(w) ==
    /\ toW[w] # <<>>
    /\ toW' = [toW EXCEPT ![w] = Tail(@)]
    /\ wbox' = [wbox EXCEPT ![w] = Append(@, Msg("SaveLoginDeliveryInfo", <<>>, Head(toW[w])))]
    /\ UNCHANGED <<pool, clients, toSrvR, toRest, toSrvW, restVars, conns, started, avail, wid, trips>>

WHead(w, k) == wbox[w] # <<>> /\ Head(wbox[w]).k = k

SaveLoginDeliveryInfo(w) ==
    /\ WHead(w, "SaveLoginDeliveryInfo")
    /\ wid' = [wid EXCEPT ![w] = Head(wbox[w]).n]
    /\ wbox' = [wbox EXCEPT ![w] = Tail(@)]
    /\ UNCHANGED <<srvVars, restVars, conns, started, avail, trips>>

(* RequestDelivery on connection i.  Busy: answer "no".  Available: take    *)
(* the order's id as self.id, answer "ok", send busy_delivery{self.id} to   *)
(* the server and queue StartDelivery.                                       *)
RequestDeliveryNoRefusal(w) ==
    \* mutant: a busy worker drops the request without answering "no"
    /\ WHead(w, "RequestDelivery")
    /\ LET i == Head(wbox[w]).n IN
       \/ /\ ~avail[w]
          /\ wbox' = [wbox EXCEPT ![w] = Tail(@)]
          /\ UNCHANGED <<conns, toSrvW, avail, wid>>
       \/ /\ avail[w]
          /\ wid' = [wid EXCEPT ![w] = conns[i].o]
          /\ avail' = [avail EXCEPT ![w] = FALSE]
          /\ conns' = [conns EXCEPT ![i].st = "ok"]
          /\ toSrvW' = [toSrvW EXCEPT ![w] = Append(@, Msg("busy", <<>>, conns[i].o))]
          /\ wbox' = [wbox EXCEPT ![w] = Append(Tail(@), Msg("StartDelivery", <<>>, 0))]
    /\ UNCHANGED <<pool, clients, toSrvR, toRest, toW, restVars, started, trips>>

RequestDelivery(w) ==
    /\ WHead(w, "RequestDelivery")
    /\ LET i == Head(wbox[w]).n IN
       \/ /\ ~avail[w]
          /\ conns' = [conns EXCEPT ![i].st = "no"]
          /\ wbox' = [wbox EXCEPT ![w] = Tail(@)]
          /\ UNCHANGED <<toSrvW, avail, wid>>
       \/ /\ avail[w]
          /\ wid' = [wid EXCEPT ![w] = conns[i].o]
          /\ avail' = [avail EXCEPT ![w] = FALSE]
          /\ conns' = [conns EXCEPT ![i].st = "ok"]
          /\ toSrvW' = [toSrvW EXCEPT ![w] = Append(@, Msg("busy", <<>>, conns[i].o))]
          /\ wbox' = [wbox EXCEPT ![w] = Append(Tail(@), Msg("StartDelivery", <<>>, 0))]
    /\ UNCHANGED <<pool, clients, toSrvR, toRest, toW, restVars, started, trips>>

(* StartDelivery spawns the trip future, then at once sets available and    *)
(* sends free_delivery{self.id} to the server.                               *)
StartDelivery(w) ==
    /\ WHead(w, "StartDelivery")
    /\ trips' = [trips EXCEPT ![w] = @ + 1]
    /\ avail' = [avail EXCEPT ![w] = TRUE]
    /\ toSrvW' = [toSrvW EXCEPT ![w] = Append(@, Msg("free", <<>>, wid[w]))]
    /\ wbox' = [wbox EXCEPT ![w] = Tail(@)]
    /\ UNCHANGED <<pool, clients, toSrvR, toRest, toW, restVars, conns, started, wid>>

(* The trip future ends after its status updates to the customer.           *)
TripEnds(w) ==
    /\ trips[w] > 0
    /\ trips' = [trips EXCEPT ![w] = @ - 1]
    /\ UNCHANGED <<srvVars, restVars, conns, started, avail, wid, wbox>>

WorkerHandle(w) ==
    \/ SaveLoginDeliveryInfo(w) \/ RequestDelivery(w) \/ StartDelivery(w)

-----------------------------------------------------------------------------
Next ==
    \/ SrvGetDeliveries
    \/ \E w \in Worker : SrvFromWorker(w)
    \/ NewOrder
    \/ \E o \in OrderId : OrderReadyToPickup(o)
    \/ GetDeliveries \/ RestReceive \/ NearbyDeliveries \/ TryNextDelivery
    \/ TimerFires \/ AcceptDelivery
    \/ \E i \in DOMAIN conns : Connect(i) \/ Reply(i)
    \/ \E w \in Worker : \/ WorkerStart(w) \/ WorkerReceive(w)
                         \/ WorkerHandle(w) \/ TripEnds(w)

(* Every actor drains its mailbox and every connection its lines; spawned   *)
(* futures and armed timers run.  A connection only moves forward, so one   *)
(* condition for all of them lets none starve.  Starting a worker and the   *)
(* orders are inputs, so they get no fairness.                              *)
Fairness ==
    /\ WF_vars(SrvGetDeliveries) /\ WF_vars(GetDeliveries) /\ WF_vars(RestReceive)
    /\ WF_vars(NearbyDeliveries) /\ WF_vars(TryNextDelivery)
    /\ WF_vars(TimerFires) /\ WF_vars(AcceptDelivery)
    /\ \A w \in Worker : /\ WF_vars(SrvFromWorker(w)) /\ WF_vars(WorkerReceive(w))
                         /\ WF_vars(WorkerHandle(w)) /\ WF_vars(TripEnds(w))
    /\ WF_vars(\E i \in DOMAIN conns : Connect(i))
    /\ WF_vars(\E i \in DOMAIN conns : Reply(i))

Spec == Init /\ [][Next]_vars /\ Fairness

-----------------------------------------------------------------------------
(* Properties *)

TypeOK ==
    /\ pool \in Seq(Entry) /\ clients \in Nat
    /\ rbox \in Seq([k : {"GetDeliveries", "NearbyDeliveries", "TryNextDelivery",
                          "AcceptDelivery"}, list : Seq(Entry), n : Nat])
    /\ Range(orders) \subseteq OrderId /\ out \subseteq OrderId /\ ready \subseteq OrderId
    /\ pending \in Seq(Entry) /\ hasDel \in BOOLEAN /\ current \in OrderId \cup {NoOrder}
    /\ conns \in Seq([w : Worker, o : OrderId \cup {NoOrder},
                      st : {"connecting", "requested", "ok", "no", "done"}])
    /\ avail \in [Worker -> BOOLEAN] /\ trips \in [Worker -> Nat]

(* The restaurant never panics on an unwrap: when NearbyDeliveries brings   *)
(* candidates, orders_queue.last() has an order, and when TryNextDelivery   *)
(* takes a candidate, current_order_id is set.  Both hold only because an   *)
(* order is popped (cancelled) only before has_deliveries is first set, and *)
(* AcceptDelivery clears the candidates together with the current order.   *)
NoUnwrapPanic ==
    /\ (RHead("NearbyDeliveries") /\ Head(rbox).list # <<>>) => orders # <<>>
    /\ (RHead("TryNextDelivery") /\ pending # <<>>) => current # NoOrder

(* Every request_delivery the restaurant opens a DeliveryConnection for is  *)
(* eventually answered by the worker and read by the restaurant, busy or    *)
(* not: RequestDelivery answers on both branches.                           *)
RequestsAnswered ==
    <>[](\A i \in DOMAIN conns : conns[i].st = "done")

(* No double assignment (spec 8.4): a worker takes a new order only when no *)
(* trip of its own is still running.  StartDelivery sets available again    *)
(* as soon as it has spawned the trip future.                               *)
NoDoubleAssignment ==
    \A w \in Worker : trips[w] + (IF avail[w] THEN 0 ELSE 1) <= 1
====
