# TLA+ models of the FIUBA concurrent-programming projects

The repository holds three group projects and one individual project, all in Rust:

- **tp-grupal-sevitz (ConcuRide).** A ride-hailing system. Admins on ports 8080–8084 elect a coordinator by a TCP ring. The coordinator admin serves the driver and passenger clients and hands each trip to a follower admin. It also keeps a Storage actor, runs a reaper and talks to a payment gateway.
- **tp-grupal-mslepowron.** Food delivery. Servers elect a leader over a UDP ring, and customer, restaurant, delivery and gateway processes exchange order states.
- **tp-grupal-alandavies (PedidosRust).** Food delivery. Delivery and restaurant nodes form rings with KeepAlive and RingElection, and hand orders over.
- **tp-individual-mslepowron.** A fork-join batch processor of review files.

This first stage models ConcuRide's core, which is the coordinator tier of `spec.md`: the ring election, and trip matching and completion on the coordinator. Later stages add the mslepowron server election (`ServerElection.tla`, with its abstract election `LeaderElection.tla`) the alandavies order flow, restaurant, kitchens and courier ring (`DeliveryRing.tla`), the mslepowron order's two-phase commit with customer crash recovery (`OrderTwoPhase.tla`), and the mslepowron hand-off of ready orders to delivery workers (`DeliveryDispatch.tla`). Every part of every project is listed in `PROJECT.json` under `components`, modelled or not.

## ConcuRide: how the parts interact

- **Election** (`admin/src/elections/election.rs`). Every admin runs one `CoordinatorElection` actor, whose state is `coordinator_id`.
  - On start it asks each peer `WhoIsCoordinator`. The first peer that knows a coordinator wins. If none does, the admin declares itself.
  - A follower pings the coordinator periodically. When the ping fails, it starts a ring walk (`send_election_message`). The walk tries the next ports, wrapping from 8084 to 8080, and skips any port that does not acknowledge.
  - The node that finds itself in the candidate list picks the lowest port and broadcasts `Coordinator` to every peer.
  - `in_election` is only ever written on clones made inside the spawned futures, so the deduplication that spec §4.7 asks for never happens.
- **Trip matching** (the `admin_actor/*` files, `storage_actor/*` and `coordinator_actor/coordinator.rs`). Each client connection has its own `Admin` actor on the coordinator. All of these actors share one `Storage` actor and one `Coordinator` actor.
  - **Request.** `RequestTrip` stores the passenger and checks the payment. The Coordinator's `HandleTrip` then sends the trip round-robin to a follower.
  - **Matching on the follower.** The follower picks a driver from its replica (`FindNearestDriver`) and sends `MakeTrip` back to the coordinator.
  - **Offer.** `MakeTrip` reads the driver with `GetDriver`, writes `CanAcceptTrip` to the driver and marks it Waiting.
  - **Driver's answer.** The driver answers at random (`gen_bool(0.8)`). `CanAcceptTripResponse` then either starts the trip or sends it back to `HandleTrip`. Starting means awaiting `GetPassenger`, sending `StartTrip` to both clients, and only then awaiting `UpdateDriver(OnTrip)`.
  - **Completion.** Both clients send `FinishTrip`. Each one runs `IsFinished`, `MakePayment`, the ACKs and Storage `FinishTrip`. A client that has no ACK after 2 s reconnects and sends `FinishTrip` again.
  - **Reaper.** Every 5 s the reaper removes the drivers that have been Waiting for more than 3 s, together with their passengers.
  - **Interleaving.** Every `.await` on Storage is a point where handlers of other connections interleave.

## Modules

### `RingElection.tla` (instantiated by `MCRingElection.tla`)

Node `i` is the admin on port `MIN_PEER_PORT + i`. The election actor does not exchange its messages directly: the admin's TCP reader acknowledges them and forwards them to the actor's mailbox, and the mailboxes are modelled as the set `msgs`.

| Variable | Code |
|---|---|
| `up[n]` | admin process `n` running |
| `coord[n]` | `coordinator_id` |
| `askAt[n]` | loop index of `ask_who_is_coordinator` (-1 when idle) |
| `msgs` | acknowledged `ElectionMessage`/`CoordinatorMessage` not yet handled |
| `starts`, `crashes` | bounded counts of environment steps |

| Action | Code |
|---|---|
| `Start(n)` | `Admin::start`, the actor's `started()` hook queuing `AskForCoordinator` |
| `AskPeer(n)` | one iteration of `ask_who_is_coordinator`; after the last peer, `handle_new_coordinator(vec![self.id])` |
| `PingFails(n)` | `PingCoordinator` failing → `StartElection` → `start_election` → `send_election_message` |
| `HandleElection(m)` | `handle_election`: end the walk (`NewCoordinator`) or append and forward (`SendElection`) |
| `ReceiveCoordinator(m)` | `receive_coordinator_message` (via `SetCoordId`) |
| `Crash(n)` | the process dies; its mailbox is lost |

Helpers:
- `WalkFrom` is the port walk of `send_election_message` (RECURSIVE).
- `NewCoordinator` is `handle_new_coordinator`: the minimum port of the candidates, recorded and broadcast.
- `Broadcast` is `broadcast_coordinator`.

A ping that succeeds changes nothing and is not a step.

### `TripMatching.tla` (instantiated by `MCTripMatching.tla`)

The coordinator is fixed, and there is one follower (its replica is `replica`). Positions, amounts and the JSON framing are abstracted:
- "nearest" is any driver that the replica shows Active;
- a payment is a count per passenger.

| Variable | Code |
|---|---|
| `dStatus`, `dPass` | Storage `drivers[d].status`, `current_passenger_id` ("Absent" = no entry) |
| `stored` | Storage `passengers` keys |
| `replica` | the follower's `drivers[d].status` |
| `toPeer` | `HandleTrip` and `UpdateDrivers` on their way to the follower (a set: `broadcast_update` gives no order) |
| `makeTrips`, `responses`, `finishes`, `finishing` | handlers of those messages in flight on the coordinator |
| `dInbox`, `pInbox` | lines written to each client connection |
| `dDeaf[d]` | the driver reconnected and no longer reads the old connection |
| `dFinishing`, `pPhase` | the clients' control state (awaiting the FinishTrip ACK, etc.) |
| `payments` | `MakePayment` calls per passenger |
| `started` | history: StartTrip pairs whose trip has not finished |
| `accepting` | accepted trips whose `UpdateDriver(OnTrip)` Storage has not yet handled |

Each handler is split only at the Storage awaits that other handlers can interleave with:
- `MakeTrip` becomes `MakeTripCheck` (up to `GetDriver`) and `MakeTripOffer`;
- `CanAcceptTripResponse` (the `ResponseActFuture` up to `GetPassenger` and the `StartTrip` sends) is followed by `CanAcceptOnTrip` (the `UpdateDriver(OnTrip)` await and the `UpdateDrivers` broadcast). A `ReapDeadDrivers` queued in the Storage mailbox can be handled between them;
- `FinishTrip` becomes `FinishCheck` (up to `IsFinished` and the payment) and `FinishCommit`.

The Storage mailbox is FIFO. A client sends `FinishTrip` only after reading `StartTrip`, so its `IsFinished` is queued behind the `UpdateDriver(OnTrip)`. `FinishCheck` therefore waits until no acceptance of that passenger is pending.

The other handlers are one action each:
- on the coordinator: `DriverPosition`, `RequestTrip` and `ReapDeadDrivers`;
- on the follower: `PeerHandleTrip` (`HandleTrip` + `FindNearestDriver` + `send_trip_to_coordinator`) and `PeerUpdateDriver` (`MakeUpdateDriver`);
- on the clients: `DriverRecv`, `DriverReadAck`, `DriverAckTimeout`, `PassengerRecv`, `PassengerReadAck` and `PassengerAckTimeout`.

`Dispatch` models the Coordinator's `HandleTrip`. With `PeerMayExpire`, it may drop the trip when no peer handle is fresh.

### `ServerElection.tla` (instantiated by `MCServerElection.tla`)

The replica ring of tp-grupal-mslepowron (`server/src/server.rs`, `udp_receiver.rs`, `udp_sender.rs`).
- The ring is the ids 1..5 (`get_neighbor_id`), whether or not a process runs on an id; `Running` is the set that does.
- Variables are the `Server` fields: `idLeader`, `imLeader`, `conn` (`leader_connection`), `onCourse`, `neighbor` (`actual_neighbor_id`), `disc` (`disconnected_servers`), `seq`, `acked` (keys of `message_received_ack`). Besides them: `up` per process, `net` (UDP datagrams in flight) and `inbox` (the FIFO mailbox of each `Server` actor).
- `Init` is the state after `SetLeader`: the leader's neighbour is its successor, every replica's neighbour is 0.
- One action per handler: `StartElection`, `WaitForNeighborAck`, `CheckIfNeighborAcked`, `HandleElection`, `HandleNewLeader`, `NeighborAck`, `ConnectToServer`, dispatched by `Handle` on the head of the mailbox. `Ping` is the interval's ping finding the leader connection dead. `Receive` is the `UdpReceiver`: it acks an Election or NewLeader at once (ack id always 0) and queues the message for the Server. `Crash` stops a process; its mailbox and the datagrams to it are gone.
- `UpdateNeighbor`/`WalkNeighbor` are `update_neighbor`; `Forward` is the shared tail of the handlers (resend and queue `WaitForNeighborAck`, or, with nobody left, a `NewLeader` naming itself).
- `Timely` is the timing assumption: an ack of a running neighbour arrives within the 300 ms of `WaitForNeighborAck`, and `ConnectToServer`'s six attempts outlast a `NewLeader` still on its way to the new leader. Without it, an ack may be later than the timeout.
- `PromptAcks` restricts the behaviours further: an ack datagram is received before any server takes another step (it still queues in the receiver's mailbox behind earlier messages). Only the liveness run assumes it; without it, the two NewLeader circulations of a three-server failover reach 1.96 million states, too many for the liveness check to finish within the time budget.
- `ElectionRefined` maps the servers onto `LeaderElection.tla`, the abstract election (a node fails; when there is no leader the preferred alive node, here the largest id, becomes leader), with `leader` the running server with `im_leader`.

### `DeliveryRing.tla` (instantiated by `MCDeliveryRing.tla`)

The order flow of PedidosRust, from the restaurant (`src/restaurantes/`) to the courier ring (`src/repartidores/`).

Restaurant side: one restaurant node, which is its own leader, with its `Restaurante` actor and `Cocina` kitchens `0 .. cantidad_cocinas-1`.
- Variables: `nodoRestBox`, `restBox` and `cocinaBox` are the FIFO mailboxes of the `NodoRestaurante`, the `Restaurante` and each `Cocina`. `pedidos` and `pedidosRecibidos` are the keys of `NodoRestaurante.pedidos` and `Restaurante.pedidos_recibidos`, and `cocinaProxima` is `cocina_proxima`. `cola`, `cocinaEnUso`, `despertar`, `cocinando` and `coccion` are a kitchen's queue, its `cocina_en_uso`, its spawned `IniciarCoccion` task, and its cooking future with the orders it has left. `listos` are the pending futures that send PedidoListo. `ordered` and `enCamino` are history: orders placed, and orders whose customer was told EnCamino.
- `Pedir` is the customer node sending an order after `PagoAutorizado`. `HandleNodoRestaurante` dispatches:
  - `Pedir` (`PedirNodo`: keep it in `pedidos`, pass it to the `Restaurante`);
  - `ProgresoPedido` (`ProgresoPedidoNodo`: a Listo order found in `pedidos` starts the PedidoListo future);
  - `PedidoTomado` (`PedidoTomadoRestaurante`: `pedidos.remove` keyed by the restaurant's id, as the code has it).
- `EnviarPedidoListo` is that future: PedidoListo to any courier port.
- `HandleRestaurante` dispatches `Pedir` (`PedirRestaurante`, with `EnviarACocina` round robin, then Preparando to the node) and `PedidoCocido` (Listo to the node).
- `HandleCocina` dispatches `PedidoACocinar` (queue; a free kitchen is marked in use and spawns `Despertar`) and `IniciarCoccion` (drain the queue into a cooking future, or mark the kitchen free when it is empty). `Cocinar` is the future sending one `PedidoCocido`. `FinCoccion` is its final `IniciarCoccion`.
- These futures wait on a sleep or on I/O, so any mailbox message can be handled between their steps. They are not tied to an empty mailbox as the courier futures are.

Courier side: each courier process runs two actix actors on one `LocalSet` (`bin/repartidores.rs`): the `NodoRepartidor`, a ring member reached over TCP, and the `Repartidor`, the courier itself.
- Nodes are ports `0 .. N-1`; `Siguiente` is the next port with wrap-around (`NodoRepartidor::new`); `Lider` is the largest port, the winner of the ring election, which this module takes as settled.
- Variables: `idPedidoActual` and `pedidoActual` are `id_pedido_actual` and `pedido_actual`; `nodeBox` and `courierBox` are the two FIFO mailboxes; `futs` are the node's spawned futures by stage; `entrega` is the courier's delivery future; `net` is the TCP messages in flight (one connection each, so unordered). `released`, `delivered`, `billed` and `paid` are history: orders handed over by a restaurant, delivered, whose `Cobrar` was handled, and sent to the gateway.
- Every handler returns a `ResponseActFuture`, which actix spawns. A future runs only when its actor's mailbox is empty (`Drained`): actix drains the mailbox before it polls spawned items, and both actors share one thread. Its `.map` closure writes the actor's state at that point.
- Node actions: `HandleNodo` dispatches `OfrecerPedido`/`PedidoListo` (`OfrecerPedidoNodo`: read `ocupado`, then set `id_pedido_actual` to the offered order), `PedidoTomado`, `LlegoPedido`, `Cobrar` (charge only when the order is `id_pedido_actual`) and `InfoPedidoEnCurso`. `PollNodo` runs one future step: `AskRepartidor` (the `send` to the courier), `OfrecerAlSiguiente` (offer to the next node, then the map clears `id_pedido_actual`), `InformarLider` (InfoPedidoEnCurso to the leader) and `NotificarLlegada` (the LlegoPedido map clears `id_pedido_actual`).
- Courier actions: `HandleRepartidor` accepts (`AceptarPedido`) or declines (`DeclinarPedido`) an offer, or takes `InfoPedidoEnCurso` as its current order. `ViajarAlRestaurante` and `EntregarAlComensal` are the delivery future: PedidoTomado, then LlegoPedido and Cobrar with no await between them, then the map that clears `pedido_actual` and answers true.
- `PedidoTomadoNodo` forwards the courier's PedidoTomado to the restaurant node. `Deliver` is the `TcpOyente` passing a message read from a connection to the node.

### `OrderTwoPhase.tla` (instantiated by `MCOrderTwoPhase.tla`)

The mslepowron order flow (`customer/`, `gateway/`, `restaurant/`). The customer is the coordinator of a two-phase commit between the payment gateway and the restaurant it picked. The restaurant then prepares the order.

- **Customer** (`customer/src/customer.rs`). Variables `authorized`, `confirmed`, `gwVote`, `restVote`, `sender`, `idOrder` and `selected` are the fields of `Customer` that the commit and the recovery read. `custBox` is its mailbox. `preparing` and `retries` are its spawned prepare futures and retry tasks. `file` is `client_{name}.json`, with the fields `RecoverData` reads back.
  - `GetRestaurants` asks the server, and `ServerNearby` is the server's `nearby_restaurants` answer.
  - `NearbyRestaurants` saves the snapshot before choosing, opens a new restaurant connection (`sender`) and spawns the future. `SendPrepare` is that future: it sends `prepare_payment` and `prepare_order`.
  - `AuthPaymentResponse` and `RestaurantOrderResponse` store a vote and run `Check2PC` (`check_2pc_decision`), which does one of:
    - waits for the other vote;
    - `Commit2PC`: sets `payment_authorized`, sends commit to both, saves nothing;
    - `Abort2PC`: sends abort to both, resets the votes, and `RetryFires` later queues a new `NearbyRestaurants`.
  - `PaymentConfirmed` saves, then sets `payment_confirmed`, which is true only for a card. `PaymentDenied` and `OrderConfirmed` set their field, then save. `DeliveryAccepted` takes a snapshot that its spawned future (`DeliverySave`) writes later, or never if the connect fails. `OrderNotice` covers the handlers that only log.
  - `Crash` kills the process. Its memory, mailbox, tasks and every answer in flight to it are lost. On each connection it wrote to, only a prefix of the messages arrives: what its sender actors had already written. `Restart` is `main` with `recover = true`: it sends `RecoverData` when the file exists. `RecoverData` restores the snapshot, then does one of:
    - orders again when the payment was not authorized;
    - reconnects and sends `recover_customer_order` when it was confirmed;
    - nothing otherwise.
- **Gateway** (`gateway/src/customer_sender.rs`). There is one connection per customer process (`toGw`, `fromGw` per incarnation). `GwPrepare` votes at random, `GwAbort` answers `payment_denied`, and `GwCommit` (the charge) answers `payment_confirmed`. It keeps no state.
- **Restaurant** (`restaurant/src/customer_connection.rs`, `restaurant.rs`). There is one `CustomerConnection` per connection (`toRest`, `fromRest`):
  - `RcPrepare` votes at random;
  - `RcAbort` answers `order_canceled`;
  - `RcCommit` and `RcRecover` pass `NewOrder` and `RecoverOrderData` to the Restaurant's mailbox `restBox`.

  `NewOrder`, `PrepareOrder` and `OrderReadyToPickup` follow one another through that mailbox. `OrderReadyToPickup` writes `PreparingOrder`, as the code does. `AcceptDelivery` is a delivery taking the order. `RecoverOrderData` re-runs the step that the order's status names.
- Ghost variables: `gwVoted` and `restVoted` are each participant's vote per round; `gwSaw` and `restSaw` are the decisions each one received; `orderRound` is the round whose commit created an order; `pickups` and `accepted` count `GetDeliveries` and accepted deliveries per order.
- Every handler is an `#[async_handler]`, so it runs to its end before the next message. Each TCP connection is FIFO. An answer to a process that is no longer running is lost, because the connection actor's `write_all(...).expect` panics.

### `DeliveryDispatch.tla` (instantiated by `MCDeliveryDispatch.tla`)

The mslepowron delivery hand-off (`server/src/server.rs` and `tcp_sender.rs`, `restaurant/src/restaurant.rs`, `receiver.rs` and `delivery_connection.rs`, `delivery_man/src/*`). Three kinds of process take part: the server, which keeps the pool of free workers; one restaurant, which looks for a worker for its orders; and the delivery workers.

- **Server.** `pool` is `delivery_workers_info` (entries `[id, w]`, where `w` stands for the worker's socket) and `clients` is `clients_connected`. The server's `TcpSender` for each connection reads a line and relays it to the `Server` actor, which handles it atomically; relay and handling are one step, since the Server handles messages in relay order. The steps are:
  - `DeliveryWorkerConnected` (`login_delivery`) and `RegisterDelivery` (`register_delivery`) each issue a new id and answer `login_successful_delivery`; only the second pushes a pool entry;
  - `SrvGetDeliveries` answers `nearby_deliveries` with `Nearby(pool)`: the entries within `MAX_DELIVERY_DISTANCE`, or all of them sorted by distance (`ByDist`, stable like `sort_by_key`) when none is in range;
  - `BusyDeliveryWorker` drops the entries with the given id, and `FreeDeliveryWorker` pushes one.
- **Restaurant.** `rbox` is its mailbox; `orders` (`orders_queue`), `pending`, `hasDel` and `current` are its fields; `out` holds the orders `AcceptDelivery` set to `OutForDelivery`. The steps are:
  - `NewOrder` and `OrderReadyToPickup` are inputs; the second queues `GetDeliveries` whether or not the order is still queued, as the code does;
  - `NearbyDeliveries` either cancels (pops) the last order when the list is empty and no delivery was ever seen, or arms a 2 s retry, or loads the candidates, takes `orders_queue.last()` as the current order and queues `TryNextDelivery`;
  - `TryNextDelivery` either arms a 3 s retry when no candidate is left, or opens a `DeliveryConnection` (`conns`) to the first candidate;
  - `TimerFires` is a `run_later` firing; `AcceptDelivery` marks the order out and clears the candidates.
- **Connections.** `Connect(i)` is the connect future succeeding and the worker's `RestaurantConnection` passing `RequestDelivery` on. `Reply(i)` is the restaurant's `DeliveryConnection` reading "ok" (queues `AcceptDelivery`) or "no" (queues `TryNextDelivery`).
- **Worker.** `started`, `avail` (`available`), `wid` (`self.id`) and the mailbox `wbox`. The steps are:
  - `WorkerStart` sends `login_delivery` and `register_delivery`; `WorkerReceive` turns each answer into `SaveLoginDeliveryInfo`, which sets `wid`;
  - `RequestDelivery` answers "no" when busy; otherwise it takes the order id as `self.id`, answers "ok", sends `busy_delivery{self.id}` and queues `StartDelivery`;
  - `StartDelivery` spawns the trip future (`trips`), then at once sets `available` and sends `free_delivery{self.id}`; `TripEnds` is that future finishing.
- `Registered0` lets an instance start with workers that have already logged in and registered, which is the state after their startup.

## Runs

Pass runs:

| Run | Config | Checks | Result |
|---|---|---|---|
| election_crashstop | 4 admins led by port 0, ≤2 crashes, no restarts | `AtMostOneLeader`, `EventuallyAgreedLeader` | holds (162,596 states) |
| trip_single | 2 drivers, 1 passenger, `PeerMayExpire` | `TypeOK`, `OneDriverPerPassenger`, `TripsSettle` | holds (36,510 states) |
| server_cascade | servers 1..3 led by 1, any 2 crash, `Timely` | `TypeOK`, `AtMostOneLeader`, `ElectionRefined` | holds (2,191,199 states) |
| delivery_ring | 1 restaurant, 1 kitchen, 3 courier nodes, 2 orders | `TypeOK`, `NoDoubleDelivery`, `KitchenAwake`, `OrdersDelivered` | holds (116,231 states) |
| order_commit | 1 customer paying by card, 2 restaurant connections, 1 crash and recovery | `TypeOK`, `DecisionsAgree`, `CommittedOrdersReady` | holds (17,145 states) |
| election_bootprogress | 3 admins booting in any order | `TypeOK`, `EveryNodeLearnsCoordinator` | holds (1,330 states) |
| delivery_dispatch | 1 restaurant, 2 orders, 1 worker logging in meanwhile, ≤2 retries | `TypeOK`, `NoUnwrapPanic`, `RequestsAnswered` | holds (77,063 states) |

Violation runs. Each one shows a bug in the code; `findings` in PROJECT.json gives the source lines.

| Run | Property | Counterexample |
|---|---|---|
| trip_reaperpanic | `ReaperCannotPanic` | the reaper removes a Waiting driver and its passenger; the driver's late decline still re-dispatches the passenger; another driver ends up Waiting for a passenger Storage no longer has, and the next sweep's `unwrap` panics. |
| server_lateack | `AtMostOneLeader` (spec invariant 1) | the leader crashes; 2 and 3 both start elections; each one's Election (or its ack) to the other is later than 300 ms, so each marks the other disconnected, walks the ring alone and sets `im_leader`: two leaders that never step down. |
| delivery_unpaid | `DeliveredOrdersCharged` (spec 4.5) | both orders reach node 0; it offers o1 to its courier, then handles o2 while busy, which sets `id_pedido_actual` to o2 and forwards it; the courier delivers o1 and sends `Cobrar(o1)`, which no longer matches `id_pedido_actual`, so o1 is never charged. |
| delivery_doubleassign | `NoDoubleAssignment` (spec 8.4) | both orders become ready and two search rounds each send `request_delivery` to the one worker; it accepts the first, `StartDelivery` spawns the trip and sets `available` again, and the second request is accepted while the first trip runs. |
| order_doublecharge | `PaymentAtMostOnce` (spec 4.5 recovery rule) | both participants vote yes; `check_2pc_decision` sets `payment_authorized` and sends the commits; the gateway charges; the customer crashes before `PaymentConfirmed` saves, so the file still says not authorized; `RecoverData` orders again on a new connection and the gateway charges a second round. |

More configs are kept beside the runs, outside the list of twelve runs, and are checked with `tlc -config <cfg> <MC module>`. One is a check that passes:
- `ServerElection_reconnect.cfg` (`MCServerElection`), `EventuallyConnected`: after the leader crashes, with timely acks and connects and acks received as soon as sent, every running replica ends up connected to one running leader (184,064 states).

- `DeliveryDispatch_pool.cfg` (`MCDeliveryDispatch`), `TypeOK`, `NoUnwrapPanic` and `RequestsAnswered` with two workers: `w1` within `MAX_DELIVERY_DISTANCE` and registered from the start, and `w2` outside it and logging in meanwhile (139,837 states).

The others reproduce further counterexamples:
- `RingElection_restart.cfg` (`MCRingElection`), `AtMostOneLeader`: 0 crashes; 1 starts a walk and declares itself; 0 restarts, asks 1 and adopts its stale id 0: two leaders.
- `TripMatching_doublepay.cfg` (`MCTripMatching`), `PaymentAtMostOnce` (spec 8.6): the passenger's and the driver's `FinishTrip` both pass `IsFinished`; `MakePayment` is sent twice.
- `RingElection_boot.cfg` (`MCRingElection`), `EventuallyAgreedLeader`: two admins booting together each get "Ack", declare themselves and overwrite each other. 0 follows 1, 1 follows 0, nobody leads, and no ping ever fails.
- `TripMatching_reaprace.cfg` (`MCTripMatching`), `StartedPassengerStored` (spec 4.3): the driver accepts just after the 3 s stall. While `CanAcceptTripResponse` awaits `GetPassenger`, a `ReapDeadDrivers` is queued. `StartTrip` reaches both clients; the sweep then removes the still-Waiting driver and the passenger and sends the passenger `RejectTrip`. `UpdateDriver(OnTrip)` finds no driver, and the trip's `FinishTrip` ends unpaid at `IsFinished`. The sibling race on the decline branch is the run `trip_reaperpanic`.
- `TripMatching_doubleassign.cfg` (`MCTripMatching`), `NoDoubleAssignment` (spec 8.4): two `MakeTrip` handlers both read the driver Active; it accepts both offers and both trips start.
- `DeliveryRing_single.cfg` (`MCDeliveryRing`), `OrdersDelivered`: in a one-node ring the node is its own leader. After the first delivery, `InfoPedidoEnCurso` makes its courier hold the delivered order, which only a delivery future would clear. The courier then declines every offer, and the second order circles the ring forever. With more nodes the other couriers take the orders; only the leader's courier is lost.
- `TripMatching_progress.cfg` (`MCTripMatching`), `RequestProgress` (spec 8.3): the driver misses its FinishTrip ACK and reconnects; a pending `MakeTrip` writes the offer to the abandoned connection and marks the driver Waiting; Storage `FinishTrip` then sets the driver Active, so the reaper never rejects the passenger, who waits forever.
- `OrderTwoPhase_unpaid.cfg` (`MCOrderTwoPhase`), `OrdersPaid`: `commit_order` and `commit_payment` go out through two sender actors. The customer crashes after the first is written and before the second. The restaurant prepares and dispatches an order the gateway never charges.
- `OrderTwoPhase_redispatch.cfg` (`MCOrderTwoPhase`), `DispatchedOnce`: the order is ready and offered to the deliveries. The customer crashes and recovers. `RecoverOrderData` finds status `PreparingOrder`, because `OrderReadyToPickup` never writes `ReadyToPickup` (`restaurant.rs:400`). It runs `PrepareOrder` again, and `GetDeliveries` is requested a second time.
- `DeliveryRing_encamino.cfg` (`MCDeliveryRing`), `CustomerToldEnCamino`: the courier's PedidoTomado reaches the restaurant node. Its handler removes `pedidos` by the restaurant's id, not the order's (`nodo_restaurante.rs:623`), so nothing is removed and no customer is ever told EnCamino.

Every property of a pass run has a mutant in PROJECT.json: a plausible bug in the mapped code under which TLC finds the property violated. The mutant operators sit just before the definitions they replace. They include:
- the walk not wrapping past `MAX_PEER_PORT`;
- a walk that returns to a candidate being dropped instead of decided;
- the follower re-sending an acknowledged trip;
- `IsFinished` read the wrong way round;
- `get_neighbor_id` not wrapping, the first id of `server_ids` or the smallest one elected, and `NewLeader` not queueing `ConnectToServer`;
- the courier ring's `siguiente` not wrapping, the delivery future answering false (so the node forwards a delivered order), the kitchen's cooking future ending without its final `IniciarCoccion` (the kitchen stays in use with nothing to wake it), and the courier's free check inverted;
- the restaurant reading `next_order_id` after incrementing it, `NewOrder` not queueing `PrepareOrder`, and `check_2pc_decision` not resetting the votes after an abort (the retry's first vote then meets the aborted round's other vote, and one round gets both abort and commit);
- the restaurant's `NewOrder` reading the id after the increment, `AcceptDelivery` clearing the current order but not the candidates (the next `TryNextDelivery` unwraps `None`), and a busy worker dropping a request without answering "no".

## Bounds and why they are enough

**Election:**
- Four nodes with two crashes give a majority that can crash and a ring with holes on both sides of the initiator, so walks must skip nodes and wrap.
- Three nodes are enough for the boot races in `election_bootprogress`, since two nodes booting together already conflict.
- `MaxCrashes` and `MaxStarts` cap the environment; without them the state space is infinite.

**Trips:**
- Two drivers and one passenger exercise the follower's stale choice and re-dispatch after a decline.
- One driver and two passengers exercise two `MakeTrip` handlers contending for one driver, and the violation runs use that shape. Without liveness that space has 1,405,424 states; with `TripsSettle` it is too slow for a routine run. So the second offer to a driver after a trip (`driver.rs:150`) and the replica's update order (`coordinator.rs:198`) are modelled but not under a checked property.
- The full two-by-two space (57 million states, 27 minutes) was explored once, before the acceptance was split at its second await, for `OneDriverPerPassenger` and the type invariant without its line-kind conjuncts, with no error. It is too slow for a routine run.
- Each passenger requests once and each driver registers once. The request is the unit every property is about, and the counters stay finite without further bounds.

**Servers:**
- Three running servers in the five-slot ring: the first hop of a replica (neighbour 0, then 1) and the gaps at 4 and 5 make every walk skip dead ids and wrap.
- Two crashes of any server cover the leader, a replica mid-election and the newly elected leader crashing. One crash (the leader's) suffices for reconnection, which is about what happens after the election.

**Courier ring:**
- Three nodes give a leader and two other couriers, so an offer declined by one courier travels through a non-leader before it returns.
- Two orders are the least for a second order to reach a busy node, and for one order to be reported to the leader while the other is on its way.
- Each order is placed once; the offer is a single token, so mailboxes and `net` stay finite without further bounds.
- One kitchen receives both orders, so the second one reaches it either while the first cooks (queued, left to the future's final `IniciarCoccion`) or after the kitchen went free (a new wake-up). These are the two branches of `PedidoACocinar`. With two kitchens, round robin would give each kitchen one order, and neither case would arise.

**Order two-phase commit:**
- Two restaurant connections are the least for an aborted round followed by its retry, or for a committed round followed by a recovery's reconnection or a second order after a crash. All of these cases happen in `order_commit`: `RecoverData` takes each of its three branches, and `RecoverOrderData` meets both `PreparingOrder` and an order past pickup.
- One crash suffices for every recovery path. A second crash only repeats them.
- With three connections the run also covers a retry and a recovery together (265,095 states, 3 minutes, no error). This was explored once and is too slow for the mutant runs.

**Delivery hand-off:**
- One restaurant, two orders: the least for two search rounds at once, for a round to meet a busy worker, and for the cancel path to pop an order other than the ready one.
- One worker that logs in during the run. Before it registers, an empty answer cancels an order; afterwards, its `busy_delivery` (with the order id 2, which is also its registration id when `Clients0` is 0) empties the pool and the 2 s retry fires. It answers both "ok" and "no". Two workers that both log in during the run give 3.4 million states without retries, too many for the runs; `DeliveryDispatch_pool.cfg` keeps a second worker with one of the two already registered.
- Two `run_later` firings (`MaxRetries`): each retry opens one more search round. Without the bound the retries go on forever.

## Fairness

**Election:**
- Actix serves every mailbox in order, and the spawned futures run to completion, so handling each Election message is weakly fair. There is one WF per message a walk can send (`WalkMsgs`): its candidates follow the ring from the initiator, and it goes forward or back to a candidate. An invariant check over `election_crashstop` and the restart configuration confirms that every Election message reached lies in `WalkMsgs`.
- Coordinator messages carry a single WF per receiving admin, which is weaker than one per message. The properties hold even so.
- One WF per admin for Election messages would be too weak for a mailbox modelled as a set. TLC then finds a decisive walk message starving while ping-started walks keep arriving, which actix's FIFO order rules out.
- The ping interval fires forever, so `PingFails` is weakly fair.
- Crashes and restarts are environment steps and are not fair.
- `SpecBoot` adds weak fairness on `Start`, since every admin process is launched.

**Trips:**
- Every handler, including the continuation `CanAcceptOnTrip` of an acceptance, and every client read and 2 s or 5 s timer is weakly fair.
- A driver accepts with probability 0.8 on every offer, so it cannot decline forever. This justifies strong fairness on `DriverAccepts`.
- With `PeerMayExpire` the Coordinator may drop a trip at any time, which is the point of that flag; `RequestProgress` is therefore checked with it off.

**Servers:**
- Each replica's mailbox is served in order and its ping interval fires forever, so `Handle(s)` and `Ping(s)` are weakly fair for every replica; the UDP stack delivering a datagram to a running process is weakly fair.
- The initial leader gets none: it never pings, and the properties are about the replicas.
- Crashes are environment steps and are not fair.

**Courier ring:**
- Both actors serve their mailboxes in order, and spawned futures and the delivery's sleeps complete, so every node and courier step is weakly fair, and so is delivery of a TCP message.
- A free courier accepts an offer with probability 0.75 (`rng < 0.75`, the distance being within range), so it cannot decline forever. This justifies strong fairness on `AcceptsOffer`.
- Every restaurant-side handler, the spawned `IniciarCoccion` task, each step of the cooking future (a 750 ms sleep) and each PedidoListo future is weakly fair: actix runs them all.
- Customers placing orders are not fair: the property is about the orders that are placed.

**Order two-phase commit:**
- Every actor serves its mailbox in order and every TCP connection delivers, so the customer's steps, each gateway and restaurant connection, and the Restaurant actor are weakly fair.
- Crashes, restarts and a delivery accepting an order are environment steps and are not fair.
- `CommittedOrdersReady` needs only the restaurant's fairness. No property needs the random votes to turn out yes.

**Delivery hand-off:**
- Every actor serves its mailbox in order, every connection is read, and spawned futures (the connect, the trip) and armed timers run. So each server relay, each restaurant handler, `TimerFires`, each worker's mailbox and `TripEnds` are weakly fair.
- A connection only moves forward (connecting, requested, answered, done), so a single weak-fairness condition over all connections for `Connect` and one for `Reply` lets none of them starve.
- Starting a worker and the order inputs are not fair. The property is about requests that were sent.

Deadlock checking is off in every run. The election reaches states where nothing is left to do, and the trips end when every request has finished. The courier ring stops once every order is delivered, and the order flow once the customer waits on a finished order or has used its connections. All of these are legitimate quiescence.

## Not modelled yet

- The coordinator's peer-handle management:
  - `ConnectNewPeer`;
  - `AddPeerToDict`, whose `Arc::get_mut` can silently lose a peer;
  - the u8 `peer_counter`;
  - the `send_trip_to_coordinator` timeout.
- The passenger replica (`UpdatePassengers`) and coordinator take-over after an election. RingElection and TripMatching are separate; the trips assume a fixed coordinator.
- Payment authorisation. It is a nondeterministic yes/no, and the gateway is an external oracle.
- mslepowron servers, liveness with more crashes: if the elected server may crash too, `EventuallyConnected` fails. Replica 3 acks replica 2's Election and then crashes before forwarding it. Replica 2 has already dropped its leader connection, and `Ping` returns at once while `leader_connection` is `None`, so no election ever starts again. This is listed as a hazard (`server.rs:448`). It has no violation run of its own. `ServerElection_reconnect.cfg` is the passing check with only the leader crashing.
- mslepowron servers: `NewServerConnection`, `Pong` and `UpdateNetworkState` (the leader pushing state to replicas), `SendLeaderId` and the startup search for a leader; the bounded mailbox (capacity 16), which main's `try_send(Ping)` loop keeps full so that other `try_send`s can fail; the initial leader's missing `udp_sender`. In `OrderTwoPhase`, `AcceptDelivery` stands for the delivery side, which `DeliveryDispatch` models on its own. Not modelled either: the restaurant's own crash and restore, the customer's delivery connections, or the failed-connect branch of `NearbyRestaurants` (the restaurant never goes down).
- mslepowron delivery hand-off: failed connects (no process crashes in `DeliveryDispatch`), handshakes and ACK lines, the status updates the trip sends to the customer, positions other than a fixed squared distance per worker, and the server's unused `RequestDelivery` relay. Two more bugs are modelled but not checked by a run. First, `busy_delivery` carries the order id (`self.id = msg.id_order`), so `BusyDeliveryWorker` drops whichever pool entry has that id, possibly another worker's, and `free_delivery` then adds a second entry for the worker. Second, every round dispatches `orders_queue.last()`, the newest order, and delivered orders stay in the queue, so an older ready order is never offered.
- mslepowron recovery liveness: a customer that recovers with `payment_authorized` true and `payment_confirmed` false never rejoins its order. This is always the case for cash, and also whenever `OrderConfirmed` saved before `PaymentConfirmed` set the flag. `order_commit` reaches that branch, but no run states spec property 7 about it. It is listed as a hazard (`customer.rs:523`).
- The customer crate declares `mod sender`, but `customer/src/sender.rs` is not in the repository. The loss of its queued writes on a crash is modelled after `GatewayConnection`'s write handler, which does the same job.
- alandavies courier ring: `RingElection`, `KeepAlive`, `CambiarSiguiente`, `ActualizarSiguiente` and node crashes (the leader and the ring are fixed). Also the branches where `lider` is `None`, the cancellation interval, and `SolicitarPedidoEnCurso`/`PedidosEnCursoRepartidores`. `InfoRepartidorPedido` and `QuitarPedidoDeBuffer` act on `pedidos_en_curso`, which no code fills, so they change nothing.
- alandavies restaurant ring (RingElection, KeepAlive, InfoLider, CambiarSiguiente, EliminarPedidoEnCurso, AgregarPedidoEnCurso), and routing `Pedir` and `PedidoTomado` through the leader to another restaurant: `DeliveryRing` has one restaurant node. Also `VerRestaurantes`/`InfoRestaurantesInterno`, the nearby-restaurant query, which changes no state, and the customer's `Comensal` loop, the gateway's random rejection and the UDP notices. The individual project is not modelled either.
- Hazards not modelled: the alandavies restaurant node's `Listo` future giving up when no courier port accepts (`nodo_restaurante.rs:250`) and the courier node's single retry to a stale `siguiente` (`nodo_repartidor.rs:187`) need node crashes in `DeliveryRing`.
- Logging, JSON framing and configuration: pure formatting and I/O.

## Plan for the next stages

1. **Coordinator peer handles.** A module with `GetPeerCounter` as an 8-bit counter, `AddPeerToDict` racing broadcasts, the 5 s freshness check of `HandleTrip`, and the `send_trip_to_coordinator` timeout and re-handle. Hazards: a lost peer, the u8 wrap, and a trip dropped or duplicated on a late Ack.
2. **Abstract election for RingElection.** Refine `RingElection` to `LeaderElection` as `ServerElection` does (the minimum port is preferred).
3. **alandavies ring membership.** Node crashes with KeepAlive, `CambiarSiguiente`, `ActualizarSiguiente` and the retry of `ofrecer_pedido_al_siguiente`, added to `DeliveryRing`. Property: an order is not lost when a node dies.
4. **ConcuRide composition.** Trips across a coordinator crash and election (the replica-based take-over), and a refinement of `TripMatching` to an abstract trip life cycle.
5. **mslepowron recovery liveness and dispatch progress.** Spec property 7 (a recovered customer rejoins its order) as a liveness property of `OrderTwoPhase`, and "every ready order eventually goes out or is cancelled" for `DeliveryDispatch`, which `orders_queue.last()` breaks.
6. **The individual project.** The top-k merge of the fork-join processor as a RECURSIVE operator checked against a reference definition.
