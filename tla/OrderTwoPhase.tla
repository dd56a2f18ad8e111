--------------------------- MODULE OrderTwoPhase ---------------------------
(***************************************************************************)
(* The order flow of the mslepowron food-delivery system: the customer is  *)
(* the coordinator of a two-phase commit between the payment gateway and   *)
(* the restaurant it picked, and the restaurant then prepares the order.   *)
(*                                                                         *)
(* Customer (customer/src/customer.rs): asks the server for restaurants    *)
(* (GetRestaurants); on NearbyRestaurants it saves its snapshot, opens a   *)
(* new TCP connection to the restaurant and spawns a future that sends     *)
(* prepare_payment to the gateway and prepare_order to the restaurant.     *)
(* Each vote runs check_2pc_decision: with both votes yes it sets          *)
(* payment_authorized and sends commit to both; with a no it sends abort   *)
(* to both, resets the votes and spawns a retry (a new NearbyRestaurants). *)
(* The snapshot is written by NearbyRestaurants, PaymentConfirmed,         *)
(* PaymentDenied, OrderConfirmed and the future of DeliveryAccepted.  The  *)
(* process may crash at any point; restarted with recover = true it sends  *)
(* itself RecoverData from the snapshot: not authorized means order again, *)
(* authorized and confirmed means reconnect and ask the restaurant for the *)
(* order (recover_customer_order), anything else does nothing.             *)
(*                                                                         *)
(* Gateway (gateway/src/customer_sender.rs): one connection per customer   *)
(* process; it votes at random, answers abort with payment_denied and      *)
(* commit_payment with payment_confirmed, and keeps no state.              *)
(*                                                                         *)
(* Restaurant (restaurant/src/customer_connection.rs, restaurant.rs): one  *)
(* CustomerConnection actor per connection votes at random, answers abort  *)
(* with order_canceled and passes commit_order (NewOrder) and              *)
(* recover_customer_order (RecoverOrderData) to the Restaurant actor, whose *)
(* FIFO mailbox runs NewOrder, PrepareOrder, OrderReadyToPickup and        *)
(* RecoverOrderData.  A delivery accepting the order (AcceptDelivery) is   *)
(* the one step of the delivery side kept here.                            *)
(*                                                                         *)
(* Handlers are #[async_handler]s (AtomicResponse): each runs to its end   *)
(* before the actor takes its next message.  A TCP connection is FIFO.    *)
(* When the customer crashes its connections close: what it had written   *)
(* still arrives, what its TcpSender actors had not yet written (any      *)
(* suffix) is lost, and every answer to it is lost.  The server is        *)
(* reduced to its answer to get_restaurants; the restaurant never crashes.*)
(***************************************************************************)
EXTENDS Naturals, Sequences, FiniteSets

CONSTANTS
    MaxConn,     \* restaurant connections the customer may open in all
    MaxCrashes,  \* customer crashes, each followed by a restart with recover
    PaymentType  \* the customer's payment_type, "CreditCard" or "Cash"

ASSUME MaxConn \in Nat \ {0} /\ MaxCrashes \in Nat
ASSUME PaymentType \in {"CreditCard", "Cash"}

Conn    == 1 .. MaxConn        \* connection c is the c-th one the customer opens
Inc     == 0 .. MaxCrashes     \* incarnations of the customer process
OrderId == 1 .. MaxConn        \* next_order_id starts at 1; one order per commit
NoConn  == 0
NoVote  == "none"
Vote    == {"yes", "no"}

(* A message on a connection: its title, the connection of the round it   *)
(* belongs to (the restaurant_sender of the customer when sent) and its    *)
(* payload: a vote, or an order id (0 when it has none).                    *)
Msg(k, r, id) == [kind |-> k, rnd |-> r, vote |-> "none", id |-> id]
VoteMsg(k, r, v) == [kind |-> k, rnd |-> r, vote |-> v, id |-> 0]
(* A message of the Restaurant actor's mailbox. *)
RMsg(k, id, c) == [kind |-> k, id |-> id, conn |-> c]

Status == {"none", "OrderConfirmed", "PreparingOrder", "ReadyToPickup",
           "OutForDelivery", "OrderDelivered"}

VARIABLES
    up,          \* the customer process is running
    inc,         \* its incarnation: crashes so far
    authorized,  \* Customer.payment_authorized
    confirmed,   \* Customer.payment_confirmed
    gwVote,      \* Customer.gateway_vote
    restVote,    \* Customer.restaurant_vote
    sender,      \* Customer.restaurant_sender, the connection of the round
    idOrder,     \* Customer.id_order
    selected,    \* Customer.selected_restaurant_socket is Some
    custBox,     \* Customer mailbox: GetRestaurants, NearbyRestaurants, RecoverData
    preparing,   \* connections whose spawned prepare future has not yet run
    retries,     \* spawned retry tasks (sleep, then NearbyRestaurants)
    serverReqs,  \* get_restaurants sent, nearby_restaurants not yet back
    savePending, \* DeliveryAccepted's spawned save, the snapshot it writes
    file,        \* client_{name}.json
    toGw,        \* per incarnation, the gateway connection, customer to gateway
    fromGw,      \* and gateway to customer
    toRest,      \* per connection, customer to CustomerConnection
    fromRest,    \* and CustomerConnection to customer
    connInc,     \* incarnation that opened each connection
    nextConn,    \* connections opened so far, plus one
    restBox,     \* Restaurant mailbox
    status,      \* order_status of each order of orders_queue
    orderConn,   \* client_connection of each order
    nextOrder,   \* Restaurant.next_order_id
    gwVoted,     \* ghost: the gateway's vote in each round
    restVoted,   \* ghost: the restaurant's vote in each round
    gwSaw,       \* ghost: decisions the gateway received in each round
    restSaw,     \* ghost: decisions the restaurant received in each round
    orderRound,  \* ghost: the round whose commit_order created each order
    pickups,     \* ghost: GetDeliveries requested after each order was ready
    accepted     \* ghost: deliveries accepted for each order

custVars == <<up, inc, authorized, confirmed, gwVote, restVote, sender, idOrder,
              selected, custBox, preparing, retries, serverReqs, savePending, file>>
netVars  == <<toGw, fromGw, toRest, fromRest, connInc, nextConn>>
restVars == <<restBox, status, orderConn, nextOrder, orderRound, pickups, accepted>>
voteVars == <<gwVoted, restVoted, gwSaw, restSaw>>
vars == <<custVars, netVars, restVars, voteVars>>

(* The fields of client_{name}.json that RecoverData reads back. *)
Snap(a, c, o, s) == [exists |-> TRUE, authorized |-> a, confirmed |-> c,
                     idOrder |-> o, selected |-> s]
NoFile == [exists |-> FALSE, authorized |-> FALSE, confirmed |-> FALSE,
           idOrder |-> 0, selected |-> FALSE]
Snapshot == Snap(authorized, confirmed, idOrder, selected)

(* A connection the running customer process reads. *)
Live(c) == up /\ c < nextConn /\ connInc[c] = inc

(* An answer on a connection reaches the customer only while the process  *)
(* that opened it runs; otherwise the write fails and the answer is lost.  *)
ToCustGw(i, m) ==
    fromGw' = IF up /\ inc = i THEN [fromGw EXCEPT ![i] = Append(@, m)] ELSE fromGw
ToCustRest(c, m) ==
    fromRest' = IF Live(c) THEN [fromRest EXCEPT ![c] = Append(@, m)] ELSE fromRest

Init ==
    /\ up = TRUE /\ inc = 0
    /\ authorized = FALSE /\ confirmed = FALSE
    /\ gwVote = NoVote /\ restVote = NoVote
    /\ sender = NoConn /\ idOrder = 0 /\ selected = FALSE
    /\ custBox = <<"GetRestaurants">>        \* main: Login, then GetRestaurants
    /\ preparing = {} /\ retries = 0 /\ serverReqs = 0
    /\ savePending = NoFile /\ file = NoFile
    /\ toGw = [i \in Inc |-> <<>>] /\ fromGw = [i \in Inc |-> <<>>]
    /\ toRest = [c \in Conn |-> <<>>] /\ fromRest = [c \in Conn |-> <<>>]
    /\ connInc = [c \in Conn |-> 0] /\ nextConn = 1
    /\ restBox = <<>>
    /\ status = [o \in OrderId |-> "none"]
    /\ orderConn = [o \in OrderId |-> NoConn]
    /\ nextOrder = 1
    /\ gwVoted = [c \in Conn |-> NoVote] /\ restVoted = [c \in Conn |-> NoVote]
    /\ gwSaw = [c \in Conn |-> {}] /\ restSaw = [c \in Conn |-> {}]
    /\ orderRound = [o \in OrderId |-> NoConn]
    /\ pickups = [o \in OrderId |-> 0] /\ accepted = [o \in OrderId |-> 0]
-----------------------------------------------------------------------------
(* Customer                                                                *)

NextMsg(k) == up /\ custBox # <<>> /\ Head(custBox) = k

(* GetRestaurants: sends get_restaurants to the server. *)
GetRestaurants ==
    /\ NextMsg("GetRestaurants")
    /\ custBox' = Tail(custBox)
    /\ serverReqs' = serverReqs + 1
    /\ UNCHANGED <<up, inc, authorized, confirmed, gwVote, restVote, sender,
                   idOrder, selected, preparing, retries, savePending, file>>
    /\ UNCHANGED <<netVars, restVars, voteVars>>

(* The server answers get_restaurants with nearby_restaurants (one        *)
(* restaurant here), which the TcpReceiver passes on as NearbyRestaurants. *)
ServerNearby ==
    /\ up /\ serverReqs > 0
    /\ serverReqs' = serverReqs - 1
    /\ custBox' = Append(custBox, "NearbyRestaurants")
    /\ UNCHANGED <<up, inc, authorized, confirmed, gwVote, restVote, sender,
                   idOrder, selected, preparing, retries, savePending, file>>
    /\ UNCHANGED <<netVars, restVars, voteVars>>

(* NearbyRestaurants: save the snapshot (before choosing), choose the      *)
(* restaurant, connect, and spawn the prepare future.  MaxConn bounds the  *)
(* connections.                                                            *)
NearbyRestaurants ==
    /\ NextMsg("NearbyRestaurants")
    /\ nextConn <= MaxConn
    /\ custBox' = Tail(custBox)
    /\ file' = Snapshot
    /\ selected' = TRUE
    /\ sender' = nextConn
    /\ preparing' = preparing \cup {nextConn}
    /\ connInc' = [connInc EXCEPT ![nextConn] = inc]
    /\ nextConn' = nextConn + 1
    /\ UNCHANGED <<up, inc, authorized, confirmed, gwVote, restVote, idOrder,
                   retries, serverReqs, savePending>>
    /\ UNCHANGED <<toGw, fromGw, toRest, fromRest, restVars, voteVars>>

(* The spawned future: after its sleep, prepare_payment to the gateway and *)
(* prepare_order on the connection it was given.                           *)
SendPrepare(c) ==
    /\ up /\ c \in preparing
    /\ preparing' = preparing \ {c}
    /\ toGw' = [toGw EXCEPT ![inc] = Append(@, Msg("prepare_payment", c, 0))]
    /\ toRest' = [toRest EXCEPT ![c] = Append(@, Msg("prepare_order", c, 0))]
    /\ UNCHANGED <<up, inc, authorized, confirmed, gwVote, restVote, sender,
                   idOrder, selected, custBox, retries, serverReqs, savePending, file>>
    /\ UNCHANGED <<fromGw, fromRest, connInc, nextConn, restVars, voteVars>>

(* The task spawned by an abort: after its sleep, NearbyRestaurants again. *)
RetryFires ==
    /\ up /\ retries > 0
    /\ retries' = retries - 1
    /\ custBox' = Append(custBox, "NearbyRestaurants")
    /\ UNCHANGED <<up, inc, authorized, confirmed, gwVote, restVote, sender,
                   idOrder, selected, preparing, serverReqs, savePending, file>>
    /\ UNCHANGED <<netVars, restVars, voteVars>>

SendBoth(k) ==
    /\ toGw' = [toGw EXCEPT ![inc] = Append(@, Msg(k.gw, sender, 0))]
    /\ toRest' = IF sender = NoConn THEN toRest
                 ELSE [toRest EXCEPT ![sender] = Append(@, Msg(k.rest, sender, 0))]

(* check_2pc_decision, both votes yes. *)
Commit2PC(gv, rv) ==
    /\ gwVote' = gv /\ restVote' = rv
    /\ authorized' = TRUE
    /\ SendBoth([gw |-> "commit_payment", rest |-> "commit_order"])
    /\ UNCHANGED retries

Abort2PCKeepVotes(gv, rv) ==
    \* mutant: the votes are not reset after an abort
    /\ SendBoth([gw |-> "abort", rest |-> "abort"])
    /\ gwVote' = gv /\ restVote' = rv
    /\ retries' = retries + 1
    /\ UNCHANGED authorized

(* check_2pc_decision, a vote no: abort to both, reset, spawn the retry.   *)
Abort2PC(gv, rv) ==
    /\ SendBoth([gw |-> "abort", rest |-> "abort"])
    /\ gwVote' = NoVote /\ restVote' = NoVote
    /\ retries' = retries + 1
    /\ UNCHANGED authorized

(* The vote just stored, then check_2pc_decision. *)
Check2PC(gv, rv) ==
    \/ /\ gv = NoVote \/ rv = NoVote
       /\ gwVote' = gv /\ restVote' = rv
       /\ UNCHANGED <<authorized, retries, toGw, toRest>>
    \/ gv = "yes" /\ rv = "yes" /\ Commit2PC(gv, rv)
    \/ /\ gv # NoVote /\ rv # NoVote /\ "no" \in {gv, rv}
       /\ Abort2PC(gv, rv)
GwHead(k) == up /\ fromGw[inc] # <<>> /\ Head(fromGw[inc]).kind = k
RestHead(c, k) == Live(c) /\ fromRest[c] # <<>> /\ Head(fromRest[c]).kind = k
TakeGw == fromGw' = [fromGw EXCEPT ![inc] = Tail(@)]
TakeRest(c) == fromRest' = [fromRest EXCEPT ![c] = Tail(@)]

(* AuthPaymentResponse: gateway_vote, then check_2pc_decision. *)
AuthPaymentResponse ==
    /\ GwHead("auth_payment_response")
    /\ TakeGw
    /\ Check2PC(Head(fromGw[inc]).vote, restVote)
    /\ UNCHANGED <<up, inc, confirmed, sender, idOrder, selected, custBox,
                   preparing, serverReqs, savePending, file>>
    /\ UNCHANGED <<fromRest, connInc, nextConn, restVars, voteVars>>

(* RestaurantOrderResponse: restaurant_vote, then check_2pc_decision. *)
RestaurantOrderResponse(c) ==
    /\ RestHead(c, "prepare_order_response")
    /\ TakeRest(c)
    /\ Check2PC(gwVote, Head(fromRest[c]).vote)
    /\ UNCHANGED <<up, inc, confirmed, sender, idOrder, selected, custBox,
                   preparing, serverReqs, savePending, file>>
    /\ UNCHANGED <<fromGw, connInc, nextConn, restVars, voteVars>>

(* PaymentConfirmed: saves the snapshot first, then sets payment_confirmed *)
(* (true for a credit card, false for cash).                               *)
PaymentConfirmed ==
    /\ GwHead("payment_confirmed")
    /\ TakeGw
    /\ file' = Snapshot
    /\ confirmed' = (PaymentType = "CreditCard")
    /\ UNCHANGED <<up, inc, authorized, gwVote, restVote, sender, idOrder,
                   selected, custBox, preparing, retries, serverReqs, savePending>>
    /\ UNCHANGED <<toGw, toRest, fromRest, connInc, nextConn, restVars, voteVars>>

(* PaymentDenied: payment_confirmed = false, then save. *)
PaymentDenied ==
    /\ GwHead("payment_denied")
    /\ TakeGw
    /\ confirmed' = FALSE
    /\ file' = Snap(authorized, FALSE, idOrder, selected)
    /\ UNCHANGED <<up, inc, authorized, gwVote, restVote, sender, idOrder,
                   selected, custBox, preparing, retries, serverReqs, savePending>>
    /\ UNCHANGED <<toGw, toRest, fromRest, connInc, nextConn, restVars, voteVars>>

(* OrderConfirmed: id_order, then save. *)
OrderConfirmed(c) ==
    /\ RestHead(c, "order_confirmed")
    /\ TakeRest(c)
    /\ idOrder' = Head(fromRest[c]).id
    /\ file' = Snap(authorized, confirmed, Head(fromRest[c]).id, selected)
    /\ UNCHANGED <<up, inc, authorized, confirmed, gwVote, restVote, sender,
                   selected, custBox, preparing, retries, serverReqs, savePending>>
    /\ UNCHANGED <<toGw, fromGw, toRest, connInc, nextConn, restVars, voteVars>>

(* OrderCanceled, PreparingOrder, OrderReadyToPickup and RecoverDelivery   *)
(* only log.                                                               *)
OrderNotice(c) ==
    /\ \E k \in {"order_canceled", "preparing_order", "order_ready_for_pickup",
                 "recovery_delivery"} : RestHead(c, k)
    /\ TakeRest(c)
    /\ UNCHANGED <<custVars, toGw, fromGw, toRest, connInc, nextConn, restVars, voteVars>>

(* DeliveryAccepted: spawns a future that connects to the delivery and     *)
(* then writes the snapshot taken now.                                     *)
DeliveryAccepted(c) ==
    /\ RestHead(c, "delivery_accepted")
    /\ TakeRest(c)
    /\ savePending' = Snapshot
    /\ UNCHANGED <<up, inc, authorized, confirmed, gwVote, restVote, sender, idOrder,
                   selected, custBox, preparing, retries, serverReqs, file>>
    /\ UNCHANGED <<toGw, fromGw, toRest, connInc, nextConn, restVars, voteVars>>

(* The future of DeliveryAccepted: saves, or fails to connect and does not.*)
DeliverySave ==
    /\ up /\ savePending.exists
    /\ savePending' = NoFile
    /\ file' \in {file, savePending}
    /\ UNCHANGED <<up, inc, authorized, confirmed, gwVote, restVote, sender, idOrder,
                   selected, custBox, preparing, retries, serverReqs>>
    /\ UNCHANGED <<netVars, restVars, voteVars>>

(* RecoverData: restore_from_json, then order again when the payment was   *)
(* not authorized, ask the restaurant for the order when it was confirmed, *)
(* and nothing otherwise.  The reconnection is a new connection, not the   *)
(* restaurant_sender.                                                      *)
RecoverData ==
    /\ NextMsg("RecoverData")
    /\ authorized' = file.authorized /\ confirmed' = file.confirmed
    /\ idOrder' = file.idOrder /\ selected' = file.selected
    /\ \/ /\ ~file.authorized
          /\ custBox' = Append(Tail(custBox), "GetRestaurants")
          /\ UNCHANGED <<toRest, connInc, nextConn>>
       \/ /\ file.authorized /\ file.confirmed /\ file.selected
          /\ nextConn <= MaxConn
          /\ custBox' = Tail(custBox)
          /\ connInc' = [connInc EXCEPT ![nextConn] = inc]
          /\ toRest' = [toRest EXCEPT ![nextConn] =
                            Append(@, Msg("recover_customer_order", nextConn, file.idOrder))]
          /\ nextConn' = nextConn + 1
       \/ /\ file.authorized /\ ~(file.confirmed /\ file.selected)
          /\ custBox' = Tail(custBox)
          /\ UNCHANGED <<toRest, connInc, nextConn>>
    /\ UNCHANGED <<up, inc, gwVote, restVote, sender, preparing, retries,
                   serverReqs, savePending, file>>
    /\ UNCHANGED <<toGw, fromGw, fromRest, restVars, voteVars>>

(* What a crash leaves of a connection the process had written to: the    *)
(* prefix its TcpSender had already written.                               *)
Prefixes(sq) == {SubSeq(sq, 1, k) : k \in 0 .. Len(sq)}

(* The customer process dies: its memory, mailbox, spawned tasks and       *)
(* answers in flight to it are lost.                                       *)
Crash ==
    /\ up /\ inc < MaxCrashes
    /\ up' = FALSE
    /\ custBox' = <<>> /\ preparing' = {} /\ retries' = 0 /\ serverReqs' = 0
    /\ savePending' = NoFile
    /\ fromGw' = [i \in Inc |-> <<>>] /\ fromRest' = [c \in Conn |-> <<>>]
    /\ \E g \in Prefixes(toGw[inc]) : toGw' = [toGw EXCEPT ![inc] = g]
    /\ \E r \in [Conn -> UNION {Prefixes(toRest[c]) : c \in Conn}] :
          /\ \A c \in Conn : r[c] \in IF Live(c) THEN Prefixes(toRest[c]) ELSE {toRest[c]}
          /\ toRest' = r
    /\ UNCHANGED <<inc, authorized, confirmed, gwVote, restVote, sender, idOrder,
                   selected, file, connInc, nextConn, restVars, voteVars>>

(* Restarted with recover = true: main sends RecoverData when the snapshot *)
(* file exists, and Login then GetRestaurants when it does not.            *)
Restart ==
    /\ ~up
    /\ up' = TRUE /\ inc' = inc + 1
    /\ authorized' = FALSE /\ confirmed' = FALSE
    /\ gwVote' = NoVote /\ restVote' = NoVote
    /\ sender' = NoConn /\ idOrder' = 0 /\ selected' = FALSE
    /\ custBox' = IF file.exists THEN <<"RecoverData">> ELSE <<"GetRestaurants">>
    /\ UNCHANGED <<preparing, retries, serverReqs, savePending, file>>
    /\ UNCHANGED <<netVars, restVars, voteVars>>
-----------------------------------------------------------------------------
(* Gateway: the connection actor of incarnation i's connection.            *)

GwIn(i, k) == toGw[i] # <<>> /\ Head(toGw[i]).kind = k
GwTake(i) == toGw' = [toGw EXCEPT ![i] = Tail(@)]

(* prepare_payment: authorize_payment votes at random. *)
GwPrepare(i) ==
    /\ GwIn(i, "prepare_payment")
    /\ GwTake(i)
    /\ \E v \in Vote :
          /\ ToCustGw(i, VoteMsg("auth_payment_response", Head(toGw[i]).rnd, v))
          /\ gwVoted' = [gwVoted EXCEPT ![Head(toGw[i]).rnd] = v]
    /\ UNCHANGED <<custVars, toRest, fromRest, connInc, nextConn, restVars,
                   restVoted, gwSaw, restSaw>>

(* abort: payment_denied. *)
GwAbort(i) ==
    /\ GwIn(i, "abort")
    /\ GwTake(i)
    /\ ToCustGw(i, Msg("payment_denied", Head(toGw[i]).rnd, 0))
    /\ gwSaw' = [gwSaw EXCEPT ![Head(toGw[i]).rnd] = @ \cup {"abort"}]
    /\ UNCHANGED <<custVars, toRest, fromRest, connInc, nextConn, restVars,
                   gwVoted, restVoted, restSaw>>

(* commit_payment: the payment is charged; payment_confirmed. *)
GwCommit(i) ==
    /\ GwIn(i, "commit_payment")
    /\ GwTake(i)
    /\ ToCustGw(i, Msg("payment_confirmed", Head(toGw[i]).rnd, 0))
    /\ gwSaw' = [gwSaw EXCEPT ![Head(toGw[i]).rnd] = @ \cup {"commit"}]
    /\ UNCHANGED <<custVars, toRest, fromRest, connInc, nextConn, restVars,
                   gwVoted, restVoted, restSaw>>

-----------------------------------------------------------------------------
(* Restaurant: the CustomerConnection of connection c, and the Restaurant. *)

RcIn(c, k) == toRest[c] # <<>> /\ Head(toRest[c]).kind = k
RcTake(c) == toRest' = [toRest EXCEPT ![c] = Tail(@)]

(* prepare_order: accept_new_order votes at random. *)
RcPrepare(c) ==
    /\ RcIn(c, "prepare_order")
    /\ RcTake(c)
    /\ \E v \in Vote :
          /\ ToCustRest(c, VoteMsg("prepare_order_response", c, v))
          /\ restVoted' = [restVoted EXCEPT ![c] = v]
    /\ UNCHANGED <<custVars, toGw, fromGw, connInc, nextConn, restVars,
                   gwVoted, gwSaw, restSaw>>

(* commit_order: NewOrder to the Restaurant, with this connection. *)
RcCommit(c) ==
    /\ RcIn(c, "commit_order")
    /\ RcTake(c)
    /\ restBox' = Append(restBox, RMsg("NewOrder", 0, c))
    /\ restSaw' = [restSaw EXCEPT ![c] = @ \cup {"commit"}]
    /\ UNCHANGED <<custVars, toGw, fromGw, fromRest, connInc, nextConn,
                   status, orderConn, nextOrder, orderRound, pickups, accepted,
                   gwVoted, restVoted, gwSaw>>

(* abort: order_canceled. *)
RcAbort(c) ==
    /\ RcIn(c, "abort")
    /\ RcTake(c)
    /\ ToCustRest(c, Msg("order_canceled", c, 0))
    /\ restSaw' = [restSaw EXCEPT ![c] = @ \cup {"abort"}]
    /\ UNCHANGED <<custVars, toGw, fromGw, connInc, nextConn, restVars,
                   gwVoted, restVoted, gwSaw>>

(* recover_customer_order: RecoverOrderData to the Restaurant. *)
RcRecover(c) ==
    /\ RcIn(c, "recover_customer_order")
    /\ RcTake(c)
    /\ restBox' = Append(restBox, RMsg("RecoverOrderData", Head(toRest[c]).id, c))
    /\ UNCHANGED <<custVars, toGw, fromGw, fromRest, connInc, nextConn,
                   status, orderConn, nextOrder, orderRound, pickups, accepted, voteVars>>

RestNext(k) == restBox # <<>> /\ Head(restBox).kind = k
Known(id) == id \in OrderId /\ status[id] # "none"

NewOrderIdAfterIncrement ==
    \* mutant: the id is read after next_order_id is incremented
    /\ RestNext("NewOrder")
    /\ nextOrder <= MaxConn
    /\ LET c == Head(restBox).conn
           id == nextOrder + 1
       IN /\ status' = [status EXCEPT ![id] = "OrderConfirmed"]
          /\ orderConn' = [orderConn EXCEPT ![id] = c]
          /\ orderRound' = [orderRound EXCEPT ![id] = c]
          /\ ToCustRest(c, Msg("order_confirmed", c, id))
          /\ restBox' = Append(Tail(restBox), RMsg("PrepareOrder", id, NoConn))
    /\ nextOrder' = nextOrder + 1
    /\ UNCHANGED <<custVars, toGw, fromGw, toRest, connInc, nextConn,
                   pickups, accepted, voteVars>>

NewOrderNoPrepare ==
    \* mutant: PrepareOrder is never sent
    /\ RestNext("NewOrder")
    /\ nextOrder <= MaxConn
    /\ LET c == Head(restBox).conn
           id == nextOrder
       IN /\ status' = [status EXCEPT ![id] = "OrderConfirmed"]
          /\ orderConn' = [orderConn EXCEPT ![id] = c]
          /\ orderRound' = [orderRound EXCEPT ![id] = c]
          /\ ToCustRest(c, Msg("order_confirmed", c, id))
          /\ restBox' = Tail(restBox)
    /\ nextOrder' = nextOrder + 1
    /\ UNCHANGED <<custVars, toGw, fromGw, toRest, connInc, nextConn,
                   pickups, accepted, voteVars>>

(* NewOrder: the order joins orders_queue as OrderConfirmed, order_confirmed *)
(* to the customer, save, PrepareOrder.  MaxConn bounds next_order_id.     *)
NewOrder ==
    /\ RestNext("NewOrder")
    /\ nextOrder <= MaxConn
    /\ LET c == Head(restBox).conn
           id == nextOrder
       IN /\ status' = [status EXCEPT ![id] = "OrderConfirmed"]
          /\ orderConn' = [orderConn EXCEPT ![id] = c]
          /\ orderRound' = [orderRound EXCEPT ![id] = c]
          /\ ToCustRest(c, Msg("order_confirmed", c, id))
          /\ restBox' = Append(Tail(restBox), RMsg("PrepareOrder", id, NoConn))
    /\ nextOrder' = nextOrder + 1
    /\ UNCHANGED <<custVars, toGw, fromGw, toRest, connInc, nextConn,
                   pickups, accepted, voteVars>>

(* PrepareOrder: PreparingOrder and preparing_order when the order is      *)
(* found; OrderReadyToPickup in any case.                                  *)
PrepareOrder ==
    /\ RestNext("PrepareOrder")
    /\ LET id == Head(restBox).id IN
       /\ IF Known(id)
          THEN /\ status' = [status EXCEPT ![id] = "PreparingOrder"]
               /\ ToCustRest(orderConn[id], Msg("preparing_order", orderConn[id], id))
          ELSE UNCHANGED <<status, fromRest>>
       /\ restBox' = Append(Tail(restBox), RMsg("OrderReadyToPickup", id, NoConn))
    /\ UNCHANGED <<custVars, toGw, fromGw, toRest, connInc, nextConn,
                   orderConn, nextOrder, orderRound, pickups, accepted, voteVars>>

(* OrderReadyToPickup: the status written is PreparingOrder (as the code   *)
(* has it), order_ready_for_pickup; GetDeliveries in any case.             *)
OrderReadyToPickup ==
    /\ RestNext("OrderReadyToPickup")
    /\ LET id == Head(restBox).id IN
       /\ IF Known(id)
          THEN /\ status' = [status EXCEPT ![id] = "PreparingOrder"]
               /\ ToCustRest(orderConn[id], Msg("order_ready_for_pickup", orderConn[id], id))
               /\ pickups' = [pickups EXCEPT ![id] = @ + 1]
          ELSE UNCHANGED <<status, fromRest, pickups>>
    /\ restBox' = Tail(restBox)
    /\ UNCHANGED <<custVars, toGw, fromGw, toRest, connInc, nextConn,
                   orderConn, nextOrder, orderRound, accepted, voteVars>>
(* AcceptDelivery: a delivery took the order GetDeliveries offered;        *)
(* OutForDelivery and delivery_accepted to the customer.                   *)
AcceptDelivery(id) ==
    /\ Known(id) /\ accepted[id] < pickups[id]
    /\ status' = [status EXCEPT ![id] = "OutForDelivery"]
    /\ ToCustRest(orderConn[id], Msg("delivery_accepted", orderConn[id], id))
    /\ accepted' = [accepted EXCEPT ![id] = @ + 1]
    /\ UNCHANGED <<custVars, toGw, fromGw, toRest, connInc, nextConn,
                   restBox, orderConn, nextOrder, orderRound, pickups, voteVars>>

(* RecoverOrderData: the order takes the new connection, and the step its  *)
(* status names is taken again; past ReadyToPickup the order is marked     *)
(* OrderDelivered and the customer gets recovery_delivery.                 *)
RecoverOrderData ==
    /\ RestNext("RecoverOrderData")
    /\ LET id == Head(restBox).id
           c  == Head(restBox).conn
           Again(k) == restBox' = Append(Tail(restBox), RMsg(k, id, NoConn))
       IN IF Known(id)
          THEN /\ orderConn' = [orderConn EXCEPT ![id] = c]
               /\ CASE status[id] = "OrderConfirmed" ->
                         /\ ToCustRest(c, Msg("order_confirmed", c, id))
                         /\ Again("PrepareOrder") /\ UNCHANGED status
                    [] status[id] = "PreparingOrder" ->
                         Again("PrepareOrder") /\ UNCHANGED <<status, fromRest>>
                    [] status[id] = "ReadyToPickup" ->
                         Again("OrderReadyToPickup") /\ UNCHANGED <<status, fromRest>>
                    [] OTHER ->
                         /\ status' = [status EXCEPT ![id] = "OrderDelivered"]
                         /\ ToCustRest(c, Msg("recovery_delivery", c, id))
                         /\ restBox' = Tail(restBox)
          ELSE /\ restBox' = Tail(restBox)
               /\ UNCHANGED <<status, orderConn, fromRest>>
    /\ UNCHANGED <<custVars, toGw, fromGw, toRest, connInc, nextConn,
                   nextOrder, orderRound, pickups, accepted, voteVars>>

-----------------------------------------------------------------------------

CustomerStep ==
    \/ GetRestaurants \/ ServerNearby \/ NearbyRestaurants \/ RetryFires
    \/ AuthPaymentResponse \/ PaymentConfirmed \/ PaymentDenied
    \/ DeliverySave \/ RecoverData
    \/ \E c \in Conn : \/ SendPrepare(c) \/ RestaurantOrderResponse(c)
                       \/ OrderConfirmed(c) \/ OrderNotice(c) \/ DeliveryAccepted(c)

GatewayStep == \E i \in Inc : GwPrepare(i) \/ GwAbort(i) \/ GwCommit(i)

ConnectionStep ==
    \E c \in Conn : RcPrepare(c) \/ RcCommit(c) \/ RcAbort(c) \/ RcRecover(c)

RestaurantStep ==
    \/ NewOrder \/ PrepareOrder \/ OrderReadyToPickup \/ RecoverOrderData
    \/ \E id \in OrderId : AcceptDelivery(id)

Next ==
    \/ CustomerStep \/ GatewayStep \/ ConnectionStep \/ RestaurantStep
    \/ Crash \/ Restart

(* Every actor takes the next message of its mailbox and every TCP         *)
(* connection delivers: weak fairness of each of them.  A crash, a restart *)
(* and a delivery accepting the order are not forced.                      *)
Fairness ==
    /\ WF_vars(CustomerStep)
    /\ \A i \in Inc : WF_vars(GwPrepare(i) \/ GwAbort(i) \/ GwCommit(i))
    /\ \A c \in Conn : WF_vars(RcPrepare(c) \/ RcCommit(c) \/ RcAbort(c) \/ RcRecover(c))
    /\ WF_vars(NewOrder \/ PrepareOrder \/ OrderReadyToPickup \/ RecoverOrderData)

Spec == Init /\ [][Next]_vars /\ Fairness

-----------------------------------------------------------------------------
(* Properties                                                              *)

MsgT == [kind : STRING, rnd : 0 .. MaxConn, vote : Vote \cup {NoVote}, id : 0 .. MaxConn]
TypeOK ==
    /\ up \in BOOLEAN /\ inc \in Inc
    /\ authorized \in BOOLEAN /\ confirmed \in BOOLEAN
    /\ {gwVote, restVote} \subseteq Vote \cup {NoVote}
    /\ sender \in 0 .. MaxConn /\ idOrder \in 0 .. MaxConn /\ selected \in BOOLEAN
    /\ custBox \in Seq({"GetRestaurants", "NearbyRestaurants", "RecoverData"})
    /\ preparing \subseteq Conn /\ retries \in Nat /\ serverReqs \in Nat
    /\ file.exists \in BOOLEAN /\ savePending.exists \in BOOLEAN
    /\ toGw \in [Inc -> Seq(MsgT)] /\ fromGw \in [Inc -> Seq(MsgT)]
    /\ toRest \in [Conn -> Seq(MsgT)] /\ fromRest \in [Conn -> Seq(MsgT)]
    /\ connInc \in [Conn -> Inc] /\ nextConn \in 1 .. MaxConn + 1
    /\ status \in [OrderId -> Status] /\ orderConn \in [OrderId -> 0 .. MaxConn]
    /\ nextOrder \in 1 .. MaxConn + 1
    /\ gwVoted \in [Conn -> Vote \cup {NoVote}] /\ restVoted \in [Conn -> Vote \cup {NoVote}]
    /\ gwSaw \in [Conn -> SUBSET {"commit", "abort"}]
    /\ restSaw \in [Conn -> SUBSET {"commit", "abort"}]

(* Atomic commitment of check_2pc_decision, across retries and crashes:    *)
(* in every round the gateway and the restaurant receive at most one       *)
(* decision between them, and a commit only when both voted yes.           *)
DecisionsAgree ==
    \A c \in Conn :
        /\ Cardinality(gwSaw[c] \cup restSaw[c]) <= 1
        /\ "commit" \in gwSaw[c] \cup restSaw[c] =>
              gwVoted[c] = "yes" /\ restVoted[c] = "yes"

(* A customer pays for at most one order: however the customer crashes and *)
(* recovers (RecoverData), the gateway receives commit_payment in one      *)
(* round at most.                                                          *)
PaymentAtMostOnce ==
    Cardinality({c \in Conn : "commit" \in gwSaw[c]}) <= 1

(* An order a restaurant committed to is prepared and offered to the       *)
(* deliveries: NewOrder, PrepareOrder and OrderReadyToPickup follow the    *)
(* commit_order of every round, whatever the customer does meanwhile.      *)
CommittedOrdersReady ==
    \A c \in Conn :
        ("commit" \in restSaw[c]) ~> (\E id \in OrderId : orderRound[id] = c /\ pickups[id] > 0)

(* Every order the restaurant prepares is paid for: the round whose        *)
(* commit_order created it eventually has its commit_payment charged.      *)
OrdersPaid ==
    \A c \in Conn :
        (\E id \in OrderId : orderRound[id] = c) ~> "commit" \in gwSaw[c]

(* Recovery takes an order up where it was: RecoverOrderData never sends   *)
(* an order to the deliveries a second time.                               *)
DispatchedOnce == \A id \in OrderId : pickups[id] <= 1
=============================================================================
