---------------------------- MODULE TripMatching ----------------------------
(***************************************************************************)
(* Trip matching of the ConcuRide admin tier (tp-grupal-sevitz), with the *)
(* coordinator fixed.  Drivers and passengers keep one TCP connection to  *)
(* the coordinator admin, which serves every connection with its own      *)
(* Admin actor, so the handlers of different connections interleave at    *)
(* every await on the Storage actor.  The Coordinator actor hands each     *)
(* trip to a follower admin (HandleTrip); the follower picks a driver from *)
(* its replica of the driver table and sends MakeTrip back to the          *)
(* coordinator, whose Admin actor offers the trip to the driver.           *)
(*                                                                         *)
(* Positions, amounts and the wire format are abstracted away: "nearest"  *)
(* is any driver the follower believes Active, and a payment is a count.  *)
(***************************************************************************)
EXTENDS Naturals, Sequences, FiniteSets

CONSTANTS
    Driver,         \* driver connections (model values)
    Passenger,      \* passenger connections (model values)
    NoDriver,       \* MakeTrip for 0.0.0.0:0: FindNearestDriver found nobody
    NoPassenger,    \* current_passenger_id = None
    PeerMayExpire   \* HandleTrip may find no peer handle pinged in the last 5 s

ASSUME PeerMayExpire \in BOOLEAN

Status == {"Absent", "Active", "Waiting", "OnTrip"}   \* "Absent": no entry in Storage.drivers

VARIABLES
    dStatus,    \* coordinator Storage: drivers[d].status
    dPass,      \* coordinator Storage: drivers[d].current_passenger_id
    stored,     \* coordinator Storage: keys of passengers
    registered, \* drivers whose client has sent DriverPosition (it does so once)
    replica,    \* follower Storage: drivers[d].status
    toPeer,     \* HandleTrip and UpdateDrivers sent to the follower, not yet handled
    makeTrips,  \* MakeTrip handlers running on the coordinator
    responses,  \* CanAcceptTripResponse sent by a driver, not yet handled
    finishes,   \* FinishTrip sent by a client, not yet handled
    finishing,  \* FinishTrip handlers past the IsFinished check
    dInbox,     \* lines the coordinator wrote to the driver's connection
    dFinishing, \* passenger of the trip whose FinishTrip ACK the driver client awaits
    dDeaf,      \* the driver reconnected: its old connection is no longer read
    pPhase,     \* passenger client: "idle", "requested", "rejected", "done", or the
                \* driver of the trip whose FinishTrip ACK it awaits
    pInbox,     \* lines the coordinator wrote to the passenger's connection
    payments,   \* MakePayment requests sent to the gateway, per passenger
    started,    \* StartTrip pairs <<p, d>> whose trip is not finished (history)
    accepting   \* CanAcceptTripResponse futures awaiting UpdateDriver(OnTrip)

vars == <<dStatus, dPass, stored, registered, replica, toPeer, makeTrips, responses,
          finishes, finishing, dInbox, dFinishing, dDeaf, pPhase, pInbox, payments, started, accepting>>

HandleTripMsg(p)    == [kind |-> "HandleTrip", p |-> p]
UpdateMsg(a, d, s)  == [kind |-> "UpdateDrivers", action |-> a, d |-> d, status |-> s]
CanAcceptMsg(p)     == [kind |-> "CanAcceptTrip", p |-> p]
StartMsg(p, d)      == [kind |-> "StartTrip", p |-> p, d |-> d]
RejectMsg           == [kind |-> "RejectTrip"]
AckMsg              == [kind |-> "ACK"]

-----------------------------------------------------------------------------
(* Coordinator actor, HandleTrip: the round robin over peers finds a peer  *)
(* handle pinged in the last MAX_TIME_WITHOUT_PINGING seconds and writes    *)
(* HandleTrip to it; when none is fresh the trip is silently dropped.       *)
Dispatch(p) ==
    {{HandleTripMsg(p)}} \cup (IF PeerMayExpire THEN {{}} ELSE {})

(* A line written to a client's connection; a driver that reconnected no   *)
(* longer reads the connection the coordinator holds for it.                *)
SendDriver(d, m) == IF dDeaf[d] THEN dInbox[d] ELSE Append(dInbox[d], m)

(* Storage UpdateDriver: a driver without an entry is left alone. *)
UpdateDriver(d, s, p) ==
    /\ dStatus' = IF dStatus[d] = "Absent" THEN dStatus ELSE [dStatus EXCEPT ![d] = s]
    /\ dPass'   = IF dStatus[d] = "Absent" THEN dPass   ELSE [dPass EXCEPT ![d] = p]

Init ==
    /\ dStatus = [d \in Driver |-> "Absent"]
    /\ dPass = [d \in Driver |-> NoPassenger]
    /\ stored = {}
    /\ registered = {}
    /\ replica = [d \in Driver |-> "Absent"]
    /\ toPeer = {}
    /\ makeTrips = {}
    /\ responses = {}
    /\ finishes = {}
    /\ finishing = {}
    /\ dInbox = [d \in Driver |-> <<>>]
    /\ dFinishing = [d \in Driver |-> NoPassenger]
    /\ dDeaf = [d \in Driver |-> FALSE]
    /\ pPhase = [p \in Passenger |-> "idle"]
    /\ pInbox = [p \in Passenger |-> <<>>]
    /\ payments = [p \in Passenger |-> 0]
    /\ started = {}
    /\ accepting = {}

-----------------------------------------------------------------------------
(* DriverPosition, sent once by a driver client on start: InsertDriver as  *)
(* Active and an Insert broadcast to the followers.                         *)
DriverPosition(d) ==
    /\ d \notin registered
    /\ registered' = registered \cup {d}
    /\ dStatus' = [dStatus EXCEPT ![d] = "Active"]
    /\ dPass' = [dPass EXCEPT ![d] = NoPassenger]
    /\ toPeer' = toPeer \cup {UpdateMsg("Insert", d, "Active")}
    /\ UNCHANGED <<stored, replica, makeTrips, responses, finishes, finishing, dInbox,
                   dFinishing, dDeaf, pPhase, pInbox, payments, started, accepting>>

(* RequestTrip and the AuthConfirmation it sends to itself: InsertPassenger, *)
(* the payment check (a gateway timeout reads as not authorized), then      *)
(* HandleTrip to the Coordinator actor or RejectTrip to the passenger.      *)
RequestTrip(p) ==
    /\ pPhase[p] = "idle"
    /\ pPhase' = [pPhase EXCEPT ![p] = "requested"]
    /\ stored' = stored \cup {p}
    /\ \/ \E sent \in Dispatch(p) : toPeer' = toPeer \cup sent
          /\ UNCHANGED pInbox
       \/ pInbox' = [pInbox EXCEPT ![p] = Append(@, RejectMsg)]
          /\ UNCHANGED toPeer
    /\ UNCHANGED <<dStatus, dPass, registered, replica, makeTrips, responses, finishes,
                   finishing, dInbox, dFinishing, dDeaf, payments, started, accepting>>

(* Mutant: the follower keeps the trip after the coordinator's Ack, as if *)
(* the MakeTrip had failed, and hands it over again.                        *)
PeerHandleTripResend(m) ==
    /\ m \in toPeer
    /\ m.kind = "HandleTrip"
    /\ LET active == {d \in Driver : replica[d] = "Active"}
       IN  \E d \in (IF active = {} THEN {NoDriver} ELSE active) :
              makeTrips' = makeTrips \cup {[p |-> m.p, d |-> d, checked |-> FALSE]}
    /\ UNCHANGED <<toPeer, dStatus, dPass, stored, registered, replica, responses, finishes,
                   finishing, dInbox, dFinishing, dDeaf, pPhase, pInbox, payments, started, accepting>>

(* Follower: HandleTrip, then FindNearestDriver over its replica (any      *)
(* Active driver, or 0.0.0.0:0 when none) and MakeTrip to the coordinator,  *)
(* which acknowledges it before handling it.                                *)
PeerHandleTrip(m) ==
    /\ m \in toPeer
    /\ m.kind = "HandleTrip"
    /\ LET active == {d \in Driver : replica[d] = "Active"}
       IN  \E d \in (IF active = {} THEN {NoDriver} ELSE active) :
              makeTrips' = makeTrips \cup {[p |-> m.p, d |-> d, checked |-> FALSE]}
    /\ toPeer' = toPeer \ {m}
    /\ UNCHANGED <<dStatus, dPass, stored, registered, replica, responses, finishes,
                   finishing, dInbox, dFinishing, dDeaf, pPhase, pInbox, payments, started, accepting>>

(* Follower: MakeUpdateDriver applied to its Storage. *)
PeerUpdateDriver(m) ==
    /\ m \in toPeer
    /\ m.kind = "UpdateDrivers"
    /\ replica' = CASE m.action = "Insert" -> [replica EXCEPT ![m.d] = "Active"]
                    [] m.action = "Delete" -> [replica EXCEPT ![m.d] = "Absent"]
                    [] OTHER -> IF replica[m.d] = "Absent" THEN replica
                                ELSE [replica EXCEPT ![m.d] = m.status]
    /\ toPeer' = toPeer \ {m}
    /\ UNCHANGED <<dStatus, dPass, stored, registered, makeTrips, responses, finishes,
                   finishing, dInbox, dFinishing, dDeaf, pPhase, pInbox, payments, started, accepting>>

(* Coordinator Admin, MakeTrip up to GetDriver: an unknown driver (or none) *)
(* rejects the passenger, a driver already Waiting or OnTrip sends the trip *)
(* back to HandleTrip, an Active one goes on to the offer.                  *)
MakeTripCheck(m) ==
    /\ m \in makeTrips
    /\ ~m.checked
    /\ LET st == IF m.d = NoDriver THEN "Absent" ELSE dStatus[m.d]
       IN  \/ /\ st = "Absent"
              /\ pInbox' = IF m.p \in stored
                           THEN [pInbox EXCEPT ![m.p] = Append(@, RejectMsg)]
                           ELSE pInbox
              /\ makeTrips' = makeTrips \ {m}
              /\ UNCHANGED toPeer
           \/ /\ st \in {"Waiting", "OnTrip"}
              /\ \E sent \in Dispatch(m.p) : toPeer' = toPeer \cup sent
              /\ makeTrips' = makeTrips \ {m}
              /\ UNCHANGED pInbox
           \/ /\ st = "Active"
              /\ makeTrips' = (makeTrips \ {m}) \cup {[m EXCEPT !.checked = TRUE]}
              /\ UNCHANGED <<toPeer, pInbox>>
    /\ UNCHANGED <<dStatus, dPass, stored, registered, replica, responses, finishes,
                   finishing, dInbox, dFinishing, dDeaf, pPhase, payments, started, accepting>>

(* MakeTrip after GetDriver returned an Active driver: CanAcceptTrip to the *)
(* driver's connection, then UpdateDriver to Waiting for this passenger.    *)
MakeTripOffer(m) ==
    /\ m \in makeTrips
    /\ m.checked
    /\ dInbox' = [dInbox EXCEPT ![m.d] = SendDriver(m.d, CanAcceptMsg(m.p))]
    /\ UpdateDriver(m.d, "Waiting", m.p)
    /\ makeTrips' = makeTrips \ {m}
    /\ UNCHANGED <<stored, registered, replica, toPeer, responses, finishes, finishing,
                   dFinishing, dDeaf, pPhase, pInbox, payments, started, accepting>>

(* Driver client reading a line while not waiting for an ACK: it answers   *)
(* CanAcceptTrip at random (gen_bool(0.8)), whatever it is doing; on        *)
(* StartTrip it drives and sends FinishTrip; anything else is unknown.      *)
DriverRecv(d) ==
    /\ dFinishing[d] = NoPassenger
    /\ dInbox[d] # <<>>
    /\ LET h == Head(dInbox[d]) IN
       \/ /\ h.kind = "CanAcceptTrip"
          /\ \E acc \in BOOLEAN :
                responses' = responses \cup {[d |-> d, p |-> h.p, accepted |-> acc]}
          /\ UNCHANGED <<finishes, dFinishing>>
       \/ /\ h.kind = "StartTrip"
          /\ finishes' = finishes \cup {[p |-> h.p, d |-> d, from |-> "driver", try |-> 1]}
          /\ dFinishing' = [dFinishing EXCEPT ![d] = h.p]
          /\ UNCHANGED responses
       \/ /\ h.kind \notin {"CanAcceptTrip", "StartTrip"}
          /\ UNCHANGED <<responses, finishes, dFinishing>>
    /\ dInbox' = [dInbox EXCEPT ![d] = Tail(@)]
    /\ UNCHANGED <<dStatus, dPass, stored, registered, replica, toPeer, makeTrips,
                   finishing, dDeaf, pPhase, pInbox, payments, started, accepting>>

(* Driver client after FinishTrip: the next line is taken as the ACK,      *)
(* whatever it is.                                                          *)
DriverReadAck(d) ==
    /\ dFinishing[d] # NoPassenger
    /\ dInbox[d] # <<>>
    /\ dInbox' = [dInbox EXCEPT ![d] = Tail(@)]
    /\ dFinishing' = [dFinishing EXCEPT ![d] = NoPassenger]
    /\ UNCHANGED <<dStatus, dPass, stored, registered, replica, toPeer, makeTrips,
                   responses, finishes, finishing, dDeaf, pPhase, pInbox, payments, started, accepting>>

(* No line within 2 s: attempt_reconnect opens a new connection and sends  *)
(* FinishTrip again; the coordinator keeps writing to the old one.          *)
DriverAckTimeout(d) ==
    /\ dFinishing[d] # NoPassenger
    /\ dInbox[d] = <<>>
    /\ finishes' = finishes \cup {[p |-> dFinishing[d], d |-> d, from |-> "driver", try |-> 2]}
    /\ dFinishing' = [dFinishing EXCEPT ![d] = NoPassenger]
    /\ dDeaf' = [dDeaf EXCEPT ![d] = TRUE]
    /\ UNCHANGED <<dStatus, dPass, stored, registered, replica, toPeer, makeTrips,
                   responses, finishing, dInbox, pPhase, pInbox, payments, started, accepting>>

(* Coordinator Admin of the driver's connection, CanAcceptTripResponse, up *)
(* to the UpdateDriver(OnTrip) await.  Accepted: GetPassenger; if the      *)
(* passenger is still stored, StartTrip to both and UpdateDriver(OnTrip)   *)
(* sent to Storage (pending in accepting).  There is no check that the     *)
(* driver is still Waiting for this passenger.  Declined: the driver       *)
(* Active, an Update broadcast and the trip back to HandleTrip.            *)
CanAcceptTripResponse(r) ==
    /\ r \in responses
    /\ responses' = responses \ {r}
    /\ \/ /\ r.accepted
          /\ r.p \in stored
          /\ pInbox' = [pInbox EXCEPT ![r.p] = Append(@, StartMsg(r.p, r.d))]
          /\ dInbox' = [dInbox EXCEPT ![r.d] = SendDriver(r.d, StartMsg(r.p, r.d))]
          /\ started' = started \cup {<<r.p, r.d>>}
          /\ accepting' = accepting \cup {<<r.p, r.d>>}
          /\ UNCHANGED <<dStatus, dPass, toPeer>>
       \/ /\ r.accepted
          /\ r.p \notin stored
          /\ UNCHANGED <<pInbox, dInbox, dStatus, dPass, toPeer, started, accepting>>
       \/ /\ ~r.accepted
          /\ UpdateDriver(r.d, "Active", r.p)
          /\ \E sent \in Dispatch(r.p) :
                toPeer' = toPeer \cup {UpdateMsg("Update", r.d, "Active")} \cup sent
          /\ UNCHANGED <<pInbox, dInbox, started, accepting>>
    /\ UNCHANGED <<stored, registered, replica, makeTrips, finishes, finishing,
                   dFinishing, dDeaf, pPhase, payments>>

(* The rest of CanAcceptTripResponse once Storage handles the pending      *)
(* UpdateDriver(OnTrip): a driver the reaper removed meanwhile is left     *)
(* absent; the Update broadcast to the coordinator follows regardless.     *)
CanAcceptOnTrip(a) ==
    /\ a \in accepting
    /\ accepting' = accepting \ {a}
    /\ UpdateDriver(a[2], "OnTrip", a[1])
    /\ toPeer' = toPeer \cup {UpdateMsg("Update", a[2], "OnTrip")}
    /\ UNCHANGED <<stored, registered, replica, makeTrips, responses, finishes, finishing,
                   dInbox, dFinishing, dDeaf, pPhase, pInbox, payments, started>>

(* Mutant: the IsFinished answer read the wrong way round. *)
FinishCheckInverted(f) ==
    /\ f \in finishes
    /\ finishes' = finishes \ {f}
    /\ \A a \in accepting : a[1] # f.p
    /\ IF f.p \notin stored
       THEN /\ payments' = [payments EXCEPT ![f.p] = @ + 1]
            /\ finishing' = finishing \cup {f}
       ELSE UNCHANGED <<payments, finishing>>
    /\ UNCHANGED <<dStatus, dPass, stored, registered, replica, toPeer, makeTrips,
                   responses, dInbox, dFinishing, dDeaf, pPhase, pInbox, started, accepting>>

(* FinishTrip handler up to the payment: IsFinished (the passenger is no   *)
(* longer stored) ends it; otherwise MakePayment is sent to the gateway.    *)
FinishCheck(f) ==
    /\ f \in finishes
    /\ finishes' = finishes \ {f}
    \* IsFinished is queued behind the acceptance's UpdateDriver(OnTrip).
    /\ \A a \in accepting : a[1] # f.p
    /\ IF f.p \in stored
       THEN /\ payments' = [payments EXCEPT ![f.p] = @ + 1]
            /\ finishing' = finishing \cup {f}
       ELSE UNCHANGED <<payments, finishing>>
    /\ UNCHANGED <<dStatus, dPass, stored, registered, replica, toPeer, makeTrips,
                   responses, dInbox, dFinishing, dDeaf, pPhase, pInbox, started, accepting>>

(* FinishTrip handler after the payment: ACK to the passenger and to the   *)
(* driver still in Storage, Storage FinishTrip (driver Active, passenger   *)
(* removed) and the Update broadcast.                                       *)
FinishCommit(f) ==
    /\ f \in finishing
    /\ finishing' = finishing \ {f}
    /\ pInbox' = IF f.p \in stored THEN [pInbox EXCEPT ![f.p] = Append(@, AckMsg)] ELSE pInbox
    /\ dInbox' = IF dStatus[f.d] = "Absent" THEN dInbox
                 ELSE [dInbox EXCEPT ![f.d] = SendDriver(f.d, AckMsg)]
    /\ dStatus' = IF dStatus[f.d] = "Absent" THEN dStatus ELSE [dStatus EXCEPT ![f.d] = "Active"]
    /\ stored' = stored \ {f.p}
    /\ toPeer' = toPeer \cup {UpdateMsg("Update", f.d, "Active")}
    /\ started' = {t \in started : t[1] # f.p}
    /\ UNCHANGED <<dPass, registered, replica, makeTrips, responses, finishes,
                   dFinishing, dDeaf, pPhase, payments, accepting>>

(* Passenger client reading a line while not waiting for an ACK. *)
PassengerRecv(p) ==
    /\ pPhase[p] \in {"requested", "rejected", "done"}
    /\ pInbox[p] # <<>>
    /\ LET h == Head(pInbox[p]) IN
       \/ /\ h.kind = "StartTrip"
          /\ finishes' = finishes \cup {[p |-> p, d |-> h.d, from |-> "passenger", try |-> 1]}
          /\ pPhase' = [pPhase EXCEPT ![p] = h.d]
       \/ /\ h.kind = "RejectTrip"
          /\ pPhase' = [pPhase EXCEPT ![p] = "rejected"]
          /\ UNCHANGED finishes
       \/ /\ h.kind \notin {"StartTrip", "RejectTrip"}
          /\ UNCHANGED <<finishes, pPhase>>
    /\ pInbox' = [pInbox EXCEPT ![p] = Tail(@)]
    /\ UNCHANGED <<dStatus, dPass, stored, registered, replica, toPeer, makeTrips,
                   responses, finishing, dInbox, dFinishing, dDeaf, payments, started, accepting>>

(* Passenger client after FinishTrip: the next line is taken as the ACK. *)
PassengerReadAck(p) ==
    /\ pPhase[p] \in Driver
    /\ pInbox[p] # <<>>
    /\ pInbox' = [pInbox EXCEPT ![p] = Tail(@)]
    /\ pPhase' = [pPhase EXCEPT ![p] = "done"]
    /\ UNCHANGED <<dStatus, dPass, stored, registered, replica, toPeer, makeTrips,
                   responses, finishes, finishing, dInbox, dFinishing, dDeaf, payments, started, accepting>>

(* No line within 2 s: reconnect and send FinishTrip again. *)
PassengerAckTimeout(p) ==
    /\ pPhase[p] \in Driver
    /\ pInbox[p] = <<>>
    /\ finishes' = finishes \cup {[p |-> p, d |-> pPhase[p], from |-> "passenger", try |-> 2]}
    /\ pPhase' = [pPhase EXCEPT ![p] = "done"]
    /\ UNCHANGED <<dStatus, dPass, stored, registered, replica, toPeer, makeTrips,
                   responses, finishing, dInbox, dFinishing, dDeaf, pInbox, payments, started, accepting>>

(* Mutant: RejectTrip written to the reaped driver's connection instead of *)
(* its passenger's.                                                         *)
ReapDeadDriversRejectDriver ==
    \E dead \in SUBSET {d \in Driver : dStatus[d] = "Waiting"} \ {{}} :
        LET gone == {dPass[d] : d \in dead} IN
        /\ gone \subseteq stored
        /\ dStatus' = [d \in Driver |-> IF d \in dead THEN "Absent" ELSE dStatus[d]]
        /\ stored' = stored \ gone
        /\ dInbox' = [d \in Driver |-> IF d \in dead THEN SendDriver(d, RejectMsg)
                                        ELSE dInbox[d]]
        /\ toPeer' = toPeer \cup {UpdateMsg("Delete", d, "Absent") : d \in dead}
        /\ UNCHANGED <<dPass, registered, replica, makeTrips, responses, finishes,
                       finishing, pInbox, dFinishing, dDeaf, pPhase, payments, started, accepting>>

(* Reaper, every 5 s: ReapDeadDrivers removes the drivers Waiting for more *)
(* than 3 s (any set of Waiting drivers, time being abstract) and their    *)
(* passengers, which get RejectTrip; Delete is broadcast for each driver.  *)
(* Storage unwraps the passenger of each reaped driver: the step exists    *)
(* only while none is missing (ReaperCannotPanic checks the rest).          *)
ReapDeadDrivers ==
    \E dead \in SUBSET {d \in Driver : dStatus[d] = "Waiting"} \ {{}} :
        LET gone == {dPass[d] : d \in dead} IN
        /\ gone \subseteq stored
        /\ dStatus' = [d \in Driver |-> IF d \in dead THEN "Absent" ELSE dStatus[d]]
        /\ stored' = stored \ gone
        /\ pInbox' = [p \in Passenger |-> IF p \in gone THEN Append(pInbox[p], RejectMsg)
                                           ELSE pInbox[p]]
        /\ toPeer' = toPeer \cup {UpdateMsg("Delete", d, "Absent") : d \in dead}
        /\ UNCHANGED <<dPass, registered, replica, makeTrips, responses, finishes,
                       finishing, dInbox, dFinishing, dDeaf, pPhase, payments, started, accepting>>

Next ==
    \/ \E d \in Driver : DriverPosition(d) \/ DriverRecv(d) \/ DriverReadAck(d)
                         \/ DriverAckTimeout(d)
    \/ \E p \in Passenger : RequestTrip(p) \/ PassengerRecv(p) \/ PassengerReadAck(p)
                            \/ PassengerAckTimeout(p)
    \/ \E m \in toPeer : PeerHandleTrip(m) \/ PeerUpdateDriver(m)
    \/ \E m \in makeTrips : MakeTripCheck(m) \/ MakeTripOffer(m)
    \/ \E r \in responses : CanAcceptTripResponse(r)
    \/ \E a \in accepting : CanAcceptOnTrip(a)
    \/ \E f \in finishes : FinishCheck(f)
    \/ \E f \in finishing : FinishCommit(f)
    \/ ReapDeadDrivers

PeerMsgs ==
    {HandleTripMsg(p) : p \in Passenger}
    \cup {UpdateMsg(a, d, s) : a \in {"Insert", "Update", "Delete"}, d \in Driver, s \in Status}
MakeTripRecs == [p : Passenger, d : Driver \cup {NoDriver}, checked : BOOLEAN]
ResponseRecs == [d : Driver, p : Passenger, accepted : BOOLEAN]
FinishRecs   == [p : Passenger, d : Driver, from : {"driver", "passenger"}, try : {1, 2}]
(* The lines each kind of connection is sent. *)
DriverLines    == {CanAcceptMsg(p) : p \in Passenger}
                  \cup {StartMsg(p, d) : p \in Passenger, d \in Driver} \cup {AckMsg}
PassengerLines == {StartMsg(p, d) : p \in Passenger, d \in Driver} \cup {RejectMsg, AckMsg}

(* A driver that accepts: the answer it sends is an acceptance. *)
DriverAccepts(d) == DriverRecv(d) /\ \A r \in responses' \ responses : r.accepted

(* Every actor handles every message of its mailbox, the clients read     *)
(* their sockets, the 2 s ACK timeouts and the 5 s reaper fire, and each   *)
(* driver process starts.  A driver answers each offer with gen_bool(0.8), *)
(* so it cannot decline forever: strong fairness on accepting.             *)
Fairness ==
    /\ \A d \in Driver :
          /\ WF_vars(DriverPosition(d)) /\ WF_vars(DriverRecv(d))
          /\ WF_vars(DriverReadAck(d)) /\ WF_vars(DriverAckTimeout(d))
          /\ SF_vars(DriverAccepts(d))
    /\ \A p \in Passenger :
          WF_vars(PassengerRecv(p)) /\ WF_vars(PassengerReadAck(p)) /\ WF_vars(PassengerAckTimeout(p))
    /\ \A m \in PeerMsgs : WF_vars(PeerHandleTrip(m)) /\ WF_vars(PeerUpdateDriver(m))
    /\ \A m \in MakeTripRecs : WF_vars(MakeTripCheck(m)) /\ WF_vars(MakeTripOffer(m))
    /\ \A r \in ResponseRecs : WF_vars(CanAcceptTripResponse(r))
    /\ \A a \in Passenger \X Driver : WF_vars(CanAcceptOnTrip(a))
    /\ \A f \in FinishRecs : WF_vars(FinishCheck(f)) /\ WF_vars(FinishCommit(f))
    /\ WF_vars(ReapDeadDrivers)

Spec == Init /\ [][Next]_vars /\ Fairness

-----------------------------------------------------------------------------
TypeOK ==
    /\ dStatus \in [Driver -> Status]
    /\ dPass \in [Driver -> Passenger \cup {NoPassenger}]
    /\ stored \subseteq Passenger /\ registered \subseteq Driver
    /\ replica \in [Driver -> Status]
    /\ toPeer \subseteq PeerMsgs
    /\ makeTrips \subseteq MakeTripRecs
    /\ responses \subseteq ResponseRecs
    /\ accepting \subseteq Passenger \X Driver
    /\ finishes \subseteq FinishRecs /\ finishing \subseteq FinishRecs
    /\ dInbox \in [Driver -> Seq(DriverLines)]
    /\ pInbox \in [Passenger -> Seq(PassengerLines)]
    /\ dFinishing \in [Driver -> Passenger \cup {NoPassenger}]
    /\ dDeaf \in [Driver -> BOOLEAN]
    /\ pPhase \in [Passenger -> {"idle", "requested", "rejected", "done"} \cup Driver]
    /\ payments \in [Passenger -> Nat]
    /\ started \subseteq Passenger \X Driver

(* No double assignment (spec 8.4): no driver has been sent StartTrip for  *)
(* two passengers whose trips are both unfinished.  Two MakeTrip handlers   *)
(* of the coordinator both read the driver Active before either marks it    *)
(* Waiting, and CanAcceptTripResponse does not check whom it waited for.    *)
NoDoubleAssignment ==
    \A d \in Driver : Cardinality({p \in Passenger : <<p, d>> \in started}) <= 1

(* Idempotent completion (spec 8.6): at most one MakePayment per passenger, *)
(* although both the passenger and the driver send FinishTrip and a client *)
(* that misses the ACK sends it again.                                      *)
PaymentAtMostOnce ==
    \A p \in Passenger : payments[p] <= 1

(* ReapDeadDrivers unwraps the stored passenger of every Waiting driver: a *)
(* Waiting driver whose passenger is gone would panic the Storage actor.    *)
ReaperCannotPanic ==
    \A d \in Driver : dStatus[d] = "Waiting" => dPass[d] \in stored

(* A passenger is started with one driver at most. *)
OneDriverPerPassenger ==
    \A p \in Passenger : Cardinality({d \in Driver : <<p, d>> \in started}) <= 1

(* A running trip keeps its passenger (spec 4.3: an accepted offer puts   *)
(* the driver OnAssignment and the request InProgress): from StartTrip     *)
(* until a FinishTrip commits, the passenger stays in Storage.  The code   *)
(* breaks it: ReapDeadDrivers, handled between CanAcceptTripResponse's     *)
(* GetPassenger and its UpdateDriver(OnTrip), removes the still-Waiting    *)
(* driver and the passenger after StartTrip was sent to both.              *)
StartedPassengerStored ==
    \A t \in started : t[1] \in stored

(* Trip settlement: every trip that was started (StartTrip sent to both)   *)
(* is eventually committed by a FinishTrip (passenger removed, driver      *)
(* released, ACKs sent), through the driver's and the passenger's resent   *)
(* FinishTrip, unless the reaper removed its passenger meanwhile, after    *)
(* which IsFinished ends every FinishTrip of it unpaid.                    *)
TripsSettle ==
    \A p \in Passenger, d \in Driver :
        <<p, d>> \in started ~> (<<p, d>> \notin started \/ p \notin stored)

(* Request progress (spec 8.3): every passenger whose trip was requested   *)
(* is eventually rejected or finishes its trip.                             *)
RequestProgress ==
    \A p \in Passenger : pPhase[p] = "requested" ~> pPhase[p] \in {"rejected", "done"}
=============================================================================
