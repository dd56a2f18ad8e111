--------------------------- MODULE ServerElection ---------------------------
(***************************************************************************)
(* Ring election of the server replicas of tp-grupal-mslepowron            *)
(* (server/src/server.rs, udp_receiver.rs).  Server i listens for UDP on  *)
(* SERVER_UDP_PORT_RANGE + i; get_neighbor_id closes the ring after id 5, *)
(* so the ring is the ids 1..5 whether or not a process runs on each.     *)
(*                                                                         *)
(* One Server actor per process.  Its handlers are atomic (the async ones *)
(* hold the mailbox across their awaits), so each is one action here.     *)
(* Its mailbox is FIFO and holds what the UdpReceiver passes on and what  *)
(* the actor sends itself (StartElection, NewLeader, WaitForNeighborAck,  *)
(* CheckIfNeighborAcked, ConnectToServer).  The Pings of main's loop are  *)
(* not queued here: one may be handled between any two messages.          *)
(*                                                                         *)
(* A UDP datagram in net is delivered by the UdpReceiver of its           *)
(* destination, which acknowledges Election and NewLeader at once, before *)
(* the Server handles them.  A datagram to a port where nothing runs is   *)
(* never delivered.  WaitForNeighborAck sleeps 300 ms and then queues     *)
(* CheckIfNeighborAcked; with Timely the ack of a running neighbour has   *)
(* been queued by then, without it the ack may come later.                *)
(***************************************************************************)
EXTENDS Naturals, Sequences, FiniteSets, FiniteSetsExt, SequencesExt

CONSTANTS
    Running,        \* the ids on which a server process was started
    Lead,           \* the id started with the leader flag
    Crashable,      \* the servers whose process may stop
    MaxCrashes,     \* bound on crash steps in a behaviour
    Timely,         \* TRUE: acks beat the 300 ms timeout, connects outlast a NewLeader's trip
    PromptAcks      \* TRUE: an ack on the wire is received before any other step

Id == 1 .. 5                \* get_neighbor_id wraps from 5 to 1
NoId == 0                   \* id_leader / actual_neighbor_id = 0, leader_connection = None

ASSUME Running \subseteq Id /\ Lead \in Running /\ Crashable \subseteq Running /\ MaxCrashes \in Nat /\ Timely \in BOOLEAN
       /\ PromptAcks \in BOOLEAN

VARIABLES
    up,         \* up[s]: the process of server s is running
    idLeader,   \* id_leader
    imLeader,   \* im_leader (also: its ConnectionListener accepts connections)
    conn,       \* leader_connection: the id it is connected to, NoId for None
    onCourse,   \* election_on_course
    neighbor,   \* actual_neighbor_id
    disc,       \* disconnected_servers, as a set
    seq,        \* sequence_number
    acked,      \* the keys of message_received_ack
    net,        \* UDP datagrams in flight
    inbox,      \* inbox[s]: messages in the Server actor's mailbox
    crashes     \* number of crash steps so far

vars == <<up, idLeader, imLeader, conn, onCourse, neighbor, disc, seq, acked,
          net, inbox, crashes>>

(* The bodies of the messages.  Election carries server_ids,              *)
(* disconnected_leader_id and sequence_number; NewLeader carries          *)
(* leader_id, id_sender and sequence_number; an ack only the sequence     *)
(* number (its id is always 0, see udp_receiver.rs).  WaitForNeighborAck  *)
(* carries the neighbour and the whole message it waits an ack for.       *)
ElectionBody(ids, dl, n) ==
    [kind |-> "Election", ids |-> ids, dl |-> dl, leader |-> NoId, sender |-> NoId, seq |-> n]
NewLeaderBody(l, snd, n) ==
    [kind |-> "NewLeader", ids |-> <<>>, dl |-> NoId, leader |-> l, sender |-> snd, seq |-> n]
AckBody(n) ==
    [kind |-> "Ack", ids |-> <<>>, dl |-> NoId, leader |-> NoId, sender |-> NoId, seq |-> n]
WaitBody(nb, m)  == [kind |-> "Wait", nb |-> nb, msg |-> m]
CheckBody(nb, m) == [kind |-> "Check", nb |-> nb, msg |-> m]
StartBody   == [kind |-> "StartElection"]
ConnectBody == [kind |-> "ConnectToServer"]

Datagram(from, to, m) == [from |-> from, to |-> to, msg |-> m]

(* UdpSender.send_to: a datagram to a port where no server runs is lost. *)
Send(from, to, m) ==
    IF to \in Running /\ up[to] THEN {Datagram(from, to, m)} ELSE {}

-----------------------------------------------------------------------------
NeighborIdNoWrap(i) ==
    \* mutant: the ring is not closed after the last id
    i + 1

(* get_neighbor_id *)
NeighborId(i) == IF i = 5 THEN 1 ELSE i + 1

(* update_neighbor(actual_neighbor_id): keep the neighbour unless it is    *)
(* marked disconnected; else walk the ring from the next id, skipping     *)
(* disconnected ids and s itself, for at most 5 steps.  The result        *)
(* records whether a neighbour was found and the new actual_neighbor_id   *)
(* (after a failed walk, the id 5 steps on, i.e. the first one tried).    *)
RECURSIVE WalkNeighbor(_, _, _, _)
WalkNeighbor(s, d, cur, count) ==
    IF count >= 5 THEN [ok |-> FALSE, nb |-> cur]
    ELSE IF cur \notin d /\ cur # s THEN [ok |-> TRUE, nb |-> cur]
    ELSE WalkNeighbor(s, d, NeighborId(cur), count + 1)

UpdateNeighbor(s, d) ==
    IF neighbor[s] \notin d THEN [ok |-> TRUE, nb |-> neighbor[s]]
    ELSE WalkNeighbor(s, d, NeighborId(neighbor[s]), 0)

(* The common tail of the handlers that pass a message on: with un the   *)
(* result of update_neighbor, send m over UDP to the new neighbour and    *)
(* post WaitForNeighborAck for it, or, when no neighbour is left, post    *)
(* the NewLeader the server sends to itself with its own sequence number. *)
(* box is the rest of the mailbox.                                         *)
Forward(s, un, m, box) ==
    /\ neighbor' = [neighbor EXCEPT ![s] = un.nb]
    /\ IF un.ok
       THEN /\ net' = net \cup Send(s, un.nb, m)
            /\ inbox' = [inbox EXCEPT ![s] = Append(box, WaitBody(un.nb, m))]
       ELSE /\ net' = net
            /\ inbox' = [inbox EXCEPT ![s] = Append(box, NewLeaderBody(s, s, seq[s]))]

-----------------------------------------------------------------------------
(* main: server Lead starts as leader (im_leader, id_leader = its id,      *)
(* neighbour the next id); every other one as a replica with id_leader 0,  *)
(* actual_neighbor_id 0, which connects to Lead, sends new_replica and     *)
(* SetLeader.  The state is the one after SetLeader.                       *)
Init ==
    /\ up = [s \in Running |-> TRUE]
    /\ idLeader = [s \in Running |-> Lead]
    /\ imLeader = [s \in Running |-> s = Lead]
    /\ conn = [s \in Running |-> IF s = Lead THEN NoId ELSE Lead]
    /\ onCourse = [s \in Running |-> FALSE]
    /\ neighbor = [s \in Running |-> IF s = Lead THEN NeighborId(s) ELSE NoId]
    /\ disc = [s \in Running |-> {}]
    /\ seq = [s \in Running |-> 0]
    /\ acked = [s \in Running |-> {}]
    /\ net = {}
    /\ inbox = [s \in Running |-> <<>>]
    /\ crashes = 0

(* A server process stops: its mailbox and the datagrams to its port are  *)
(* lost, and the TCP connections to it close, so                         *)
(* leader_connection.connected() turns false.                             *)
Crash(s) ==
    /\ s \in Crashable /\ up[s] /\ crashes < MaxCrashes
    /\ up' = [up EXCEPT ![s] = FALSE]
    /\ inbox' = [inbox EXCEPT ![s] = <<>>]
    /\ net' = {d \in net : d.to # s}
    /\ crashes' = crashes + 1
    /\ UNCHANGED <<idLeader, imLeader, conn, onCourse, neighbor, disc, seq, acked>>

(* Ping, sent by main's loop and by the 500 ms interval: a replica whose  *)
(* leader connection is closed drops it, marks the election on course and *)
(* sends itself StartElection.  With the connection open it only pings.   *)
Ping(s) ==
    /\ up[s] /\ ~imLeader[s]
    /\ conn[s] # NoId /\ ~up[conn[s]]
    /\ conn' = [conn EXCEPT ![s] = NoId]
    /\ onCourse' = [onCourse EXCEPT ![s] = TRUE]
    /\ inbox' = [inbox EXCEPT ![s] = Append(@, StartBody)]
    /\ UNCHANGED <<up, idLeader, imLeader, neighbor, disc, seq, acked, net, crashes>>

(* UdpReceiver: a datagram reaches a running server.  Election and        *)
(* NewLeader are acknowledged to the sender's address with the message's *)
(* sequence number, then passed to the Server; an ack becomes NeighborAck. *)
Receive(d) ==
    /\ d.to \in Running /\ up[d.to]
    /\ net' = (net \ {d}) \cup
              IF d.msg.kind = "Ack" THEN {}
              ELSE Send(d.to, d.from, AckBody(d.msg.seq))
    /\ inbox' = [inbox EXCEPT ![d.to] = Append(@, d.msg)]
    /\ UNCHANGED <<up, idLeader, imLeader, conn, onCourse, neighbor, disc, seq, acked, crashes>>

(* StartElection: mark the leader disconnected, find a neighbour and send *)
(* it Election [own id] with the current sequence number (incremented     *)
(* twice), or elect itself when no neighbour is left.                     *)
StartElection(s) ==
    LET d  == disc[s] \cup {idLeader[s]}
        un == UpdateNeighbor(s, d)
    IN  /\ disc' = [disc EXCEPT ![s] = d]
        /\ seq' = [seq EXCEPT ![s] = @ + (IF un.ok THEN 2 ELSE 1)]
        /\ Forward(s, un, ElectionBody(<<s>>, idLeader[s], seq[s]), Tail(inbox[s]))
        /\ UNCHANGED <<up, idLeader, imLeader, conn, onCourse, acked, crashes>>

(* The ack of w.msg, sent by s to w.nb, is still on its way: the message *)
(* waits to be received by a running w.nb, or its ack to be received.     *)
AckUnderway(s, w) ==
    \/ w.nb \in Running /\ up[w.nb] /\ Datagram(s, w.nb, w.msg) \in net
    \/ Datagram(w.nb, s, AckBody(w.msg.seq)) \in net

(* WaitForNeighborAck: sleep 300 ms, holding the mailbox, then queue      *)
(* CheckIfNeighborAcked for the same neighbour and message.               *)
WaitForNeighborAck(s, w) ==
    /\ Timely => ~AckUnderway(s, w)
    /\ inbox' = [inbox EXCEPT ![s] = Append(Tail(@), CheckBody(w.nb, w.msg))]
    /\ UNCHANGED <<up, idLeader, imLeader, conn, onCourse, neighbor, disc, seq, acked, net, crashes>>

(* CheckIfNeighborAcked: if an ack with the message's sequence number was *)
(* ever recorded, stop; else mark the neighbour disconnected and resend   *)
(* the same message to the next one, or elect itself if none is left.    *)
CheckIfNeighborAcked(s, c) ==
    LET d  == disc[s] \cup {c.nb}
        un == UpdateNeighbor(s, d)
    IN  /\ \/ /\ c.msg.seq \in acked[s]
              /\ inbox' = [inbox EXCEPT ![s] = Tail(@)]
              /\ UNCHANGED <<disc, seq, neighbor, net>>
           \/ /\ c.msg.seq \notin acked[s]
              /\ disc' = [disc EXCEPT ![s] = d]
              /\ seq' = [seq EXCEPT ![s] = @ + (IF un.ok THEN 0 ELSE 1)]
              /\ Forward(s, un, c.msg, Tail(inbox[s]))
        /\ UNCHANGED <<up, idLeader, imLeader, conn, onCourse, acked, crashes>>

ElectedIdMin(ids) ==
    \* mutant: the smallest id of the walk wins
    Min(Range(ids))

ElectedIdFirst(ids) ==
    \* mutant: the server that started the walk wins
    ids[1]

(* The loop of the Election handler: the largest id of server_ids. *)
ElectedId(ids) == Max(Range(ids))

(* Election: mark the disconnected leader, drop the connection if it is   *)
(* the leader this server knows, and find a neighbour.  If the message    *)
(* already holds this server's id, the ring is closed: the largest id is  *)
(* the leader, sent on as NewLeader.  Otherwise append the own id and     *)
(* pass the Election on.  Both carry the server's own sequence number.    *)
HandleElection(s, m) ==
    LET d  == disc[s] \cup {m.dl}
        un == UpdateNeighbor(s, d)
        finished == s \in Range(m.ids)
        l == ElectedId(m.ids)
        out == IF finished THEN NewLeaderBody(l, s, seq[s])
               ELSE ElectionBody(Append(m.ids, s), m.dl, seq[s])
    IN  /\ disc' = [disc EXCEPT ![s] = d]
        /\ conn' = IF idLeader[s] = m.dl THEN [conn EXCEPT ![s] = NoId] ELSE conn
        /\ idLeader' = IF un.ok /\ finished THEN [idLeader EXCEPT ![s] = l] ELSE idLeader
        /\ seq' = [seq EXCEPT ![s] = @ + 1]
        /\ Forward(s, un, out, Tail(inbox[s]))
        /\ UNCHANGED <<up, imLeader, onCourse, acked, crashes>>

HandleNewLeaderNoConnect(s, m) ==
    \* mutant: ConnectToServer is never sent
    LET un == UpdateNeighbor(s, disc[s])
    IN  /\ idLeader' = [idLeader EXCEPT ![s] = m.leader]
        /\ imLeader' = [imLeader EXCEPT ![s] = @ \/ m.leader = s]
        /\ IF m.sender # s
           THEN /\ seq' = [seq EXCEPT ![s] = @ + (IF un.ok THEN 0 ELSE 1)]
                /\ Forward(s, un, m, Tail(inbox[s]))
           ELSE /\ inbox' = [inbox EXCEPT ![s] = Tail(@)]
                /\ UNCHANGED <<seq, neighbor, net>>
        /\ UNCHANGED <<up, conn, onCourse, disc, acked, crashes>>

(* NewLeader: adopt the leader, start listening if it is this server,     *)
(* pass the message on unchanged (with its original sequence number)      *)
(* unless this server sent it, and connect to the leader if this server   *)
(* is not it and has no leader connection.                                *)
HandleNewLeader(s, m) ==
    LET un == UpdateNeighbor(s, disc[s])
        box == IF m.leader # s /\ conn[s] = NoId
               THEN Append(Tail(inbox[s]), ConnectBody) ELSE Tail(inbox[s])
    IN  /\ idLeader' = [idLeader EXCEPT ![s] = m.leader]
        /\ imLeader' = [imLeader EXCEPT ![s] = @ \/ m.leader = s]
        /\ IF m.sender # s
           THEN /\ seq' = [seq EXCEPT ![s] = @ + (IF un.ok THEN 0 ELSE 1)]
                /\ Forward(s, un, m, box)
           ELSE /\ inbox' = [inbox EXCEPT ![s] = box]
                /\ UNCHANGED <<seq, neighbor, net>>
        /\ UNCHANGED <<up, conn, onCourse, disc, acked, crashes>>

(* NeighborAck: record the sequence number as acknowledged.  It also      *)
(* removes msg.id from disconnected_servers, but that id is always 0.     *)
NeighborAck(s, m) ==
    /\ acked' = [acked EXCEPT ![s] = @ \cup {m.seq}]
    /\ inbox' = [inbox EXCEPT ![s] = Tail(@)]
    /\ UNCHANGED <<up, idLeader, imLeader, conn, onCourse, neighbor, disc, seq, net, crashes>>

(* A NewLeader naming l is still on its way, in a datagram or a mailbox,  *)
(* possibly inside a WaitForNeighborAck or CheckIfNeighborAcked that may  *)
(* resend it.                                                             *)
Carries(m, l) ==
    \/ m.kind = "NewLeader" /\ m.leader = l
    \/ m.kind \in {"Wait", "Check"} /\ m.msg.kind = "NewLeader" /\ m.msg.leader = l
NewLeaderUnderway(l) ==
    \/ \E d \in net : d.to \in Running /\ up[d.to] /\ Carries(d.msg, l)
    \/ \E r \in Running : up[r] /\ \E i \in DOMAIN inbox[r] : Carries(inbox[r][i], l)

(* ConnectToServer: after 100 ms and up to six attempts 100 ms apart,     *)
(* holding the mailbox, open a TCP connection to id_leader.  It succeeds  *)
(* when that server runs and its ConnectionListener is up; then the       *)
(* election is over for this server.  On failure the handler returns.     *)
(* With Timely, the attempts outlast the NewLeader still on its way to l. *)
ConnectToServer(s) ==
    LET l == idLeader[s]
    IN  /\ Timely /\ l \in Running /\ up[l] /\ ~imLeader[l] => ~NewLeaderUnderway(l)
        /\ IF l \in Running /\ up[l] /\ imLeader[l]
           THEN /\ conn' = [conn EXCEPT ![s] = l]
                /\ onCourse' = [onCourse EXCEPT ![s] = FALSE]
           ELSE UNCHANGED <<conn, onCourse>>
        /\ inbox' = [inbox EXCEPT ![s] = Tail(@)]
        /\ UNCHANGED <<up, idLeader, imLeader, neighbor, disc, seq, acked, net, crashes>>

(* The Server actor handles the message at the head of its mailbox. *)
Handle(s) ==
    LET m == Head(inbox[s])
    IN  /\ up[s] /\ inbox[s] # <<>>
        /\ \/ m = StartBody /\ StartElection(s)
           \/ m.kind = "Wait" /\ WaitForNeighborAck(s, m)
           \/ m.kind = "Check" /\ CheckIfNeighborAcked(s, m)
           \/ m.kind = "Election" /\ HandleElection(s, m)
           \/ m.kind = "NewLeader" /\ HandleNewLeader(s, m)
           \/ m.kind = "Ack" /\ NeighborAck(s, m)
           \/ m = ConnectBody /\ ConnectToServer(s)

(* With PromptAcks, the ack the UdpReceiver sends back over localhost is  *)
(* received before any server process takes a step: it still queues in  *)
(* the Server's mailbox behind what came earlier.  This restricts the     *)
(* behaviours; only the liveness run assumes it.                          *)
AcksDelivered ==
    PromptAcks => ~\E d \in net : d.msg.kind = "Ack" /\ d.to \in Running /\ up[d.to]

Next ==
    \/ \E s \in Running : AcksDelivered /\ (Crash(s) \/ Ping(s) \/ Handle(s))
    \/ \E d \in net : Receive(d)

(* Every replica's mailbox is served, main's loop keeps pinging, and a    *)
(* datagram to a running server is received.  Lead needs no fairness: as *)
(* leader it never pings and nothing is sent to it.                       *)
Fairness ==
    /\ \A s \in Running \ {Lead} : WF_vars(Ping(s)) /\ WF_vars(Handle(s))
    /\ WF_vars(\E d \in net : Receive(d))

Spec == Init /\ [][Next]_vars /\ Fairness

-----------------------------------------------------------------------------
Body == {m.kind : m \in {StartBody, ConnectBody}} \cup {"Election", "NewLeader", "Ack", "Wait", "Check"}

TypeOK ==
    /\ up \in [Running -> BOOLEAN]
    /\ idLeader \in [Running -> Id \cup {NoId}]
    /\ imLeader \in [Running -> BOOLEAN]
    /\ conn \in [Running -> Running \cup {NoId}]
    /\ onCourse \in [Running -> BOOLEAN]
    /\ neighbor \in [Running -> Id \cup {NoId}]
    /\ disc \in [Running -> SUBSET (Id \cup {NoId})]
    /\ seq \in [Running -> Nat]
    /\ acked \in [Running -> SUBSET Nat]
    /\ \A d \in net : d.from \in Running /\ d.to \in Id \cup {NoId} /\ d.msg.kind \in Body
    /\ \A s \in Running : \A i \in DOMAIN inbox[s] : inbox[s][i].kind \in Body
    /\ crashes \in 0 .. MaxCrashes

(* The servers that run as leader: im_leader is never reset, so a leader  *)
(* is a running server that once handled a NewLeader naming itself.       *)
Leaders == {s \in Running : up[s] /\ imLeader[s]}

(* Safety of the election (server.rs Election / NewLeader handlers): at   *)
(* no time do two running servers both act as leader and accept           *)
(* connections from replicas.                                             *)
AtMostOneLeader == Cardinality(Leaders) <= 1

(* Liveness of the election: after the leader's crash the replicas end    *)
(* up, for good, with one running leader that every running replica is   *)
(* connected to (ConnectToServer succeeded).                              *)
EventuallyConnected ==
    <>[](\E l \in Leaders : \A s \in Running : up[s] => (s = l \/ conn[s] = l))


-----------------------------------------------------------------------------
(* Refinement: the servers implement the abstract election in which the   *)
(* running server with the largest id becomes leader once the leader has  *)
(* failed.  The abstract leader is the running server with im_leader set. *)
ElectedLeader == IF Leaders = {} THEN NoId ELSE CHOOSE l \in Leaders : TRUE

Election == INSTANCE LeaderElection
    WITH Node <- Running, NoLeader <- NoId, Preferred <- Max,
         alive <- {s \in Running : up[s]}, leader <- ElectedLeader

(* The Election and NewLeader handlers never make a server leader while   *)
(* another running server is leader, and the one they make leader is the  *)
(* largest running id (the maximum of server_ids of a full ring walk).    *)
ElectionRefined == Election!Spec
=============================================================================
