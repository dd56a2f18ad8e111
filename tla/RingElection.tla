---------------------------- MODULE RingElection ----------------------------
(***************************************************************************)
(* Ring election of the ConcuRide admin cluster (tp-grupal-sevitz, actor  *)
(* CoordinatorElection).  Node i is the admin listening on port           *)
(* MIN_PEER_PORT + i.  Every admin runs one election actor whose only     *)
(* state is coordinator_id; the flag in_election of the struct is only    *)
(* ever written on clones made by the handlers, so the actor's own copy   *)
(* stays false and is not a variable here.                                 *)
(*                                                                         *)
(* A message in msgs is one that the admin's TCP reader has already       *)
(* acknowledged and forwarded to the election actor's mailbox: it is lost *)
(* if that admin crashes before handling it.                              *)
(***************************************************************************)
EXTENDS Naturals, Sequences, FiniteSets, FiniteSetsExt, Functions

CONSTANTS
    N,              \* number of admin ports, MAX_PEER_PORT - MIN_PEER_PORT + 1
    MaxCrashes,     \* bound on crash steps in a behaviour
    MaxStarts       \* bound on process starts of one node (first boot included)

ASSUME N \in Nat \ {0} /\ MaxCrashes \in Nat /\ MaxStarts \in Nat

Node == 0 .. N-1
MinPort == 0
MaxPort == N - 1
NoNode == -1        \* coordinator_id = None

VARIABLES
    up,         \* up[n]: the admin process n is running
    coord,      \* coord[n]: coordinator_id of n's election actor
    askAt,      \* askAt[n]: index of the next peer asked by ask_who_is_coordinator, -1 when idle
    msgs,       \* election-actor mailboxes: messages acknowledged but not yet handled
    starts,     \* starts[n]: how many times n has been started
    crashes     \* number of crash steps so far

vars == <<up, coord, askAt, msgs, starts, crashes>>

ElectionMsg == [kind: {"Election"}, to: Node, cands: Seq(Node)]
CoordMsg    == [kind: {"Coordinator"}, to: Node, coord: Node]

-----------------------------------------------------------------------------
(* The peers other than n, in the order ask_who_is_coordinator visits them. *)
PeerAt(n, k) == IF k < n THEN k ELSE k + 1

(* send_election_message: try the ports after n, wrapping from MAX_PEER_PORT *)
(* to MIN_PEER_PORT, and stop at the first one that acknowledges or after   *)
(* trying port n - 1.  For n = MinPort the stop port n - 1 is never reached *)
(* and the walk comes back to n itself, which acknowledges its own message. *)
RECURSIVE WalkFromNoWrap(_, _)
WalkFromNoWrap(n, p) ==
    \* mutant: the walk gives up at MAX_PEER_PORT instead of wrapping around
    LET next == p + 1
    IN  IF next > MaxPort THEN NoNode
        ELSE IF up[next] THEN next
        ELSE IF next = n - 1 THEN NoNode
        ELSE WalkFromNoWrap(n, next)

RECURSIVE WalkFrom(_, _)
WalkFrom(n, p) ==
    LET next == IF p >= MaxPort THEN MinPort ELSE p + 1
    IN  IF up[next] THEN next
        ELSE IF next = n - 1 THEN NoNode
        ELSE WalkFrom(n, next)

(* broadcast_coordinator: one Coordinator message to every other running peer. *)
Broadcast(n, c) ==
    {[kind |-> "Coordinator", to |-> p, coord |-> c] : p \in {q \in Node \ {n} : up[q]}}

(* handle_new_coordinator: the lowest port among the candidates becomes      *)
(* coordinator; n records it (receive_coordinator_message) and broadcasts it. *)
NewCoordinator(n, cands, inbox) ==
    LET c == Min(Range(cands))
    IN  /\ coord' = [coord EXCEPT ![n] = c]
        /\ msgs' = inbox \cup Broadcast(n, c)

(* send_election_message with the given candidate list; when no port       *)
(* acknowledges, n decides the election alone.                              *)
SendElection(n, cands, inbox) ==
    LET to == WalkFrom(n, n)
    IN  IF to = NoNode
        THEN NewCoordinator(n, cands, inbox)
        ELSE /\ msgs' = inbox \cup {[kind |-> "Election", to |-> to, cands |-> cands]}
             /\ UNCHANGED coord

-----------------------------------------------------------------------------
(* The cluster after the admins were started one after the other: node 0   *)
(* found no peer, declared itself, and every later node learned it from    *)
(* ask_who_is_coordinator.                                                  *)
InitStable ==
    /\ up = [n \in Node |-> TRUE]
    /\ coord = [n \in Node |-> 0]
    /\ askAt = [n \in Node |-> -1]
    /\ msgs = {}
    /\ starts = [n \in Node |-> 1]
    /\ crashes = 0

(* No admin process started yet. *)
InitDown ==
    /\ up = [n \in Node |-> FALSE]
    /\ coord = [n \in Node |-> NoNode]
    /\ askAt = [n \in Node |-> -1]
    /\ msgs = {}
    /\ starts = [n \in Node |-> 0]
    /\ crashes = 0

(* Admin::start: a fresh election actor with coordinator_id = None whose    *)
(* started() hook queues AskForCoordinator.                                 *)
Start(n) ==
    /\ ~up[n]
    /\ starts[n] < MaxStarts
    /\ up' = [up EXCEPT ![n] = TRUE]
    /\ coord' = [coord EXCEPT ![n] = NoNode]
    /\ askAt' = [askAt EXCEPT ![n] = 0]
    /\ starts' = [starts EXCEPT ![n] = @ + 1]
    /\ UNCHANGED <<msgs, crashes>>

(* The process dies: its mailbox and its pending futures are gone. *)
Crash(n) ==
    /\ up[n]
    /\ crashes < MaxCrashes
    /\ up' = [up EXCEPT ![n] = FALSE]
    /\ askAt' = [askAt EXCEPT ![n] = -1]
    /\ msgs' = {m \in msgs : m.to # n}
    /\ crashes' = crashes + 1
    /\ UNCHANGED <<coord, starts>>

AskPeerPastLast(n) ==
    \* mutant: the loop bound is one past the last peer
    /\ up[n]
    /\ askAt[n] # -1
    /\ IF askAt[n] = N
       THEN /\ askAt' = [askAt EXCEPT ![n] = -1]
            /\ NewCoordinator(n, <<n>>, msgs)
       ELSE LET p == PeerAt(n, askAt[n])
            IN  IF p \in Node /\ up[p] /\ coord[p] # NoNode
                THEN /\ coord' = [coord EXCEPT ![n] = coord[p]]
                     /\ askAt' = [askAt EXCEPT ![n] = -1]
                     /\ UNCHANGED msgs
                ELSE /\ askAt' = [askAt EXCEPT ![n] = @ + 1]
                     /\ UNCHANGED <<coord, msgs>>
    /\ UNCHANGED <<up, starts, crashes>>

AskPeerNoFallback(n) ==
    \* mutant: no answer from any peer and the node does not declare itself
    /\ up[n]
    /\ askAt[n] # -1
    /\ IF askAt[n] = N - 1
       THEN /\ askAt' = [askAt EXCEPT ![n] = -1]
            /\ UNCHANGED <<coord, msgs>>
       ELSE LET p == PeerAt(n, askAt[n])
            IN  IF up[p] /\ coord[p] # NoNode
                THEN /\ coord' = [coord EXCEPT ![n] = coord[p]]
                     /\ askAt' = [askAt EXCEPT ![n] = -1]
                     /\ UNCHANGED msgs
                ELSE /\ askAt' = [askAt EXCEPT ![n] = @ + 1]
                     /\ UNCHANGED <<coord, msgs>>
    /\ UNCHANGED <<up, starts, crashes>>

(* One iteration of ask_who_is_coordinator: peer p answers WhoIsCoordinator *)
(* with its coordinator_id, or "Ack" when it has none; a peer that is down  *)
(* refuses the connection.  After the last peer without an answer, n        *)
(* declares itself (handle_new_coordinator(vec![self.id])).                *)
AskPeer(n) ==
    /\ up[n]
    /\ askAt[n] # -1
    /\ IF askAt[n] = N - 1
       THEN /\ askAt' = [askAt EXCEPT ![n] = -1]
            /\ NewCoordinator(n, <<n>>, msgs)
       ELSE LET p == PeerAt(n, askAt[n])
            IN  IF up[p] /\ coord[p] # NoNode
                THEN /\ coord' = [coord EXCEPT ![n] = coord[p]]
                     /\ askAt' = [askAt EXCEPT ![n] = -1]
                     /\ UNCHANGED msgs
                ELSE /\ askAt' = [askAt EXCEPT ![n] = @ + 1]
                     /\ UNCHANGED <<coord, msgs>>
    /\ UNCHANGED <<up, starts, crashes>>

(* PingCoordinator, every PING_INTERVAL: a node that is not coordinator and *)
(* knows one pings it; when the coordinator cannot be reached it sends      *)
(* itself StartElection, whose handler runs start_election.  A ping that is *)
(* acknowledged changes nothing and is not a step of the model.             *)
PingFails(n) ==
    /\ up[n]
    /\ coord[n] \notin {NoNode, n}
    /\ ~up[coord[n]]
    /\ SendElection(n, <<n>>, msgs)
    /\ UNCHANGED <<up, askAt, starts, crashes>>

HandleElectionNoDecide(m) ==
    \* mutant: a walk that comes back to a candidate is dropped, not decided
    LET n == m.to IN
    /\ m \in msgs
    /\ m.kind = "Election"
    /\ up[n]
    /\ IF n \in Range(m.cands)
       THEN UNCHANGED coord /\ msgs' = msgs \ {m}
       ELSE SendElection(n, Append(m.cands, n), msgs \ {m})
    /\ UNCHANGED <<up, askAt, starts, crashes>>

(* handle_election: a node already among the candidates ends the walk and  *)
(* picks the coordinator; any other node appends itself and forwards.      *)
HandleElection(m) ==
    LET n == m.to IN
    /\ m \in msgs
    /\ m.kind = "Election"
    /\ up[n]
    /\ IF n \in Range(m.cands)
       THEN NewCoordinator(n, m.cands, msgs \ {m})
       ELSE SendElection(n, Append(m.cands, n), msgs \ {m})
    /\ UNCHANGED <<up, askAt, starts, crashes>>

(* receive_coordinator_message from a peer's broadcast. *)
ReceiveCoordinator(m) ==
    /\ m \in msgs
    /\ m.kind = "Coordinator"
    /\ up[m.to]
    /\ coord' = [coord EXCEPT ![m.to] = m.coord]
    /\ msgs' = msgs \ {m}
    /\ UNCHANGED <<up, askAt, starts, crashes>>

Next ==
    \/ \E n \in Node : Start(n) \/ Crash(n) \/ AskPeer(n) \/ PingFails(n)
    \/ \E m \in msgs : HandleElection(m) \/ ReceiveCoordinator(m)

(* Ring distance from port a forward to port b. *)
RingDist(a, b) == (b - a + N) % N

(* Candidate lists a walk can build: send_election_message only moves       *)
(* forward from the sender, and a walk ends when it reaches a candidate, so *)
(* the candidates follow the ring from the initiator, each port at most once. *)
CandLists ==
    UNION {{s \in [1..k -> Node] :
              \A i \in 1..k-1 : RingDist(s[1], s[i]) < RingDist(s[1], s[i+1])} :
           k \in 1..N}

(* Election messages a walk can send: to a port further along the ring than *)
(* every candidate, or back to a candidate, which ends the walk.            *)
WalkMsgs ==
    {m \in [kind : {"Election"}, to : Node, cands : CandLists] :
        \/ m.to \in Range(m.cands)
        \/ RingDist(m.cands[1], m.to) > RingDist(m.cands[1], m.cands[Len(m.cands)])}

(* Every running actor finishes its futures, keeps its ping task firing and *)
(* handles every message of its mailbox (actix mailboxes are served in      *)
(* order, so no message waits forever); starts and crashes are the          *)
(* environment's.                                                           *)
Fairness ==
    /\ \A n \in Node : WF_vars(AskPeer(n)) /\ WF_vars(PingFails(n))
    /\ \A m \in WalkMsgs : WF_vars(HandleElection(m))
    /\ \A n \in Node :
          WF_vars(\E m \in msgs : m.to = n /\ ReceiveCoordinator(m))

SpecStable == InitStable /\ [][Next]_vars /\ Fairness
SpecBoot   == InitDown /\ [][Next]_vars /\ Fairness /\ \A n \in Node : WF_vars(Start(n))

-----------------------------------------------------------------------------
TypeOK ==
    /\ up \in [Node -> BOOLEAN]
    /\ coord \in [Node -> Node \cup {NoNode}]
    /\ askAt \in [Node -> -1 .. N-1]
    /\ msgs \subseteq ElectionMsg \cup CoordMsg
    /\ starts \in [Node -> 0 .. MaxStarts]
    /\ crashes \in 0 .. MaxCrashes

Leaders == {n \in Node : up[n] /\ coord[n] = n}

(* Unique leadership: at no time do two running admins each hold their own *)
(* address as coordinator_id (and so both admit RequestTrip and            *)
(* DriverPosition, which are guarded by AmICoordinator).                   *)
AtMostOneLeader == Cardinality(Leaders) <= 1

(* Failover: once crashes stop, the running admins end up agreeing on one  *)
(* running coordinator that believes it is coordinator, through            *)
(* PingCoordinator, the ring walk and the Coordinator broadcast.            *)
EventuallyAgreedLeader ==
    <>[](\E l \in Node : up[l] /\ \A n \in Node : up[n] => coord[n] = l)

(* Start-up: every admin that is started ends up, and stays, with some     *)
(* coordinator_id: ask_who_is_coordinator either learns one from a peer or *)
(* declares its own node when no peer answers.                              *)
EveryNodeLearnsCoordinator ==
    \A n \in Node : <>[](coord[n] # NoNode)
=============================================================================
