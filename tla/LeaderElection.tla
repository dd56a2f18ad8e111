--------------------------- MODULE LeaderElection ---------------------------
(***************************************************************************)
(* What a ring election of the coordinator tier promises (spec.md 4.7),   *)
(* without the ring: nodes fail and never return, and while no running    *)
(* node is leader one of them may become leader, namely the one the       *)
(* implementation's rule prefers among the running nodes (the largest id  *)
(* in tp-grupal-mslepowron, the lowest port in tp-grupal-sevitz).  A      *)
(* leader stays leader until it fails.                                    *)
(***************************************************************************)
CONSTANTS
    Node,           \* the node ids
    NoLeader,       \* no running node is leader
    Preferred(_)    \* Preferred(S): the node of S the election rule picks

VARIABLES
    alive,      \* the running nodes
    leader      \* the running node acting as leader, or NoLeader

vars == <<alive, leader>>

Init ==
    /\ alive \subseteq Node
    /\ leader \in alive \cup {NoLeader}

(* A node stops; if it was the leader, the cluster has none. *)
Fail(n) ==
    /\ n \in alive
    /\ alive' = alive \ {n}
    /\ leader' = IF leader = n THEN NoLeader ELSE leader

(* The election ends: the preferred running node becomes leader. *)
Elect(n) ==
    /\ leader = NoLeader
    /\ n \in alive /\ n = Preferred(alive)
    /\ leader' = n
    /\ UNCHANGED alive

Next == \E n \in Node : Fail(n) \/ Elect(n)

Spec == Init /\ [][Next]_vars

(* An election ends whenever there is a running node and no leader. *)
LiveSpec == Spec /\ WF_vars(\E n \in Node : Elect(n))
=============================================================================
