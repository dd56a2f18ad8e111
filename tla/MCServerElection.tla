-------------------------- MODULE MCServerElection --------------------------
EXTENDS ServerElection

(* Three of the five ring slots run a server; slot 1 is the first leader, *)
(* as main() has every replica connect to id 1 first.                     *)
MCRunning3 == {1, 2, 3}
=============================================================================
