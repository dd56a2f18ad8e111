--------------------------- MODULE MCRingElection ---------------------------
(* Model-checking instances of RingElection. *)
EXTENDS RingElection

(* Crash-stop: four admins (ports 8080..8083), up to two crashes, no     *)
(* restart: two elections may run at once around a ring with two holes.  *)
MCNodesCrashStop == 4
MCCrashesCrashStop == 2

(* Crash and restart: three admins, one crash, the crashed one restarts. *)
MCNodesRestart == 3
MCStartsRestart == 2

(* Fresh boot: three admins started in any order, no crash. *)
MCNodesBoot == 3
=============================================================================
