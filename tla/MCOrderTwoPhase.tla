--------------------------- MODULE MCOrderTwoPhase ---------------------------
(* Model-checking instances of OrderTwoPhase. *)
EXTENDS OrderTwoPhase

(* The retries and the recovery are bounded by the connections the        *)
(* customer may open: three let an aborted round be retried and the order  *)
(* then be recovered, or two rounds follow one crash.                      *)
MCMaxConn == 2
=============================================================================
