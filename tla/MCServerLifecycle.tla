------------------------- MODULE MCServerLifecycle --------------------------
(* Small instances of ServerLifecycle for TLC: both processes, a request,  *)
(* a client, and a job, handed out twice, of three log entries, one of     *)
(* them of a node event.                                                   *)
EXTENDS ServerLifecycle, TLC

CONSTANTS r1, c1, j1
=============================================================================
