---------------------------- MODULE MCExecutions ----------------------------
(* Small instances of Executions for TLC: one API process that also runs   *)
(* processors, as server.ts does, and one worker process.                  *)
EXTENDS Executions, TLC

CONSTANTS e1, t1, api, worker, sa, sw

OneSlotEach == (sa :> api) @@ (sw :> worker)
=============================================================================
