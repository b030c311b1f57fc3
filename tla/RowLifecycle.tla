---------------------------- MODULE RowLifecycle ----------------------------
(***************************************************************************)
(* What a client that polls a row driven by a queued job may rely on: the  *)
(* life of its status column, with nothing said of queues, workers or      *)
(* retries.  Executions are such rows, and so are documents being indexed. *)
(* As long as nothing goes wrong the status follows                        *)
(*                                                                         *)
(*     PENDING -> RUNNING -> SUCCESS | FAILED,   FAILED -> RUNNING         *)
(*                                                                         *)
(* the last arrow being an attempt made again.  SUCCESS is final.  Once a  *)
(* call has failed, a process has died or a lock has been lost             *)
(* ("disturbed") an outcome may be revised, but a row whose job has        *)
(* started never looks as if it had not, and none finishes unstarted.      *)
(***************************************************************************)
CONSTANT Items

VARIABLES
  status,      \* status[i]: what the row says, "NONE" before it exists
  disturbed    \* has anything gone wrong so far?

vars == <<status, disturbed>>

Outcomes == {"SUCCESS", "FAILED"}
Started  == {"RUNNING"} \cup Outcomes

Init ==
  /\ status = [i \in Items |-> "NONE"]
  /\ disturbed = FALSE

Move(i, from, to) ==
  /\ status[i] \in from
  /\ status' = [status EXCEPT ![i] = to]

Create(i) == Move(i, {"NONE"}, "PENDING")

Start(i) == Move(i, {"PENDING", "FAILED"}, "RUNNING")

Finish(i) == \E o \in Outcomes : Move(i, {"RUNNING"}, o)

(* After a disturbance a row whose job has started may be started again,   *)
(* and its outcome replaced.                                               *)
Revise(i) ==
  /\ disturbed'
  /\ \E st \in Started : Move(i, Started, st)

Next ==
  /\ disturbed' \in {disturbed, TRUE}
  /\ \/ \E i \in Items : Create(i) \/ Start(i) \/ Finish(i) \/ Revise(i)
     \/ UNCHANGED status

Spec == Init /\ [][Next]_vars
=============================================================================
