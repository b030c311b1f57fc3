------------------------- MODULE MCWorkflowVersions -------------------------
(* Small instances of WorkflowVersions for TLC.                            *)
EXTENDS WorkflowVersions

(* After two versions were created and the first was published alone: a    *)
(* state the program reaches, from which a lock cycle is three publishes   *)
(* away.                                                                   *)
OnePublishedInit ==
  /\ version = [v \in Versions |-> IF v <= 2 THEN (IF v = 1 THEN "published" ELSE "draft")
                                            ELSE "absent"]
  /\ active = TRUE
  /\ creator = [c \in Creators |-> [pc |-> "idle", number |-> 0]]
  /\ publisher = [p \in Publishers |-> Idle]
  /\ lock = [r \in Rows |-> None]
  /\ trigger = [t \in Triggers |-> "idle"]

EarlyOrLateSpec == (Init \/ OnePublishedInit) /\ [][Next]_vars /\ Fairness
=============================================================================
