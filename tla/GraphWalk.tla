----------------------------- MODULE GraphWalk -----------------------------
(***************************************************************************)
(* What running a workflow means to the person who drew it: a walk that    *)
(* begins at a start node, follows the arrows of the drawing, enters no    *)
(* node twice and at some point is over.                                   *)
(***************************************************************************)
EXTENDS Naturals, Sequences

VARIABLES
  starts,   \* where a walk may begin
  arrows,   \* the pairs <<from, to>> it may follow
  path,     \* the nodes entered so far
  over      \* has the walk ended?

vars == <<starts, arrows, path, over>>

Init == path = <<>> /\ over = FALSE

CanFollow(id) ==
  IF path = <<>> THEN id \in starts ELSE <<path[Len(path)], id>> \in arrows

Enter(id) ==
  /\ ~over
  /\ CanFollow(id)
  /\ \A i \in DOMAIN path : path[i] # id
  /\ path' = Append(path, id)
  /\ over' = FALSE

End == ~over /\ over' = TRUE /\ path' = path

Next ==
  /\ UNCHANGED <<starts, arrows>>
  /\ \/ \E id \in starts \cup {arrow[2] : arrow \in arrows} : Enter(id)
     \/ End

Spec == Init /\ [][Next]_vars
=============================================================================
