------------------------------ MODULE MCEngine ------------------------------
(* Small workflows for TLC: a START node, a CONDITION and a third node of  *)
(* any type, with up to three edges, some to a node that is not there; and *)
(* definitions in the engine's format with a fourth node, one more than    *)
(* may be executed.                                                        *)
EXTENDS Engine, TLC

CONSTANTS s, c, x, y, ghost

Edges ==
  {[source |-> c, target |-> b, handle |-> h] : b \in {s, c, x, ghost}, h \in Handles}
  \cup {[source |-> a, target |-> b, handle |-> "none"] :
           a \in {s, x}, b \in {s, c, x, ghost}}

EdgeLists == UNION {[1..n -> Edges] : n \in 0..3}

ThirdTypes == {"END", "TASK", "UNKNOWN", "START"}

Drawn(order) ==
  {[format |-> "drawn", order |-> order, edges |-> e,
    type |-> (s :> "START") @@ (c :> "CONDITION") @@ (x :> t)] :
     t \in ThirdTypes, e \in EdgeLists}

NoStart ==
  {[format |-> "drawn", order |-> <<c>>, edges |-> <<>>, type |-> (c :> "CONDITION")]}

SmallDrawings == Drawn(<<x, s, c>>) \cup NoStart

Plain(t, n) == [type |-> t, next |-> n, onTrue |-> None, onFalse |-> None]

SmallDefinitions ==
  {[format |-> "native", start |-> a,
    nodes |-> (s :> Plain("START", b)) @@ (x :> Plain(t, g)) @@ (y :> Plain("TASK", s))
              @@ (c :> [type |-> "CONDITION", next |-> n, onTrue |-> u, onFalse |-> v])] :
     a \in Ids \cup {None}, b \in {c, x, None}, t \in {"END", "TASK"},
     g \in {c, y, None}, n \in {x, None}, u \in {x, s, ghost, None, Null}, v \in {x, None}}
=============================================================================
