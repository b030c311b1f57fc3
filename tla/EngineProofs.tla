---------------------------- MODULE EngineProofs ----------------------------
(***************************************************************************)
(* The engine for every definition and every limit.  What carries the      *)
(* proofs is that the visited set, the step counter and the log count the  *)
(* same nodes, and that the loop is always where the last node may have    *)
(* led in the compiled definition.                                         *)
(***************************************************************************)
EXTENDS Engine, WellFoundedInduction, TLAPS

-----------------------------------------------------------------------------
(* Compilation.                                                            *)

(* First picks a least element, so a member: that of the edges or START    *)
(* nodes the compiler looks through.                                       *)
LEMMA FirstIsIn ==
  ASSUME NEW S \in SUBSET Nat, S # {}
  PROVE  First(S) \in S
  <1> DEFINE R == {ss \in Nat \X Nat : ss[1] < ss[2]}
  <1>1. IsWellFoundedOn(R, Nat)
    BY NatLessThanWellFounded DEF OpToRel
  <1>2. ASSUME NEW i \in Nat, NEW j \in Nat, ~(<<j, i>> \in R) PROVE i <= j
    <2>1. ~(j < i)
      BY <1>2
    <2>2. QED
      BY <2>1
  <1> HIDE DEF R
  <1>3. \E i \in S : \A j \in S : ~(<<j, i>> \in R)
    BY <1>1, WFMin
  <1>4. \E i \in S : \A j \in S : i <= j
    BY <1>2, <1>3
  <1>5. QED
    BY <1>4 DEF First

(* A drawing is one of Drawings, a definition in the engine's format one   *)
(* of Definitions.                                                         *)
LEMMA InputKinds ==
  ASSUME input \in Inputs
  PROVE  /\ input.format = "drawn" => input \in Drawings
         /\ input.format = "native" => input \in Definitions
         /\ input = Malformed => input.format = "malformed"
         /\ input # Malformed => input.format \in {"drawn", "native"}
  <1>1. Malformed.format = "malformed"
    BY DEF Malformed
  <1>2. input \in Drawings \/ input \in Definitions \/ input = Malformed
    BY DEF Inputs
  <1>3. \A d \in Drawings : d.format = "drawn"
    BY EngineAssumption
  <1>4. \A d \in Definitions : d.format = "native"
    BY EngineAssumption
  <1> HIDE DEF Malformed
  <1>5. CASE input \in Drawings
    BY <1>1, <1>3, <1>5
  <1>6. CASE input \in Definitions
    BY <1>1, <1>4, <1>6
  <1>7. CASE input = Malformed
    BY <1>1, <1>7
  <1>8. QED
    BY <1>2, <1>5, <1>6, <1>7

(* The target of the edges looked through is the target of one of them.    *)
LEMMA TargetOfEdges ==
  ASSUME NEW d \in Drawings, NEW S \in SUBSET DOMAIN d.edges
  PROVE  /\ S = {} => TargetOf(d, S) = None
         /\ S # {} => \E i \in S : TargetOf(d, S) = d.edges[i].target
         /\ TargetOf(d, S) \in Ids \cup {None}
         /\ TargetOf(d, S) = None => S = {}
  <1>1. d.edges \in Seq(Edge)
    BY EngineAssumption
  <1>2. DOMAIN d.edges \subseteq Nat
    BY <1>1
  <1>3. ASSUME S # {} PROVE First(S) \in S
    BY <1>2, <1>3, FirstIsIn
  <1>4. \A i \in DOMAIN d.edges : d.edges[i] \in Edge
    BY <1>1
  <1>5. \A i \in DOMAIN d.edges : d.edges[i].target \in Ids
    BY <1>4 DEF Edge
  <1>6. None \notin Ids
    BY EngineAssumption
  <1>7. CASE S = {}
    BY <1>7 DEF TargetOf
  <1>8. CASE S # {}
    <2>1. TargetOf(d, S) = d.edges[First(S)].target
      BY <1>8 DEF TargetOf
    <2>2. QED
      BY <1>3, <1>5, <1>6, <1>8, <2>1
  <1>9. QED
    BY <1>7, <1>8

(* Every way on from a compiled node is an arrow of the drawing; there is  *)
(* none only where the drawing ends.                                       *)
LEMMA DrawnWaysOn ==
  ASSUME NEW d \in Drawings, NEW id \in DOMAIN d.type,
         NEW to \in WaysOn(CompiledNode(d, id)),
         d.type[id] # "UNKNOWN"
  PROVE  /\ to \in Ids => <<id, to>> \in Arrows(d)
         /\ to = None => EndsAt(d, id)
  <1> DEFINE node == CompiledNode(d, id)
             E(h) == EdgesFrom(d, id, h)
             Way(k) == IF k = None THEN node.next ELSE k
             Kept(k) == IF Way(k) \in Ids THEN Way(k) ELSE None
  <1>1. /\ d.format = "drawn"
        /\ \A h : E(h) \in SUBSET DOMAIN d.edges
        /\ \A h : \A i \in E(h) : d.edges[i].source = id
        /\ None \notin Ids /\ Null \notin Ids /\ None # Null
    BY EngineAssumption DEF EdgesFrom, Leaves
  <1>2. d.type[id] \in Types
    BY EngineAssumption
  <1>3. node.type = d.type[id]
    BY DEF CompiledNode
  <1>4. CASE d.type[id] = "END"
    <2>1. to = None
      BY <1>1, <1>3, <1>4 DEF WaysOn
    <2>2. QED
      BY <1>1, <1>4, <2>1 DEF EndsAt
  <1>5. CASE d.type[id] = "CONDITION"
    <2>1. /\ node.next = None
          /\ node.onTrue = TargetOf(d, E("true"))
          /\ node.onFalse = TargetOf(d, E("false"))
      BY <1>5 DEF CompiledNode
    <2>2. to \in {Kept(node.onTrue), Kept(node.onFalse)}
      BY <1>3, <1>5 DEF WaysOn
    <2>3. PICK h \in {"true", "false"} : to = Kept(TargetOf(d, E(h)))
      BY <2>1, <2>2
    <2>4. \A i \in E(h) : d.edges[i].handle = h
      BY <1>5 DEF EdgesFrom
    <2>5. to = TargetOf(d, E(h))
      BY <1>1, <2>1, <2>3, TargetOfEdges
    <2>6. ASSUME to \in Ids PROVE <<id, to>> \in Arrows(d)
      <3>1. PICK i \in E(h) : to = d.edges[i].target
        BY <1>1, <2>5, <2>6, TargetOfEdges
      <3>2. /\ i \in DOMAIN d.edges
            /\ d.edges[i].source = id /\ d.edges[i].handle # "none"
        BY <1>1, <2>4
      <3>3. QED
        BY <1>1, <1>5, <3>1, <3>2 DEF Arrows
    <2>7. ASSUME to = None PROVE EndsAt(d, id)
      <3>1. E(h) = {}
        BY <1>1, <2>5, <2>7, TargetOfEdges
      <3>2. QED
        BY <1>1, <3>1 DEF EndsAt
    <2>8. QED
      BY <2>6, <2>7
  <1>6. CASE d.type[id] \notin {"END", "CONDITION"}
    <2>1. node.next = TargetOf(d, E("none"))
      BY <1>6 DEF CompiledNode
    <2>2. to = Kept(None)
      BY <1>3, <1>6 DEF WaysOn
    <2>3. to = TargetOf(d, E("none"))
      BY <1>1, <2>1, <2>2, TargetOfEdges
    <2>4. ASSUME to \in Ids PROVE <<id, to>> \in Arrows(d)
      <3>1. PICK i \in E("none") : to = d.edges[i].target
        BY <1>1, <2>3, <2>4, TargetOfEdges
      <3>2. i \in DOMAIN d.edges /\ d.edges[i].source = id
        BY <1>1
      <3>3. QED
        BY <1>1, <1>6, <3>1, <3>2 DEF Arrows
    <2>5. ASSUME to = None PROVE EndsAt(d, id)
      <3>1. E("none") = {}
        BY <1>1, <2>3, <2>5, TargetOfEdges
      <3>2. E("true") = E("none")
        BY <1>6 DEF EdgesFrom
      <3>3. QED
        BY <1>1, <3>1, <3>2 DEF EndsAt
    <2>6. QED
      BY <2>4, <2>5
  <1>7. QED
    BY <1>4, <1>5, <1>6

(* The same of a node of either format.                                    *)
LEMMA WaysOnAreArrows ==
  ASSUME input \in Inputs, input # Malformed, nodes = Compiled(input),
         NEW id \in DOMAIN nodes, nodes[id].type # "UNKNOWN",
         NEW to \in WaysOn(nodes[id])
  PROVE  /\ to \in Ids => <<id, to>> \in Arrows(input)
         /\ to = None => EndsAt(input, id)
  <1>1. CASE input.format = "drawn"
    <2>1. input \in Drawings
      BY <1>1, InputKinds
    <2>2. id \in DOMAIN input.type /\ nodes[id] = CompiledNode(input, id)
      BY <1>1 DEF Compiled
    <2>3. input.type[id] # "UNKNOWN"
      BY <2>2 DEF CompiledNode
    <2>4. QED
      BY <2>1, <2>2, <2>3, DrawnWaysOn
  <1>2. CASE input.format = "native"
    <2>1. input \in Definitions
      BY <1>2, InputKinds
    <2>2. id \in DOMAIN input.nodes /\ nodes[id] = input.nodes[id]
      BY <1>2 DEF Compiled
    <2>3. nodes[id] \in Node
      BY <2>1, <2>2, EngineAssumption
    <2>4. to \in Ids => to \in {nodes[id].next, nodes[id].onTrue, nodes[id].onFalse}
      BY EngineAssumption DEF WaysOn
    <2>5. QED
      BY <1>2, <2>2, <2>4 DEF Arrows, EndsAt
  <1>3. QED
    BY <1>1, <1>2, InputKinds

-----------------------------------------------------------------------------
(* The steps.                                                              *)

(* The compiled definition: its domain, and where it starts.               *)
LEMMA CompiledDomain ==
  ASSUME input \in Inputs, input # Malformed
  PROVE  /\ DOMAIN Compiled(input) = NodesOf(input)
         /\ NodesOf(input) \subseteq Ids
         /\ Starts(input) \subseteq Ids \cup {None}
         /\ None \in Starts(input) => Starts(input) = {None}
  <1>1. CASE input.format = "drawn"
    <2>1. input \in Drawings
      BY <1>1, InputKinds
    <2>2. /\ input.order \in Seq(Ids)
          /\ DOMAIN input.type = {input.order[i] : i \in DOMAIN input.order}
      BY <2>1, EngineAssumption
    <2>3. \A i \in DOMAIN input.order : input.order[i] \in Ids
      BY <2>2
    <2>4. Starts(input) \subseteq Ids
      BY <1>1, <2>3 DEF Starts, StartsOf
    <2>5. DOMAIN Compiled(input) = DOMAIN input.type
      BY <1>1 DEF Compiled
    <2>6. NodesOf(input) = DOMAIN input.type
      BY <1>1 DEF NodesOf
    <2>7. QED
      BY <2>2, <2>3, <2>4, <2>5, <2>6, EngineAssumption
  <1>2. CASE input.format = "native"
    <2>1. input \in Definitions
      BY <1>2, InputKinds
    <2>2. input.start \in Ids \cup {None} /\ DOMAIN input.nodes \subseteq Ids
      BY <2>1, EngineAssumption
    <2>3. Starts(input) = {input.start}
      BY <1>2 DEF Starts
    <2>4. QED
      BY <1>2, <2>2, <2>3 DEF Compiled, NodesOf
  <1>3. QED
    BY <1>1, <1>2, InputKinds

(* What remains when a step only ends the walk.                            *)
LEMMA EndingPreserves ==
  ASSUME Inv, NEW reason \in Reasons, Done(reason),
         UNCHANGED <<input, nodes, current, visited, path>>,
         steps' \in {steps, steps + 1}, steps' \in 0..(MaxNodes + 1),
         RefusedForCause', SuccessAtEnd'
  PROVE  Inv'
  <1>1. TypeOK'
    BY DEF Inv, TypeOK, Done
  <1>2. NodesCompiled' /\ CountsAgree' /\ FollowsLast'
    BY DEF Inv, Done, NodesCompiled, CountsAgree, FollowsLast
  <1>3. QED
    BY <1>1, <1>2 DEF Inv

LEMMA CompileDrawingPreserves ==
  ASSUME Inv, CompileDrawing
  PROVE  Inv'
  <1> USE DEF Inv
  <1>1. /\ input \in Drawings /\ input.format = "drawn" /\ input # Malformed
        /\ input \in Inputs
    BY InputKinds DEF CompileDrawing, TypeOK
  <1>2. CASE StartsOf(input) = {}
    <2>1. Done("noStart") /\ UNCHANGED <<input, nodes, current, visited, steps, path>>
      BY <1>2 DEF CompileDrawing
    <2>2. RefusedForCause' /\ SuccessAtEnd'
      BY <2>1 DEF Done, RefusedForCause, SuccessAtEnd
    <2>3. QED
      BY <2>1, <2>2, EndingPreserves DEF Reasons, TypeOK
  <1>3. CASE StartsOf(input) # {}
    <2>1. /\ pc' = "loop" /\ nodes' = Compiled(input)
          /\ current' = input.order[First(StartsOf(input))]
          /\ UNCHANGED <<input, visited, steps, path, outcome>>
          /\ pc = "compile"
      BY <1>1, <1>3 DEF CompileDrawing, Compiled
    <2>2. input.order \in Seq(Ids)
      BY <1>1, EngineAssumption
    <2>3. StartsOf(input) \in SUBSET Nat
      BY <2>2 DEF StartsOf
    <2>4. First(StartsOf(input)) \in StartsOf(input)
      BY <1>3, <2>3, FirstIsIn
    <2>5. current' \in Starts(input)
      BY <1>1, <2>1, <2>4 DEF Starts
    <2>6. current' \in Ids
      <3>1. First(StartsOf(input)) \in DOMAIN input.order
        BY <2>4 DEF StartsOf
      <3>2. QED
        BY <2>1, <2>2, <3>1
    <2>7. DOMAIN nodes' \subseteq Ids
      BY <1>1, <2>1, CompiledDomain
    <2>8. path = <<>> /\ visited = {} /\ steps = 0
      BY <2>1 DEF NodesCompiled
    <2>9. TypeOK'
      BY <2>1, <2>6, <2>7 DEF TypeOK
    <2>10. NodesCompiled'
      BY <1>1, <2>1 DEF NodesCompiled
    <2>11. CountsAgree'
      BY <2>1, <2>8, EngineAssumption DEF CountsAgree
    <2>12. FollowsLast'
      BY <2>1, <2>5, <2>8 DEF FollowsLast, Starts, StartsOf
    <2>13. RefusedForCause' /\ SuccessAtEnd'
      <3>1. outcome = "none"
        BY <2>1 DEF NodesCompiled
      <3>2. QED
        BY <2>1, <3>1 DEF RefusedForCause, SuccessAtEnd
    <2>14. QED
      BY <2>9, <2>10, <2>11, <2>12, <2>13
  <1>4. QED
    BY <1>2, <1>3

LEMMA ReadDefinitionPreserves ==
  ASSUME Inv, ReadDefinition
  PROVE  Inv'
  <1> USE DEF Inv
  <1>1. /\ input \in Definitions /\ input.format = "native" /\ input # Malformed
        /\ input \in Inputs
    BY InputKinds DEF ReadDefinition, TypeOK
  <1>2. /\ pc' = "loop" /\ nodes' = Compiled(input) /\ current' = input.start
        /\ UNCHANGED <<input, visited, steps, path, outcome>>
        /\ pc = "compile"
    BY <1>1 DEF ReadDefinition, Compiled
  <1>3. current' \in Ids \cup {None} /\ Starts(input) = {current'}
    BY <1>1, <1>2, EngineAssumption DEF Starts
  <1>4. DOMAIN nodes' \subseteq Ids
    BY <1>1, <1>2, CompiledDomain
  <1>5. path = <<>> /\ visited = {} /\ steps = 0 /\ outcome = "none"
    BY <1>2 DEF NodesCompiled
  <1>6. TypeOK'
    BY <1>2, <1>3, <1>4 DEF TypeOK
  <1>7. NodesCompiled'
    BY <1>1, <1>2, <1>5 DEF NodesCompiled
  <1>8. CountsAgree'
    BY <1>2, <1>5, EngineAssumption DEF CountsAgree
  <1>9. FollowsLast'
    BY <1>1, <1>2, <1>3, <1>5 DEF FollowsLast, Starts, StartsOf
  <1>10. RefusedForCause' /\ SuccessAtEnd'
    BY <1>2, <1>5 DEF RefusedForCause, SuccessAtEnd
  <1>11. QED
    BY <1>6, <1>7, <1>8, <1>9, <1>10

(* Success comes from the last node executed, or from a definition that    *)
(* has no start.                                                           *)
LEMMA FinishPreserves ==
  ASSUME Inv, Finish
  PROVE  Inv'
  <1> USE DEF Inv
  <1>1. /\ pc = "loop" /\ current = None /\ Done("success")
        /\ UNCHANGED <<input, nodes, current, visited, steps, path>>
    BY DEF Finish
  <1>2. input \in Inputs /\ input # Malformed /\ nodes = Compiled(input)
    BY <1>1 DEF TypeOK, NodesCompiled
  <1>3. CASE path = <<>>
    <2>1. Starts(input) = {None}
      BY <1>1, <1>2, <1>3, CompiledDomain DEF FollowsLast
    <2>2. SuccessAtEnd'
      BY <1>1, <1>3, <2>1 DEF SuccessAtEnd, Starts, StartsOf
    <2>3. QED
      BY <1>1, <2>2, EndingPreserves DEF RefusedForCause, Done, Reasons, TypeOK
  <1>4. CASE path # <<>>
    <2>1. nodes[Last].type # "UNKNOWN" /\ None \in WaysOn(nodes[Last])
      BY <1>1, <1>4 DEF FollowsLast
    <2>2. Last \in DOMAIN nodes
      <3>1. Len(path) \in DOMAIN path
        BY <1>4 DEF TypeOK
      <3>2. QED
        BY <3>1 DEF CountsAgree, Last
    <2>3. EndsAt(input, Last)
      BY <1>2, <2>1, <2>2, WaysOnAreArrows
    <2>4. SuccessAtEnd'
      BY <1>1, <1>4, <2>3 DEF SuccessAtEnd, Last, EndsAt, EdgesFrom, Leaves, WaysOn
    <2>5. QED
      BY <1>1, <2>4, EndingPreserves DEF RefusedForCause, Done, Reasons, TypeOK
  <1>5. QED
    BY <1>3, <1>4

(* The other ends of a walk.                                               *)
LEMMA RefusalPreserves ==
  ASSUME Inv, ExceedLimit \/ DetectCycle \/ MissNode \/ FailNode \/ RejectMalformed
  PROVE  Inv'
  <1> USE DEF Inv
  <1>1. CASE ExceedLimit
    <2>1. /\ pc = "loop" /\ current # None /\ Done("limit") /\ steps' = steps + 1
          /\ UNCHANGED <<input, nodes, current, visited, path>>
      BY <1>1 DEF ExceedLimit
    <2>2. /\ steps = Len(path) /\ steps = MaxNodes /\ steps' \in 0..(MaxNodes + 1)
      BY <1>1, <2>1, EngineAssumption
         DEF ExceedLimit, LimitReached, CountsAgree, TypeOK
    <2>3. RefusedForCause' /\ SuccessAtEnd'
      BY <2>1, <2>2 DEF Done, RefusedForCause, SuccessAtEnd
    <2>4. QED
      BY <2>1, <2>2, <2>3, EndingPreserves DEF Reasons
  <1>2. CASE DetectCycle
    <2>1. /\ pc = "loop" /\ current \in visited /\ Done("cycle") /\ steps' = steps + 1
          /\ UNCHANGED <<input, nodes, current, visited, path>>
      BY <1>2 DEF DetectCycle
    <2>2. steps' \in 0..(MaxNodes + 1)
      BY <2>1, EngineAssumption DEF CountsAgree, TypeOK
    <2>3. \E i \in DOMAIN path : path[i] = current
      BY <2>1 DEF CountsAgree
    <2>4. RefusedForCause' /\ SuccessAtEnd'
      BY <2>1, <2>3 DEF Done, RefusedForCause, SuccessAtEnd
    <2>5. QED
      BY <2>1, <2>2, <2>4, EndingPreserves DEF Reasons
  <1>3. CASE MissNode
    <2>1. /\ pc = "loop" /\ current \notin DOMAIN nodes /\ Done("missing")
          /\ steps' = steps + 1
          /\ UNCHANGED <<input, nodes, current, visited, path>>
      BY <1>3 DEF MissNode
    <2>2. steps' \in 0..(MaxNodes + 1)
      BY <2>1, EngineAssumption DEF CountsAgree, TypeOK
    <2>3. current \notin NodesOf(input)
      BY <2>1, CompiledDomain DEF NodesCompiled, TypeOK
    <2>4. RefusedForCause' /\ SuccessAtEnd'
      BY <2>1, <2>3 DEF Done, RefusedForCause, SuccessAtEnd, NodesOf
    <2>5. QED
      BY <2>1, <2>2, <2>4, EndingPreserves DEF Reasons
  <1>4. CASE FailNode
    <2>1. /\ Done("nodeFailed")
          /\ UNCHANGED <<input, nodes, current, visited, steps, path>>
      BY <1>4 DEF FailNode
    <2>2. RefusedForCause' /\ SuccessAtEnd'
      BY <2>1 DEF Done, RefusedForCause, SuccessAtEnd
    <2>3. QED
      BY <2>1, <2>2, EndingPreserves DEF Reasons, TypeOK
  <1>5. CASE RejectMalformed
    <2>1. /\ Done("exception")
          /\ UNCHANGED <<input, nodes, current, visited, steps, path>>
      BY <1>5 DEF RejectMalformed
    <2>2. RefusedForCause' /\ SuccessAtEnd'
      BY <2>1 DEF Done, RefusedForCause, SuccessAtEnd
    <2>3. QED
      BY <2>1, <2>2, EndingPreserves DEF Reasons, TypeOK
  <1>6. QED
    BY <1>1, <1>2, <1>3, <1>4, <1>5

LEMMA EnterNodePreserves ==
  ASSUME Inv, EnterNode
  PROVE  Inv'
  <1> USE DEF Inv
  <1>1. /\ pc = "loop" /\ pc' = "execute"
        /\ current \in DOMAIN nodes /\ steps' = steps + 1
        /\ visited' = visited \cup {current} /\ path' = Append(path, current)
        /\ UNCHANGED <<input, nodes, current, outcome>>
        /\ ~(steps >= MaxNodes)
    BY DEF EnterNode, LimitReached
  <1>2. current \in Ids /\ path \in Seq(Ids) /\ steps \in Nat /\ MaxNodes \in Nat
    BY <1>1, EngineAssumption DEF TypeOK
  <1>3. /\ path' \in Seq(Ids) /\ Len(path') = Len(path) + 1 /\ path' # <<>>
        /\ DOMAIN path' = DOMAIN path \cup {Len(path) + 1}
        /\ \A i \in DOMAIN path : path'[i] = path[i]
        /\ path'[Len(path')] = current
    BY <1>1, <1>2
  <1>4. TypeOK'
    BY <1>1, <1>2, <1>3 DEF TypeOK
  <1>5. NodesCompiled'
    BY <1>1 DEF NodesCompiled
  <1>6. CountsAgree'
    <2>1. visited' = {path'[i] : i \in DOMAIN path'}
      <3>1. visited = {path[i] : i \in DOMAIN path} /\ Len(path) \in Nat
        BY <1>2 DEF CountsAgree
      <3>2. path'[Len(path) + 1] = current
        BY <1>3
      <3>3. \A x \in visited' : \E i \in DOMAIN path' : x = path'[i]
        BY <1>1, <1>3, <3>1, <3>2
      <3>4. \A i \in DOMAIN path' : path'[i] \in visited'
        BY <1>1, <1>3, <3>1, <3>2
      <3>5. QED
        BY <3>3, <3>4
    <2>2. steps' = Len(path') /\ steps' <= MaxNodes
      BY <1>1, <1>2, <1>3 DEF CountsAgree
    <2>3. visited' \subseteq DOMAIN nodes'
      BY <1>1 DEF CountsAgree
    <2>4. current' = Last'
      BY <1>1, <1>3 DEF Last
    <2>5. QED
      BY <1>3, <2>1, <2>2, <2>3, <2>4 DEF CountsAgree
  <1>7. FollowsLast'
    BY <1>1 DEF FollowsLast
  <1>8. RefusedForCause' /\ SuccessAtEnd'
    <2>1. outcome = "none"
      BY <1>1 DEF NodesCompiled
    <2>2. QED
      BY <1>1, <2>1 DEF RefusedForCause, SuccessAtEnd
  <1>9. QED
    BY <1>4, <1>5, <1>6, <1>7, <1>8

LEMMA ExecuteNodePreserves ==
  ASSUME Inv, ExecuteNode
  PROVE  Inv'
  <1> USE DEF Inv
  <1>1. /\ pc = "execute" /\ pc' = "loop" /\ nodes[current].type # "UNKNOWN"
        /\ current' \in WaysOn(nodes[current])
        /\ UNCHANGED <<input, nodes, visited, steps, path, outcome>>
    BY DEF ExecuteNode
  <1>2. current' \in Ids \cup {None}
    BY <1>1 DEF WaysOn
  <1>3. path # <<>> /\ current = Last
    BY <1>1 DEF CountsAgree
  <1>4. TypeOK'
    BY <1>1, <1>2 DEF TypeOK
  <1>5. NodesCompiled' /\ CountsAgree'
    BY <1>1 DEF NodesCompiled, CountsAgree
  <1>6. FollowsLast'
    <2>1. Last' = Last /\ path' # <<>>
      BY <1>1, <1>3 DEF Last
    <2>2. nodes'[Last'].type # "UNKNOWN" /\ current' \in WaysOn(nodes'[Last'])
      BY <1>1, <1>3, <2>1
    <2>3. QED
      BY <2>1, <2>2 DEF FollowsLast
  <1>7. RefusedForCause' /\ SuccessAtEnd'
    <2>1. outcome = "none"
      BY <1>1 DEF NodesCompiled
    <2>2. QED
      BY <1>1, <2>1 DEF RefusedForCause, SuccessAtEnd
  <1>8. QED
    BY <1>4, <1>5, <1>6, <1>7

LEMMA InitInv ==
  ASSUME Init
  PROVE  Inv
  <1>1. TypeOK
    BY EngineAssumption DEF Init, TypeOK
  <1>2. NodesCompiled /\ CountsAgree /\ FollowsLast
    BY DEF Init, NodesCompiled, CountsAgree, FollowsLast
  <1>3. RefusedForCause /\ SuccessAtEnd
    BY DEF Init, RefusedForCause, SuccessAtEnd
  <1>4. QED
    BY <1>1, <1>2, <1>3 DEF Inv

LEMMA StepInv ==
  ASSUME Inv, [Next]_vars
  PROVE  Inv'
  <1>1. CASE CompileDrawing
    BY <1>1, CompileDrawingPreserves
  <1>2. CASE ReadDefinition
    BY <1>2, ReadDefinitionPreserves
  <1>3. CASE Finish
    BY <1>3, FinishPreserves
  <1>4. CASE ExceedLimit \/ DetectCycle \/ MissNode \/ FailNode \/ RejectMalformed
    BY <1>4, RefusalPreserves
  <1>5. CASE EnterNode
    BY <1>5, EnterNodePreserves
  <1>6. CASE ExecuteNode
    BY <1>6, ExecuteNodePreserves
  <1>7. CASE UNCHANGED vars
    <2>1. UNCHANGED <<input, nodes, pc, current, visited, steps, path, outcome>>
      BY <1>7 DEF vars
    <2>2. QED
      BY <2>1 DEF Inv, TypeOK, NodesCompiled, CountsAgree, FollowsLast, Last,
                  RefusedForCause, SuccessAtEnd
  <1>8. QED
    BY <1>1, <1>2, <1>3, <1>4, <1>5, <1>6, <1>7 DEF Next, Returned

-----------------------------------------------------------------------------
(* The theorems.                                                           *)

(* The inductive invariant holds: node count, visited set and log agree,   *)
(* and the loop follows the compiled definition.                           *)
THEOREM AlwaysInv == Spec => []Inv
  <1>1. Init => Inv
    BY InitInv
  <1>2. Inv /\ [Next]_vars => Inv'
    BY StepInv
  <1>3. QED
    BY <1>1, <1>2, PTL DEF Spec

(* The walk's variables have their types; in particular the step counter   *)
(* passes the limit by one at most.                                        *)
THEOREM TypeCorrect == Spec => []TypeOK
  <1>1. Inv => TypeOK
    BY DEF Inv
  <1>2. QED
    BY <1>1, AlwaysInv, PTL

(* executeWorkflow refuses a definition only for its cause: the limit with *)
(* exactly MaxNodes nodes executed, a cycle at a node executed before, a   *)
(* missing node that is not in the definition.                             *)
THEOREM AlwaysRefusedForCause == Spec => []RefusedForCause
  <1>1. Inv => RefusedForCause
    BY DEF Inv
  <1>2. QED
    BY <1>1, AlwaysInv, PTL

(* An execution succeeds only where its drawing ends.                      *)
THEOREM SuccessAlwaysAtEnd == Spec => []SuccessAtEnd
  <1>1. Inv => SuccessAtEnd
    BY DEF Inv
  <1>2. QED
    BY <1>1, AlwaysInv, PTL

-----------------------------------------------------------------------------
(* The walk a drawing means.                                               *)

(* Entering a node follows an arrow, or begins at a start, and the node    *)
(* was not entered before.                                                 *)
LEMMA EnterNodeEnters ==
  ASSUME Inv, EnterNode
  PROVE  Walk!Next
  <1> USE DEF Inv
  <1>1. /\ pc = "loop" /\ pc' = "execute"
        /\ current \in DOMAIN nodes \ visited
        /\ path' = Append(path, current) /\ UNCHANGED input
    BY DEF EnterNode
  <1>2. current \in Ids /\ path \in Seq(Ids)
    BY <1>1 DEF TypeOK
  <1>3. \A i \in DOMAIN path : path[i] # current
    BY <1>1 DEF CountsAgree
  <1>4. CASE path = <<>>
    <2>1. current \in Starts(input)
      BY <1>1, <1>4 DEF FollowsLast
    <2>2. Walk!Enter(current)
      BY <1>1, <1>3, <1>4, <2>1 DEF Walk!Enter, Walk!CanFollow
    <2>3. QED
      BY <1>1, <2>1, <2>2 DEF Walk!Next, Starts, StartsOf, Arrows
  <1>5. CASE path # <<>>
    <2>1. nodes[Last].type # "UNKNOWN" /\ current \in WaysOn(nodes[Last])
      BY <1>1, <1>5 DEF FollowsLast
    <2>2. Last \in DOMAIN nodes
      <3>1. Len(path) \in DOMAIN path
        BY <1>2, <1>5
      <3>2. QED
        BY <3>1 DEF CountsAgree, Last
    <2>3. <<Last, current>> \in Arrows(input)
      BY <1>1, <1>2, <2>1, <2>2, WaysOnAreArrows DEF TypeOK, NodesCompiled
    <2>4. Walk!Enter(current)
      BY <1>1, <1>3, <1>5, <2>3 DEF Walk!Enter, Walk!CanFollow, Last
    <2>5. current \in {arrow[2] : arrow \in Arrows(input)}
      BY <2>3
    <2>6. QED
      BY <1>1, <2>4, <2>5 DEF Walk!Next, Starts, StartsOf, Arrows
  <1>6. QED
    BY <1>4, <1>5

(* Compiling and walking implement GraphWalk: every step of executeWorkflow *)
(* enters a node along an arrow of the definition, ends the walk, or is    *)
(* none of the reader's business.                                          *)
THEOREM Refinement == Spec => ImplementsWalk
  <1>1. Init => Walk!Init
    BY DEF Init, Walk!Init
  <1>2. Inv /\ [Next]_vars => [Walk!Next]_Walk!vars
    <2> SUFFICES ASSUME Inv, [Next]_vars
                 PROVE  [Walk!Next]_Walk!vars
      OBVIOUS
    <2>1. CASE EnterNode
      BY <2>1, EnterNodeEnters
    <2>2. CASE pc # "done" /\ pc' = "done" /\ UNCHANGED <<input, path>>
      BY <2>2 DEF Walk!Next, Walk!End, Starts, StartsOf, Arrows
    <2>3. CASE pc # "done" /\ pc' # "done" /\ UNCHANGED <<input, path>>
      BY <2>3 DEF Walk!vars, Starts, StartsOf, Arrows
    <2>4. CASE UNCHANGED vars
      BY <2>4 DEF vars, Walk!vars, Starts, StartsOf, Arrows
    <2>5. ASSUME Next, ~EnterNode, ~UNCHANGED vars
          PROVE  pc # "done" /\ UNCHANGED <<input, path>>
      BY <2>5 DEF Next, Returned, CompileDrawing, ReadDefinition, RejectMalformed,
                  Finish, ExceedLimit, DetectCycle, MissNode, ExecuteNode, FailNode,
                  Done
    <2>6. QED
      BY <2>1, <2>2, <2>3, <2>4, <2>5
  <1>3. QED
    BY <1>1, <1>2, AlwaysInv, PTL DEF Spec, ImplementsWalk, Walk!Spec

-----------------------------------------------------------------------------
(* The end of the walk.                                                    *)

(* executeWorkflow ends after a number of steps that MAX_NODES alone       *)
(* bounds, whatever the definition: every step leaves fewer of them.       *)
THEOREM WalkAlwaysRunsOut == Spec => WalkRunsOut
  <1>1. ASSUME Inv, [Next]_vars
        PROVE  StepsLeft' \in 0..(StepsLeft - 1) \/ UNCHANGED vars
    <2> USE DEF Inv
    <2>1. MaxNodes \in Nat /\ steps \in Nat
      BY <1>1, EngineAssumption DEF TypeOK
    <2>2. /\ pc \in {"loop", "execute"} => steps <= MaxNodes
          /\ pc = "compile" => steps = 0
      BY <1>1 DEF CountsAgree, NodesCompiled
    <2>3. CASE pc # "done" /\ pc' = "done"
      <3>1. StepsLeft \in Nat /\ StepsLeft > 0
        BY <1>1, <2>1, <2>2, <2>3 DEF StepsLeft, TypeOK
      <3>2. StepsLeft' = 0
        BY <2>3 DEF StepsLeft
      <3>3. QED
        BY <3>1, <3>2
    <2>4. CASE pc = "compile" /\ pc' = "loop" /\ UNCHANGED steps
      <3>1. StepsLeft = 2 * MaxNodes + 2 /\ StepsLeft' = 2 * MaxNodes + 1
        BY <2>1, <2>2, <2>4 DEF StepsLeft
      <3>2. QED
        BY <2>1, <3>1
    <2>5. CASE EnterNode
      <3>1. pc = "loop" /\ pc' = "execute" /\ steps' = steps + 1 /\ steps < MaxNodes
        BY <2>1, <2>5 DEF EnterNode, LimitReached
      <3>2. /\ StepsLeft = 2 * (MaxNodes - steps) + 1
            /\ StepsLeft' = 2 * (MaxNodes - (steps + 1)) + 2
        BY <3>1 DEF StepsLeft
      <3>3. QED
        BY <2>1, <3>1, <3>2
    <2>6. CASE ExecuteNode
      <3>1. pc = "execute" /\ pc' = "loop" /\ steps' = steps
        BY <2>6 DEF ExecuteNode
      <3>2. /\ StepsLeft = 2 * (MaxNodes - steps) + 2
            /\ StepsLeft' = 2 * (MaxNodes - steps) + 1
        BY <3>1 DEF StepsLeft
      <3>3. QED
        BY <2>1, <2>2, <3>1, <3>2
    <2>7. QED
      BY <1>1, <2>3, <2>4, <2>5, <2>6
      DEF Next, CompileDrawing, ReadDefinition, RejectMalformed, Finish, ExceedLimit,
          DetectCycle, MissNode, FailNode, Returned, Done
  <1>2. Inv /\ [Next]_vars => [StepsLeft' \in 0..(StepsLeft - 1)]_vars
    BY <1>1
  <1>3. QED
    BY <1>2, AlwaysInv, PTL DEF Spec, WalkRunsOut
=============================================================================
