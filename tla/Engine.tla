------------------------------- MODULE Engine -------------------------------
(***************************************************************************)
(* executeWorkflow: a definition, drawn with edges or written in the       *)
(* engine's own format, is compiled and its graph walked node by node.     *)
(* What an executor computes is left open: it may fail, and a condition    *)
(* may turn out either way.                                                *)
(***************************************************************************)
EXTENDS Naturals, Sequences

CONSTANTS
  Ids,         \* node ids
  None,        \* no node: undefined, or the null that ends the walk
  Null,        \* a null written into a definition
  MaxNodes,    \* MAX_NODES (100 in the code)
  Drawings,    \* definitions with nodes and edges
  Definitions  \* definitions with a startNodeId

Handles == {"true", "false", "none"}

Types == {"START", "END", "CONDITION", "TASK", "UNKNOWN"}

Target == Ids \cup {None, Null}

Node == [type : Types, next : Target, onTrue : Target, onFalse : Target]

Edge == [source : Ids, target : Ids, handle : Handles]

(* order lists the node ids as the drawing does; type gives their types.   *)
ASSUME EngineAssumption ==
  /\ None \notin Ids /\ Null \notin Ids /\ None # Null
  /\ MaxNodes \in Nat
  /\ \A d \in Drawings :
       /\ d.format = "drawn"
       /\ d.order \in Seq(Ids)
       /\ d.type \in [{d.order[i] : i \in DOMAIN d.order} -> Types]
       /\ d.edges \in Seq(Edge)
  /\ \A d \in Definitions :
       /\ d.format = "native"
       /\ d.start \in Ids \cup {None}
       /\ DOMAIN d.nodes \subseteq Ids
       /\ d.nodes \in [DOMAIN d.nodes -> Node]

Malformed == [format |-> "malformed"]

Inputs == Drawings \cup Definitions \cup {Malformed}

VARIABLES
  input,     \* WorkflowVersion.definition
  nodes,     \* nodeMap of the compiled definition
  pc,        \* "compile", "loop", "execute" or "done"
  current,   \* currentNodeId
  visited,   \* the visited set
  steps,     \* stepCount
  path,      \* context.logs: the nodes executed, in order
  outcome    \* why the engine returned

vars == <<input, nodes, pc, current, visited, steps, path, outcome>>

Init ==
  /\ input \in Inputs
  /\ nodes = <<>>
  /\ pc = "compile"
  /\ current = None
  /\ visited = {}
  /\ steps = 0
  /\ path = <<>>
  /\ outcome = "none"

Done(reason) ==
  /\ pc' = "done"
  /\ outcome' = reason

-----------------------------------------------------------------------------
(* Compilation of a drawing: the first START node is where the walk        *)
(* begins, and of the edges that leave a node the first one that matters   *)
(* is followed.                                                            *)

First(S) == CHOOSE i \in S : \A j \in S : i <= j

StartsOf(d) == {i \in DOMAIN d.order : d.type[d.order[i]] = "START"}

Leaves(d, id, i) == d.edges[i].source = id

(* Mutant: every edge that is not "true" counts as "false".                *)
EdgesFromOtherHandle(d, id, handle) ==
  {i \in DOMAIN d.edges :
     Leaves(d, id, i) /\ (d.type[id] = "CONDITION" =>
                            ((d.edges[i].handle = "true") <=> (handle = "true")))}

EdgesFrom(d, id, handle) ==
  {i \in DOMAIN d.edges :
     Leaves(d, id, i) /\ (d.type[id] = "CONDITION" => d.edges[i].handle = handle)}

TargetOf(d, S) == IF S = {} THEN None ELSE d.edges[First(S)].target

CompiledNode(d, id) ==
  [type    |-> d.type[id],
   next    |-> IF d.type[id] = "CONDITION" THEN None
               ELSE TargetOf(d, EdgesFrom(d, id, "none")),
   onTrue  |-> IF d.type[id] # "CONDITION" THEN None
               ELSE TargetOf(d, EdgesFrom(d, id, "true")),
   onFalse |-> IF d.type[id] # "CONDITION" THEN None
               ELSE TargetOf(d, EdgesFrom(d, id, "false"))]

CompileDrawing ==
  /\ pc = "compile"
  /\ input.format = "drawn"
  /\ IF StartsOf(input) = {}
       THEN /\ Done("noStart")
            /\ UNCHANGED <<nodes, current>>
       ELSE /\ pc' = "loop"
            /\ nodes' = [id \in DOMAIN input.type |-> CompiledNode(input, id)]
            /\ current' = input.order[First(StartsOf(input))]
            /\ UNCHANGED outcome
  /\ UNCHANGED <<input, visited, steps, path>>

ReadDefinition ==
  /\ pc = "compile"
  /\ input.format = "native"
  /\ pc' = "loop"
  /\ nodes' = input.nodes
  /\ current' = input.start
  /\ UNCHANGED <<input, visited, steps, path, outcome>>

(* No nodes to map over: an exception, caught by processWorkflowJob.       *)
RejectMalformed ==
  /\ pc = "compile"
  /\ input = Malformed
  /\ Done("exception")
  /\ UNCHANGED <<input, nodes, current, visited, steps, path>>

-----------------------------------------------------------------------------
(* The loop.  stepCount++ counts the pass whichever way it ends.           *)

Finish ==
  /\ pc = "loop"
  /\ current = None
  /\ Done("success")
  /\ UNCHANGED <<input, nodes, current, visited, steps, path>>

(* Mutant: ++stepCount where the code has stepCount++.                     *)
LimitReachedEarly == steps + 1 >= MaxNodes

LimitReached == steps >= MaxNodes

ExceedLimit ==
  /\ pc = "loop"
  /\ current # None
  /\ LimitReached
  /\ steps' = steps + 1
  /\ Done("limit")
  /\ UNCHANGED <<input, nodes, current, visited, path>>

DetectCycle ==
  /\ pc = "loop"
  /\ current # None
  /\ ~LimitReached
  /\ current \in visited
  /\ steps' = steps + 1
  /\ Done("cycle")
  /\ UNCHANGED <<input, nodes, current, visited, path>>

(* Mutant: a node that is not there ends the walk like a null.             *)
MissNodeQuietly ==
  /\ pc = "loop"
  /\ current # None
  /\ ~LimitReached
  /\ current \notin visited \cup DOMAIN nodes
  /\ steps' = steps + 1
  /\ Done("success")
  /\ UNCHANGED <<input, nodes, current, visited, path>>

MissNode ==
  /\ pc = "loop"
  /\ current # None
  /\ ~LimitReached
  /\ current \notin visited \cup DOMAIN nodes
  /\ steps' = steps + 1
  /\ Done("missing")
  /\ UNCHANGED <<input, nodes, current, visited, path>>

(* Mutant: neither the visited set nor the count stops a walk that returns *)
(* to a node.                                                              *)
EnterNodeAgain ==
  /\ pc = "loop"
  /\ current \in DOMAIN nodes
  /\ path' = <<current>>
  /\ pc' = "execute"
  /\ UNCHANGED <<input, nodes, current, visited, steps, outcome>>

EnterNode ==
  /\ pc = "loop"
  /\ ~LimitReached
  /\ current \in DOMAIN nodes \ visited
  /\ steps' = steps + 1
  /\ visited' = visited \cup {current}
  /\ path' = Append(path, current)
  /\ pc' = "execute"
  /\ UNCHANGED <<input, nodes, current, outcome>>

-----------------------------------------------------------------------------
(* The executor of the current node.                                       *)

(* result.nextNodeId: null from END, a branch from CONDITION, and          *)
(* undefined otherwise, for which node.nextNodeId ?? null stands in.       *)
WaysOn(node) ==
  LET result == CASE node.type = "END"       -> {Null}
                  [] node.type = "CONDITION" -> {node.onTrue, node.onFalse}
                  [] OTHER                   -> {None}
      way(to) == IF to = None THEN node.next ELSE to
  IN  {IF way(to) \in Ids THEN way(to) ELSE None : to \in result}

ExecuteNode ==
  /\ pc = "execute"
  /\ nodes[current].type # "UNKNOWN"
  /\ current' \in WaysOn(nodes[current])
  /\ pc' = "loop"
  /\ UNCHANGED <<input, nodes, visited, steps, path, outcome>>

(* The executor throws, or there is none for the type.                     *)
FailNode ==
  /\ pc = "execute"
  /\ Done("nodeFailed")
  /\ UNCHANGED <<input, nodes, current, visited, steps, path>>

Returned == pc = "done" /\ UNCHANGED vars

Next ==
  \/ CompileDrawing \/ ReadDefinition \/ RejectMalformed
  \/ Finish \/ ExceedLimit \/ DetectCycle \/ MissNode \/ EnterNode
  \/ ExecuteNode \/ FailNode
  \/ Returned

(* The function runs on; the executors that wait have time limits.         *)
Spec == Init /\ [][Next]_vars

FairSpec == Spec /\ WF_vars(Next)

-----------------------------------------------------------------------------
(* Properties.                                                             *)

Reasons == {"success", "limit", "cycle", "missing", "nodeFailed", "noStart",
            "exception"}

(* The walk's variables have their types; path holds what visited holds.   *)
TypeOK ==
  /\ input \in Inputs
  /\ DOMAIN nodes \subseteq Ids
  /\ pc \in {"compile", "loop", "execute", "done"}
  /\ current \in Ids \cup {None}
  /\ visited \subseteq Ids
  /\ steps \in 0..(MaxNodes + 1)
  /\ path \in Seq(Ids)
  /\ outcome \in Reasons \cup {"none"}

(* The arrows a reader of the definition sees, without compiling it.       *)
Arrows(d) ==
  CASE d.format = "drawn" ->
         {<<d.edges[i].source, d.edges[i].target>> : i \in
            {k \in DOMAIN d.edges :
               /\ d.edges[k].source \in DOMAIN d.type
               /\ \/ d.type[d.edges[k].source] \notin {"END", "CONDITION"}
                  \/ /\ d.type[d.edges[k].source] = "CONDITION"
                     /\ d.edges[k].handle # "none"}}
    [] d.format = "native" ->
         {arrow \in (DOMAIN d.nodes) \X Ids :
            LET node == d.nodes[arrow[1]]
            IN  arrow[2] \in {node.next, node.onTrue, node.onFalse}}
    [] OTHER -> {}

Starts(d) ==
  CASE d.format = "drawn"  -> {d.order[i] : i \in StartsOf(d)}
    [] d.format = "native" -> {d.start}
    [] OTHER -> {}

(* Compiling and walking together are a walk along the arrows of the       *)
(* definition, each node entered once.                                     *)
Walk == INSTANCE GraphWalk
  WITH starts <- Starts(input), arrows <- Arrows(input), over <- (pc = "done")

ImplementsWalk == Walk!Spec

(* An execution succeeds only where its drawing ends: at an END node, or   *)
(* at a node from which, on some outcome, no arrow leads on.               *)
EndsAt(d, id) ==
  CASE d.format = "drawn" ->
         \/ d.type[id] = "END"
         \/ \E h \in {"true", "false"} : EdgesFrom(d, id, h) = {}
    [] d.format = "native" ->
         None \in WaysOn(d.nodes[id])
    [] OTHER -> FALSE

SuccessAtEnd ==
  outcome = "success" =>
    IF path = <<>> THEN Starts(input) = {None}
    ELSE EndsAt(input, path[Len(path)])

NodesOf(d) == IF d.format = "drawn" THEN DOMAIN d.type ELSE DOMAIN d.nodes

(* A walk is refused only for its cause: the limit only with MaxNodes      *)
(* nodes executed and one to come, so a workflow of exactly MaxNodes nodes *)
(* runs; a cycle only at a node already executed; a missing node only if   *)
(* the definition has none of that id.                                     *)
RefusedForCause ==
  /\ outcome = "limit" => Len(path) = MaxNodes /\ current # None
  /\ outcome = "cycle" => \E i \in DOMAIN path : path[i] = current
  /\ outcome = "missing" => current \notin NodesOf(input)

(* Every definition, cyclic or broken, is answered.                        *)
Returns == <>(pc = "done")

(* A graph of any size and shape costs at most two steps for each node the *)
(* limit allows: every step leaves fewer of them.                          *)
StepsLeft ==
  CASE pc = "compile" -> 2 * MaxNodes + 2
    [] pc = "loop"    -> 2 * (MaxNodes - steps) + 1
    [] pc = "execute" -> 2 * (MaxNodes - steps) + 2
    [] pc = "done"    -> 0

WalkRunsOut == [][StepsLeft' \in 0..(StepsLeft - 1)]_vars

-----------------------------------------------------------------------------
(* The inductive invariant behind the theorems of EngineProofs.            *)

Compiled(d) ==
  IF d.format = "drawn" THEN [id \in DOMAIN d.type |-> CompiledNode(d, id)]
                        ELSE d.nodes

Last == path[Len(path)]

(* Nothing has happened before the compilation; after it the walk goes     *)
(* over the compiled definition.  Only its end has an outcome.             *)
NodesCompiled ==
  /\ pc = "compile" => path = <<>> /\ visited = {} /\ steps = 0
  /\ pc # "done" => outcome = "none"
  /\ pc \in {"loop", "execute"} => input # Malformed /\ nodes = Compiled(input)

(* The visited set, the step counter and the log count the same nodes.     *)
CountsAgree ==
  /\ visited = {path[i] : i \in DOMAIN path}
  /\ visited \subseteq DOMAIN nodes
  /\ pc \in {"loop", "execute"} => steps = Len(path) /\ steps <= MaxNodes
  /\ pc = "execute" => path # <<>> /\ current = Last

(* The loop is at a start node, or where the last node may have led.       *)
FollowsLast ==
  pc = "loop" =>
    IF path = <<>> THEN current \in Starts(input)
    ELSE nodes[Last].type # "UNKNOWN" /\ current \in WaysOn(nodes[Last])

Inv ==
  /\ TypeOK
  /\ NodesCompiled
  /\ CountsAgree
  /\ FollowsLast
  /\ RefusedForCause
  /\ SuccessAtEnd
=============================================================================
