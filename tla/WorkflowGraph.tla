--------------------------- MODULE WorkflowGraph ---------------------------
(***************************************************************************)
(* Workflow definitions (internal/modules/workflow/models.go) and the      *)
(* functions the runtime uses to walk them.                                *)
(*                                                                         *)
(* A definition is a record                                                *)
(*   nodes : the sequence of node ids, in document order                   *)
(*   type  : the type of each node                                         *)
(*   edges : the sequence of edges, in document order                      *)
(* The code returns the next nodes as a slice in edge order; here they are *)
(* the set of the positions of the matching edges, and the slice order is  *)
(* the order of the positions, so that no recursion is needed.             *)
(***************************************************************************)
EXTENDS Naturals, Sequences

CONSTANT Steps          \* node ids

StepTypes == {"trigger", "notification", "delay", "condition"}

\* "" is an edge without a branch label
Branches == {"true", "false", ""}

Edge == [source : Steps, target : Steps, branch : Branches]

NodesOf(d) == {d.nodes[i] : i \in DOMAIN d.nodes}

\* What ValidateDefinition accepts, apart from acyclicity: unique node ids, a
\* known type for each, edges between known nodes, at least one start node.
\* Two equal edges are accepted: nothing in the validator compares edges.
WellFormed(d) ==
    /\ d.nodes \in Seq(Steps)
    /\ d.nodes # << >>
    /\ \A i, j \in DOMAIN d.nodes : d.nodes[i] = d.nodes[j] => i = j
    /\ d.type \in [NodesOf(d) -> StepTypes]
    /\ d.edges \in Seq(Edge)
    /\ \A i \in DOMAIN d.edges :
          d.edges[i].source \in NodesOf(d) /\ d.edges[i].target \in NodesOf(d)
    /\ \E n \in NodesOf(d) : \A i \in DOMAIN d.edges : d.edges[i].target # n

\* firstStepID: the first node, in document order, that no edge enters. Any
\* other start node of the definition is never started.
IsFirstStep(d, s) ==
    \E i \in DOMAIN d.nodes :
        LET Entered(n) == \E k \in DOMAIN d.edges : d.edges[k].target = n
        IN  /\ d.nodes[i] = s
            /\ ~ Entered(d.nodes[i])
            /\ \A j \in 1 .. (i - 1) : Entered(d.nodes[j])

\* nextNodeIDs: the edges out of s. A branch only filters edges that carry a
\* label, and an empty branch filters none.
NextEdges(d, s, branch) ==
    {i \in DOMAIN d.edges :
        /\ d.edges[i].source = s
        /\ branch # "" /\ d.edges[i].branch # "" => d.edges[i].branch = branch}

\* The branch ProcessStep passes to nextNodeIDs. A trigger payload is the set
\* of the condition nodes that evaluateCondition finds true for it.
BranchTaken(d, s, payload) ==
    IF d.type[s] # "condition" THEN ""
    ELSE IF s \in payload THEN "true" ELSE "false"

NextOf(d, s, payload) == NextEdges(d, s, BranchTaken(d, s, payload))

\* The successors of s under the payload, as node ids.
Successors(d, s, payload) ==
    {d.edges[i].target : i \in NextOf(d, s, payload)}

IsLeast(i, S) == i \in S /\ \A j \in S : i <= j
============================================================================
