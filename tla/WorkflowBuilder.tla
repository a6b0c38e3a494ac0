--------------------------- MODULE WorkflowBuilder ---------------------------
(***************************************************************************)
(* The life of a workflow definition before the runtime sees it: it is     *)
(* submitted, checked by the API (ValidateDefinition) and by the dashboard *)
(* (validateWorkflowDefinitionDraft), opened on the builder's canvas and   *)
(* edited there step by step.                                              *)
(*                                                                         *)
(* The canvas is again a definition.  The order of its steps follows the   *)
(* layout of the page, which is left out, except that triggers come first. *)
(* Names, delays, templates and channels of the steps are left out.        *)
(***************************************************************************)
EXTENDS WorkflowGraph, FiniteSets, TLC

CONSTANTS Submitted,   \* the steps of a submitted definition, in document order
          MaxEdges,    \* bound on the edges of a submitted definition
          Trigger      \* the id "trigger_1", no id of a submitted step

\* The ids are distinct: both checks reject a definition with two equal ids.
ASSUME BuilderAssumption ==
    /\ Submitted \in Seq(Steps)
    /\ \A i, j \in DOMAIN Submitted : Submitted[i] = Submitted[j] => i = j
    /\ Trigger \in Steps \ {Submitted[i] : i \in DOMAIN Submitted}
    /\ MaxEdges \in Nat

VARIABLES canvas,      \* the definition
          opened       \* whether the builder has opened it

builderVars == <<canvas, opened>>

Link(s, t) == [source |-> s, target |-> t, branch |-> ""]
Typed(d, S) == {n \in NodesOf(d) : d.type[n] \in S}
Out(d, n) == {i \in DOMAIN d.edges : d.edges[i].source = n}
In(d, n)  == {i \in DOMAIN d.edges : d.edges[i].target = n}
Adjacent(d, n) == {d.edges[i].target : i \in Out(d, n)}

\* Array.filter: the elements of a sequence that belong to T, in their order.
Kept(seq, T) ==
    LET kept[n \in 0..Len(seq)] ==
            IF n = 0 THEN << >>
            ELSE IF seq[n] \in T THEN Append(kept[n - 1], seq[n]) ELSE kept[n - 1]
    IN  kept[Len(seq)]

----------------------------------------------------------------------------
(* The checks. *)

\* hasCycle: depth-first search with the nodes on the path and the nodes that are done;
\* search[c] visits the nodes of c.left one after the other, from the marks of c.
HasCycle(d) ==
    LET Nodes == NodesOf(d) \cup {d.edges[i].target : i \in DOMAIN d.edges}
        Calls == [left : SUBSET Nodes, visiting : SUBSET Nodes, visited : SUBSET Nodes, cycle : BOOLEAN]
        search[c \in Calls] ==
            IF c.left = {} \/ c.cycle THEN c
            ELSE LET n == CHOOSE m \in c.left : TRUE
                     under == search[[c EXCEPT !.left = Adjacent(d, n), !.visiting = @ \cup {n}]]
                     visit == IF n \in c.visited THEN c
                              ELSE IF n \in c.visiting THEN [c EXCEPT !.cycle = TRUE]
                              ELSE IF under.cycle THEN under
                              ELSE [under EXCEPT !.visiting = @ \ {n}, !.visited = @ \cup {n}]
                 IN  search[[visit EXCEPT !.left = c.left \ {n}]]
    IN  search[[left |-> NodesOf(d), visiting |-> {}, visited |-> {}, cycle |-> FALSE]].cycle

\* ValidateDefinition
ServerAccepts(d) == WellFormed(d) /\ ~HasCycle(d)

\* validateEdges, the connectivity check: what `visit` collects from a start node.
Collect(d, S) ==
    LET visit[k \in 0..Len(d.nodes)] ==
            IF k = 0 THEN S ELSE visit[k - 1] \cup UNION {Adjacent(d, n) : n \in visit[k - 1]}
    IN  visit[Len(d.nodes)]

\* validateNodes and validateEdges raise no issue.
BuilderAccepts(d) ==
    LET starts == {n \in NodesOf(d) : In(d, n) = {}}
    IN  /\ Cardinality(Typed(d, {"trigger"})) = 1
        /\ Typed(d, {"condition"}) = {}
        /\ \A i \in DOMAIN d.edges : d.edges[i].branch = ""
        /\ Cardinality(starts) = 1
        /\ \A n \in Typed(d, {"trigger"}) : In(d, n) = {}
        /\ \A n \in NodesOf(d) : Cardinality(In(d, n)) <= 1 /\ Cardinality(Out(d, n)) <= 1
        /\ ~HasCycle(d)
        /\ Collect(d, starts) = NodesOf(d)

----------------------------------------------------------------------------
(* The submission. *)

SubmittedSteps == {Submitted[i] : i \in DOMAIN Submitted}

\* The definitions on the submitted steps; only a condition has labelled edges.
Definitions ==
    UNION {LET from == [source : SubmittedSteps, target : SubmittedSteps, branch : {""}]
                       \cup [source : {n \in SubmittedSteps : type[n] = "condition"},
                             target : SubmittedSteps, branch : {"true"}]
           IN  {[nodes |-> Submitted, type |-> type, edges |-> edges] :
                    edges \in UNION {[1..k -> from] : k \in 0..MaxEdges}} :
           type \in [SubmittedSteps -> StepTypes \ {"delay"}]}

BuilderInit ==
    /\ canvas \in Definitions
    /\ opened = FALSE

\* builderDraftFromDefinition: a definition without a trigger gets one, in front of the
\* first step of the document.
WithTrigger(d) ==
    IF Typed(d, {"trigger"}) # {} THEN d
    ELSE [nodes |-> <<Trigger>> \o d.nodes,
          type  |-> [n \in NodesOf(d) \cup {Trigger} |->
                        IF n = Trigger THEN "trigger" ELSE d.type[n]],
          edges |-> <<Link(Trigger, d.nodes[1])>> \o d.edges]

\* The API stored the definition, and the builder opens it.
Open ==
    /\ ~opened
    /\ ServerAccepts(canvas)
    /\ opened' = TRUE
    /\ canvas' = WithTrigger(canvas)

----------------------------------------------------------------------------
(* The edits of the canvas. *)

\* buildDraftFromCanvas: triggers first.
Ordered(d) ==
    [d EXCEPT !.nodes = Kept(d.nodes, Typed(d, {"trigger"}))
                     \o Kept(d.nodes, Typed(d, StepTypes \ {"trigger"}))]

Becomes(d) ==
    /\ opened
    /\ canvas' = Ordered(d)
    /\ UNCHANGED opened

\* An edge list without the edges at the positions I.
Without(edges, I) ==
    LET kept == Kept([i \in DOMAIN edges |-> i], DOMAIN edges \ I)
    IN  [k \in DOMAIN kept |-> edges[kept[k]]]

\* createNodeDraft: a step with a new id.
NewStep(n) == n \in Steps \ (NodesOf(canvas) \cup SubmittedSteps \cup {Trigger})
WithStep(n, type, edges) ==
    [nodes |-> Append(canvas.nodes, n),
     type  |-> [m \in NodesOf(canvas) \cup {n} |-> IF m = n THEN type ELSE canvas.type[m]],
     edges |-> edges]

\* insertNodeOnEdge on an edge: two edges without label take its place.
InsertOnEdge(i, n, type) ==
    /\ NewStep(n)
    /\ i \in DOMAIN canvas.edges
    /\ Becomes(WithStep(n, type, Without(canvas.edges, {i})
                    \o <<Link(canvas.edges[i].source, n), Link(n, canvas.edges[i].target)>>))

\* insertNodeOnEdge on the terminal edge, which is drawn at the first step of the page
\* without outgoing edge: any of them, for the places on the page are left out.
InsertAtEnd(last, n, type) ==
    /\ NewStep(n)
    /\ last \in NodesOf(canvas)
    /\ Out(canvas, last) = {}
    /\ Becomes(WithStep(n, type, Append(canvas.edges, Link(last, n))))

\* duplicateNode: the copy follows the step and takes its first outgoing edge.
DuplicateNode(s, n) ==
    /\ NewStep(n)
    /\ s \in NodesOf(canvas) \ Typed(canvas, {"trigger"})
    /\ LET out  == Out(canvas, s)
           rest == Append(Without(canvas.edges, out), Link(s, n))
       IN  Becomes(WithStep(n, canvas.type[s],
               IF out = {} THEN rest
               ELSE Append(rest, Link(n, canvas.edges[CHOOSE i \in out : IsLeast(i, out)].target))))

\* Mutated form: the edges into the removed step stay.
RemoveNode_LeavesEdges(s) ==
    /\ s \in NodesOf(canvas) \ Typed(canvas, {"trigger"})
    /\ Becomes([nodes |-> Kept(canvas.nodes, NodesOf(canvas) \ {s}),
                type  |-> [n \in NodesOf(canvas) \ {s} |-> canvas.type[n]],
                edges |-> Without(canvas.edges, Out(canvas, s))])

\* removeNode: the neighbours are joined when there is one on each side.
RemoveNode(s) ==
    /\ s \in NodesOf(canvas) \ Typed(canvas, {"trigger"})
    /\ LET in   == In(canvas, s)
           out  == Out(canvas, s)
           rest == Without(canvas.edges, in \cup out)
           join == {Link(canvas.edges[i].source, canvas.edges[o].target) : i \in in, o \in out}
       IN  Becomes([nodes |-> Kept(canvas.nodes, NodesOf(canvas) \ {s}),
                    type  |-> [n \in NodesOf(canvas) \ {s} |-> canvas.type[n]],
                    edges |-> IF Cardinality(in) = 1 /\ Cardinality(out) = 1
                                 /\ \A e \in join : e.source # e.target
                              THEN Append(rest, CHOOSE e \in join : TRUE)
                              ELSE rest])

BuilderNext ==
    \/ Open
    \/ \E n \in Steps :
        \/ \E type \in {"notification", "delay"} :
            \/ \E i \in DOMAIN canvas.edges : InsertOnEdge(i, n, type)
            \/ \E last \in Steps : InsertAtEnd(last, n, type)
        \/ \E s \in Steps : DuplicateNode(s, n)
        \/ RemoveNode(n)

BuilderSpec == BuilderInit /\ [][BuilderNext]_builderVars

----------------------------------------------------------------------------
(* Properties. *)

BuilderTypeOK ==
    /\ canvas.nodes \in Seq(Steps)
    /\ canvas.type \in [NodesOf(canvas) -> StepTypes]
    /\ canvas.edges \in Seq(Edge)
    /\ opened \in BOOLEAN

\* Some steps each have a successor among them: a cycle.
Cyclic(d) == \E S \in SUBSET NodesOf(d) : S # {} /\ \A n \in S : Adjacent(d, n) \cap S # {}

\* In some order the steps are a path: the first is a trigger, and the edges lead from
\* each step to the next.
IsPath(d) ==
    LET n == Len(d.nodes)
    IN  /\ Len(d.edges) = n - 1
        /\ \E p \in [1..n -> NodesOf(d)] :
              /\ d.type[p[1]] = "trigger"
              /\ {d.edges[i] : i \in DOMAIN d.edges} = {Link(p[i], p[i + 1]) : i \in 1..(n - 1)}
              /\ {p[i] : i \in 1..n} = NodesOf(d)

\* The depth-first searches find a cycle exactly when there is one, and the builder shows
\* no issue exactly for the definitions that are one path from their only trigger, all of
\* which the API accepts.
ChecksAgree ==
    /\ HasCycle(canvas) <=> Cyclic(canvas)
    /\ BuilderAccepts(canvas) <=> /\ IsPath(canvas)
                                  /\ Cardinality(Typed(canvas, {"trigger"})) = 1
                                  /\ Typed(canvas, {"condition"}) = {}
    /\ BuilderAccepts(canvas) => ServerAccepts(canvas)

\* Whatever definition was opened, also one with branches, the API accepts the canvas
\* after every edit: autosave never sends a graph that is rejected.
CanvasStaysValid == opened => ServerAccepts(canvas)

\* An edit of a path leaves a path, with the trigger in front and the steps it did not
\* touch in their order.
EditsKeepPath ==
    opened /\ IsPath(canvas) =>
        /\ IsPath(canvas)'
        /\ \A a, b \in NodesOf(canvas) \cap NodesOf(canvas') :
            b \in Collect(canvas, {a}) => b \in Collect(canvas', {a})
=============================================================================
