------------------------- MODULE MCWorkflowRuntime -------------------------
(***************************************************************************)
(* Instances of WorkflowRuntime for TLC: the definitions the runs use.     *)
(***************************************************************************)
EXTENDS WorkflowRefinement, TLC

E(s, t) == [source |-> s, target |-> t, branch |-> ""]
B(s, t, b) == [source |-> s, target |-> t, branch |-> b]

\* start -> mail
Chain == [nodes |-> <<"start", "mail">>,
          type |-> [start |-> "trigger", mail |-> "notification"],
          edges |-> <<E("start", "mail")>>]
ChainSteps == {"start", "mail"}
OnlyChain  == {Chain}

\* Two branches, one of them a condition with a single labelled edge: when
\* the payload does not match, the condition is a leaf.
Tree == [nodes |-> <<"start", "gate", "mail", "sms">>,
         type |-> [start |-> "trigger", gate |-> "condition",
                   mail |-> "notification", sms |-> "notification"],
         edges |-> <<E("start", "gate"), B("gate", "sms", "true"),
                     E("start", "mail")>>]
TreeSteps == {"start", "gate", "mail", "sms"}
OnlyTree  == {Tree}

\* wait (a delay) -> mail, and the version an editor saves over it: sms follows
\* the delay, and mail is a second start node, which no trigger starts.
Delayed == [nodes |-> <<"wait", "mail">>,
            type |-> [wait |-> "delay", mail |-> "notification"],
            edges |-> <<E("wait", "mail")>>]
Edited  == [nodes |-> <<"wait", "mail", "sms">>,
            type |-> [wait |-> "delay", mail |-> "notification", sms |-> "notification"],
            edges |-> <<E("wait", "sms")>>]
DelayedSteps == {"wait", "mail", "sms"}
DelayedEdits == {Delayed, Edited}

\* Two branches that join at "sms", which the delay enters by two equal
\* edges: ValidateDefinition accepts both.
Knot == [nodes |-> <<"start", "wait", "sms">>,
         type |-> [start |-> "trigger", wait |-> "delay", sms |-> "notification"],
         edges |-> <<E("start", "wait"), E("start", "sms"),
                     E("wait", "sms"), E("wait", "sms")>>]
KnotSteps == {"start", "wait", "sms"}
OnlyKnot  == {Knot}
============================================================================
