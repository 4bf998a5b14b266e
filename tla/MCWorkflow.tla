------------------------------ MODULE MCWorkflow ------------------------------
EXTENDS WorkflowRun, TLC

CONSTANTS r1, r2, w1, w2, a1, a2, a3

OneRun == {r1}
TwoRuns == {r1, r2}
TwoWorkers == {w1, w2}
TwoActors == {a1, a2}
ThreeActors == {a1, a2, a3}

\* A condition that holds; behind it a delay, an approval with two actions
\* behind it, and a branch for when it does not hold.
SomePlan  == <<"check", "delay", "gate", "act", "else", "last">>
SomeKinds == [check |-> "condition", delay |-> "delay", gate |-> "approval",
              act |-> "action", last |-> "action"] @@ ("else" :> "action")
SomeEdges == {<<"check", "delay", "">>, <<"check", "gate", "true">>,
              <<"gate", "act", "">>, <<"act", "last", "">>, <<"check", "else", "false">>}
Holds     == [n \in Nodes |-> TRUE]

\* A workflow of one action.
OneNode == <<"act">>
OneKind == [act |-> "action"]
NoEdges == {}

\* Two approvals of three actors, then one of two; a3 may be the requester.
TwoStages == <<[required |-> 2, eligible |-> Actors],
               [required |-> 1, eligible |-> Actors \ {a1}]>>
SomeRequests == Runs \X Nodes
=============================================================================
