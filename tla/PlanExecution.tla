---------------------------- MODULE PlanExecution ----------------------------
(***************************************************************************)
(* What a run of a workflow promises, without workers, leases, versions or *)
(* retries: the nodes of the plan are settled one by one and once for all, *)
(* each after the ones before it, each performed only behind a parent that *)
(* opens it and skipped only when none does; the run ends once, completed  *)
(* when all of its nodes are done, failed behind a failed node, cancelled  *)
(* at any time before.                                                     *)
(***************************************************************************)
EXTENDS Integers, Sequences

CONSTANTS Runs, Plan, Edges

VARIABLES
    state,      \* state[r]: "absent", "going", "completed", "failed", "cancelled"
    outcome     \* outcome[r][n]: "todo", "opens", "shut", "skipped", "failed"

Nodes == {Plan[i] : i \in 1 .. Len(Plan)}
Done  == {"opens", "shut", "skipped"}

Init ==
    /\ state = [r \in Runs |-> "absent"]
    /\ outcome = [r \in Runs |-> [n \in Nodes |-> "todo"]]

Move(r, from, to) ==
    /\ state[r] = from
    /\ state' = [state EXCEPT ![r] = to]
    /\ UNCHANGED outcome

Reached(r, i) == \A j \in 1 .. i - 1 : outcome[r][Plan[j]] \in Done

\* A root, or behind an edge its parent opened.
Opened(r, n) ==
    LET parents == {e \in Edges : e[2] = n}
    IN  parents # {} => \E e \in parents : e[3] # "false" /\ outcome[r][e[1]] = "opens"

Settle(r, i) ==
    /\ state[r] # "absent"
    /\ outcome[r][Plan[i]] = "todo"
    /\ Reached(r, i)
    /\ \E o \in IF Opened(r, Plan[i]) THEN {"opens", "shut", "failed"} ELSE {"skipped"} :
          outcome' = [outcome EXCEPT ![r][Plan[i]] = o]
    /\ UNCHANGED state

Create(r)   == Move(r, "absent", "going")
Cancel(r)   == Move(r, "going", "cancelled")
Complete(r) == (\A n \in Nodes : outcome[r][n] \in Done) /\ Move(r, "going", "completed")
Fail(r)     == (\E n \in Nodes : outcome[r][n] = "failed") /\ Move(r, "going", "failed")

Next ==
    \E r \in Runs :
        \/ Create(r) \/ Cancel(r) \/ Complete(r) \/ Fail(r)
        \/ \E i \in 1 .. Len(Plan) : Settle(r, i)

Spec == Init /\ [][Next]_<<state, outcome>>
=============================================================================
