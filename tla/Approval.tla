------------------------------ MODULE Approval ------------------------------
(***************************************************************************)
(* Approval requests: NewRequest and ApplyDecision.  A request passes      *)
(* through the stages of the policy it was created under; each stage needs *)
(* a number of approving votes of distinct eligible actors, and one        *)
(* rejection ends the request.  Decide holds the request's row while it    *)
(* votes, so a vote is one step.                                           *)
(*                                                                         *)
(* The clock is one fact per request: whether expires_at has passed.       *)
(* Nothing in the program calls Expire, Escalate or Due, and only requests *)
(* of other kinds reach BeginExecution, so a request made by a workflow    *)
(* never leaves the states below.                                          *)
(***************************************************************************)
EXTENDS Naturals, Sequences, FiniteSets

CONSTANTS
    Requests,       \* ids a request can have
    Actors,         \* who may vote
    Requester,      \* who asks ("workflow.engine" for every workflow)
    SeparationOfDuties, \* the policy keeps the requester from voting
    Stages          \* the policy: <<[required |-> n, eligible |-> actors], ...>>

ASSUME ApprovalAssumption ==
    /\ IsFiniteSet(Actors)
    /\ Stages \in Seq([required : Nat \ {0}, eligible : SUBSET Actors])
    /\ Stages # <<>>
    /\ SeparationOfDuties \in BOOLEAN

VARIABLE request    \* request[q]: state, current stage, approvers, TTL passed

RequestStates == {"none", "pending", "approved", "rejected"}

Vote == [stage : 1 .. Len(Stages), actor : Actors]

RequestType ==
    request \in [Requests -> [state : RequestStates, stage : 1 .. Len(Stages),
                              approvals : SUBSET Vote, late : BOOLEAN]]

NoRequest == [state |-> "none", stage |-> 1, approvals |-> {}, late |-> FALSE]

InitRequest == request = [q \in Requests |-> NoRequest]

Voters(r, s) == {v.actor : v \in {x \in r.approvals : x.stage = s}}

CreateRequest(q) ==
    /\ request[q].state = "none"
    /\ request' = [request EXCEPT ![q].state = "pending"]

MayDecideUnlisted(r, a) ==
    r.state = "pending" /\ ~ r.late /\ a \notin Voters(r, r.stage)

\* Pending, in time, eligible at this stage, not the requester, not yet voted.
MayDecide(r, a) ==
    /\ r.state = "pending"
    /\ ~ r.late
    /\ a \in Stages[r.stage].eligible
    /\ SeparationOfDuties => a # Requester
    /\ a \notin Voters(r, r.stage)

\* The approving vote counts; the last stage's last one approves the request.
WithApproval(r, a) ==
    LET voted == [r EXCEPT !.approvals = @ \cup {[stage |-> r.stage, actor |-> a]}]
        quorum == Cardinality(Voters(voted, r.stage)) >= Stages[r.stage].required
    IN  CASE ~ quorum                         -> voted
          [] quorum /\ r.stage = Len(Stages) -> [voted EXCEPT !.state = "approved"]
          [] quorum /\ r.stage # Len(Stages) -> [voted EXCEPT !.stage = @ + 1]

Approve(q, a) ==
    /\ MayDecide(request[q], a)
    /\ request' = [request EXCEPT ![q] = WithApproval(@, a)]

Reject(q, a) ==
    /\ MayDecide(request[q], a)
    /\ request' = [request EXCEPT ![q].state = "rejected"]

\* expires_at passes.  Nobody marks the request: it stays pending.
PassDeadline(q) ==
    /\ request[q].state = "pending"
    /\ ~ request[q].late
    /\ request' = [request EXCEPT ![q].late = TRUE]

Decision == \E q \in Requests, a \in Actors : Approve(q, a) \/ Reject(q, a)

(* An approved request was approved at every stage of its policy, by as    *)
(* many distinct eligible actors as the stage requires, none of them the   *)
(* requester where the policy separates duties.                           *)
ApprovedByQuorum ==
    \A q \in Requests : request[q].state = "approved" =>
        \A s \in 1 .. Len(Stages) :
            /\ Voters(request[q], s) \subseteq Stages[s].eligible
            /\ SeparationOfDuties => Requester \notin Voters(request[q], s)
            /\ Cardinality(Voters(request[q], s)) >= Stages[s].required
=============================================================================
