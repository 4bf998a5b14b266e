-------------------------- MODULE WorkflowRun_proofs --------------------------
(***************************************************************************)
(* What is proved of the workflow engine, for any plan, policy, workers,   *)
(* runs and limits: the type invariant; that an approved request has its   *)
(* quorum; what workers carry through an execution (FlowInv), from which   *)
(* what runs only behind its parents follows; that a run ends only with    *)
(* its steps.                                                              *)
(***************************************************************************)
EXTENDS WorkflowRun, FiniteSetTheorems, TLAPS

LEMMA PlanLength == Len(Plan) \in Nat
BY WorkflowAssumption

LEMMA NodeAt ==
    ASSUME NEW i \in 1 .. Len(Plan)
    PROVE  Plan[i] \in Nodes
BY DEF Nodes

LEMMA HereIsNode ==
    ASSUME TypeOK, NEW w \in Workers, worker[w].node <= Len(Plan)
    PROVE  /\ worker[w].node \in 1 .. Len(Plan)
           /\ Here(w) = Plan[worker[w].node]
           /\ Here(w) \in Nodes
<1>1. worker[w].node \in 1 .. Len(Plan) + 1
  BY DEF TypeOK, WorkerType
<1>2. worker[w].node \in 1 .. Len(Plan)
  BY <1>1, PlanLength
<1> QED
  BY <1>2, NodeAt DEF Here

StageRecord == [required : Nat \ {0}, eligible : SUBSET Actors]

LEMMA StagesType ==
    /\ Len(Stages) \in Nat \ {0}
    /\ \A s \in 1 .. Len(Stages) :
          Stages[s].required \in Nat \ {0} /\ Stages[s].eligible \in SUBSET Actors
<1>1. Stages \in Seq(StageRecord) /\ Stages # <<>>
  BY ApprovalAssumption DEF StageRecord
<1> HIDE DEF StageRecord
<1>2. Len(Stages) \in Nat /\ Len(Stages) # 0
  BY <1>1
<1>3. \A s \in 1 .. Len(Stages) : Stages[s] \in StageRecord
  BY <1>1
<1> QED
  BY <1>2, <1>3 DEF StageRecord

(***************************************************************************)
(* Approval                                                                *)
(***************************************************************************)
RequestRecord == [state : RequestStates, stage : 1 .. Len(Stages),
                  approvals : SUBSET Vote, late : BOOLEAN]

Voted(r, a) == [r EXCEPT !.approvals = @ \cup {[stage |-> r.stage, actor |-> a]}]

Quorum(r, a) ==
    Cardinality(Voters(Voted(r, a), r.stage)) >= Stages[r.stage].required

\* The three outcomes of an approving vote.
LEMMA WithApprovalCases ==
    ASSUME NEW r, NEW a
    PROVE  \/ ~ Quorum(r, a) /\ WithApproval(r, a) = Voted(r, a)
           \/ /\ Quorum(r, a) /\ r.stage = Len(Stages)
              /\ WithApproval(r, a) = [Voted(r, a) EXCEPT !.state = "approved"]
           \/ /\ Quorum(r, a) /\ r.stage # Len(Stages)
              /\ WithApproval(r, a) = [Voted(r, a) EXCEPT !.stage = @ + 1]
<1> DEFINE q == Quorum(r, a)
<1> DEFINE x == Voted(r, a)
<1>1. WithApproval(r, a) =
        CASE ~ q                         -> x
          [] q /\ r.stage = Len(Stages) -> [x EXCEPT !.state = "approved"]
          [] q /\ r.stage # Len(Stages) -> [x EXCEPT !.stage = @ + 1]
  BY DEF WithApproval, Voted, Quorum
<1> HIDE DEF q, x
<1>2. \/ ~ q /\ WithApproval(r, a) = x
      \/ q /\ r.stage = Len(Stages) /\ WithApproval(r, a) = [x EXCEPT !.state = "approved"]
      \/ q /\ r.stage # Len(Stages) /\ WithApproval(r, a) = [x EXCEPT !.stage = @ + 1]
  BY <1>1
<1> QED
  BY <1>2 DEF q, x

LEMMA WithApprovalType ==
    ASSUME NEW r \in RequestRecord, NEW a \in Actors
    PROVE  WithApproval(r, a) \in RequestRecord
<1>1. [stage |-> r.stage, actor |-> a] \in Vote
  BY DEF Vote, RequestRecord
<1>2. Voted(r, a) \in RequestRecord /\ Voted(r, a).stage = r.stage
  BY <1>1 DEF RequestRecord, Voted
<1>3. [Voted(r, a) EXCEPT !.state = "approved"] \in RequestRecord
  BY <1>2 DEF RequestRecord, RequestStates
<1>4. ASSUME r.stage # Len(Stages)
      PROVE  [Voted(r, a) EXCEPT !.stage = @ + 1] \in RequestRecord
  <2>1. r.stage + 1 \in 1 .. Len(Stages)
    BY <1>4, StagesType DEF RequestRecord
  <2> QED
    BY <1>2, <2>1 DEF RequestRecord
<1> QED
  BY <1>2, <1>3, <1>4, WithApprovalCases

LEMMA RequestTypeRecord == RequestType <=> request \in [Requests -> RequestRecord]
BY DEF RequestType, RequestRecord

LEMMA CreateRequestType ==
    ASSUME RequestType, NEW q \in Requests, CreateRequest(q)
    PROVE  RequestType'
<1>1. [request[q] EXCEPT !.state = "pending"] \in RequestRecord
  BY RequestTypeRecord DEF RequestRecord, RequestStates
<1> QED
  BY <1>1, RequestTypeRecord DEF CreateRequest, RequestType, RequestRecord

LEMMA DecisionType ==
    ASSUME RequestType, Decision
    PROVE  RequestType'
<1>1. PICK q \in Requests, a \in Actors : Approve(q, a) \/ Reject(q, a)
  BY DEF Decision
<1>2. request[q] \in RequestRecord
  BY RequestTypeRecord
<1>3. [request[q] EXCEPT !.state = "rejected"] \in RequestRecord
  BY <1>2 DEF RequestRecord, RequestStates
<1>4. WithApproval(request[q], a) \in RequestRecord
  BY <1>2, WithApprovalType
<1>5. request' \in [Requests -> RequestRecord]
  BY <1>1, <1>3, <1>4, RequestTypeRecord DEF Approve, Reject, RequestRecord
<1> QED
  BY <1>5 DEF RequestType, RequestRecord

LEMMA DeadlineType ==
    ASSUME RequestType, NEW q \in Requests, PassDeadline(q)
    PROVE  RequestType'
<1>1. [request[q] EXCEPT !.late = TRUE] \in RequestRecord
  BY RequestTypeRecord DEF RequestRecord
<1> QED
  BY <1>1, RequestTypeRecord DEF PassDeadline, RequestType, RequestRecord

(***************************************************************************)
(* QuorumInv: the stages already passed have their quorum, and an approved *)
(* request is at its last stage, with that stage's quorum too.             *)
(***************************************************************************)
StageQuorum(r, s) == Cardinality(Voters(r, s)) >= Stages[s].required

Entitled(r) ==
    \A s \in 1 .. Len(Stages) :
        /\ Voters(r, s) \subseteq Stages[s].eligible
        /\ SeparationOfDuties => Requester \notin Voters(r, s)

QuorumOK(r) ==
    /\ Entitled(r)
    /\ \A s \in 1 .. Len(Stages) : s < r.stage => StageQuorum(r, s)
    /\ r.state = "approved" => r.stage = Len(Stages) /\ StageQuorum(r, Len(Stages))

QuorumInv == \A q \in Requests : QuorumOK(request[q])

LEMMA VotersOfVoted ==
    ASSUME NEW r \in RequestRecord, NEW a \in Actors, NEW s \in 1 .. Len(Stages)
    PROVE  Voters(Voted(r, a), s) =
             IF s = r.stage THEN Voters(r, s) \cup {a} ELSE Voters(r, s)
<1> DEFINE v == [stage |-> r.stage, actor |-> a]
<1>1. Voted(r, a).approvals = r.approvals \cup {v}
  BY DEF Voted, RequestRecord
<1>2. v.stage = r.stage /\ v.actor = a
  OBVIOUS
<1> HIDE DEF v
<1> QED
  BY <1>1, <1>2 DEF Voters

LEMMA QuorumVote ==
    ASSUME NEW r \in RequestRecord, NEW a \in Actors, QuorumOK(r), MayDecide(r, a)
    PROVE  QuorumOK(WithApproval(r, a))
<1> DEFINE x == Voted(r, a)
<1>1. x.stage = r.stage /\ x.state = "pending"
  BY DEF Voted, MayDecide, RequestRecord
<1>2. Entitled(x)
  BY VotersOfVoted, StagesType DEF Entitled, QuorumOK, MayDecide
<1>3. \A s \in 1 .. Len(Stages) : s < r.stage => StageQuorum(x, s)
  <2> SUFFICES ASSUME NEW s \in 1 .. Len(Stages), s < r.stage PROVE StageQuorum(x, s)
    OBVIOUS
  <2>1. s # r.stage
    BY StagesType DEF RequestRecord
  <2>2. Voters(x, s) = Voters(r, s)
    BY <2>1, VotersOfVoted
  <2> QED
    BY <2>2 DEF QuorumOK, StageQuorum
<1>4. /\ Voters([x EXCEPT !.state = "approved"], 1) = Voters(x, 1)
      /\ \A s : Voters([x EXCEPT !.state = "approved"], s) = Voters(x, s)
      /\ \A s : Voters([x EXCEPT !.stage = @ + 1], s) = Voters(x, s)
  BY DEF Voters, Voted, RequestRecord
<1>5. /\ [x EXCEPT !.state = "approved"].state = "approved"
      /\ [x EXCEPT !.state = "approved"].stage = r.stage
      /\ [x EXCEPT !.stage = @ + 1].state = "pending"
      /\ [x EXCEPT !.stage = @ + 1].stage = r.stage + 1
  BY <1>1 DEF Voted, RequestRecord
<1>6. r.stage \in 1 .. Len(Stages)
  BY DEF RequestRecord
<1> HIDE DEF x
<1>7. CASE WithApproval(r, a) = x
  BY <1>1, <1>2, <1>3, <1>7 DEF QuorumOK
<1>8. CASE /\ Quorum(r, a) /\ r.stage = Len(Stages)
           /\ WithApproval(r, a) = [x EXCEPT !.state = "approved"]
  <2>1. StageQuorum(x, Len(Stages))
    BY <1>8 DEF Quorum, StageQuorum, x
  <2> QED
    BY <1>2, <1>3, <1>4, <1>5, <1>8, <2>1 DEF QuorumOK, Entitled, StageQuorum
<1>9. CASE /\ Quorum(r, a) /\ r.stage # Len(Stages)
           /\ WithApproval(r, a) = [x EXCEPT !.stage = @ + 1]
  <2>1. StageQuorum(x, r.stage)
    BY <1>9 DEF Quorum, StageQuorum, x
  <2>2. \A s \in 1 .. Len(Stages) : s < r.stage + 1 => StageQuorum(x, s)
    BY <1>3, <1>6, <2>1, StagesType
  <2> QED
    BY <1>2, <1>4, <1>5, <1>9, <2>2 DEF QuorumOK, Entitled, StageQuorum
<1> QED
  BY <1>7, <1>8, <1>9, WithApprovalCases DEF x

LEMMA QuorumSame ==
    ASSUME NEW r, NEW t, QuorumOK(r), t.approvals = r.approvals, t.stage = r.stage,
           t.state = "approved" => r.state = "approved"
    PROVE  QuorumOK(t)
BY DEF QuorumOK, Entitled, StageQuorum, Voters

LEMMA QuorumDecision ==
    ASSUME RequestType, QuorumInv, Decision
    PROVE  QuorumInv'
<1>1. PICK q \in Requests, a \in Actors : Approve(q, a) \/ Reject(q, a)
  BY DEF Decision
<1>2. request[q] \in RequestRecord /\ QuorumOK(request[q])
  BY RequestTypeRecord DEF QuorumInv
<1>3. QuorumOK(request'[q]) /\ \A p \in Requests \ {q} : request'[p] = request[p]
  <2>1. CASE Approve(q, a)
    BY <1>2, <2>1, QuorumVote, RequestTypeRecord DEF Approve
  <2>2. CASE Reject(q, a)
    <3>1. request'[q] = [request[q] EXCEPT !.state = "rejected"]
          /\ \A p \in Requests \ {q} : request'[p] = request[p]
      BY <2>2, RequestTypeRecord DEF Reject
    <3>2. request'[q].approvals = request[q].approvals
          /\ request'[q].stage = request[q].stage /\ request'[q].state # "approved"
      BY <1>2, <3>1 DEF RequestRecord
    <3> QED
      BY <1>2, <3>1, <3>2, QuorumSame
  <2> QED
    BY <1>1, <2>1, <2>2
<1> QED
  BY <1>3 DEF QuorumInv

LEMMA QuorumElse ==
    ASSUME RequestType, QuorumInv, NEW q \in Requests, CreateRequest(q) \/ PassDeadline(q)
    PROVE  QuorumInv'
<1>1. request[q] \in RequestRecord /\ QuorumOK(request[q])
  BY RequestTypeRecord DEF QuorumInv
<1>2. /\ request'[q].approvals = request[q].approvals
      /\ request'[q].stage = request[q].stage
      /\ request'[q].state # "approved"
      /\ \A p \in Requests \ {q} : request'[p] = request[p]
  <2>1. CASE CreateRequest(q)
    BY <1>1, <2>1, RequestTypeRecord DEF CreateRequest, RequestRecord
  <2>2. CASE PassDeadline(q)
    BY <1>1, <2>2, RequestTypeRecord DEF PassDeadline, RequestRecord
  <2> QED
    BY <2>1, <2>2
<1> QED
  BY <1>1, <1>2, QuorumSame DEF QuorumInv

LEMMA QuorumImplies ==
    ASSUME QuorumInv, RequestType
    PROVE  ApprovedByQuorum
<1> SUFFICES ASSUME NEW q \in Requests, request[q].state = "approved",
                    NEW s \in 1 .. Len(Stages)
             PROVE  /\ Voters(request[q], s) \subseteq Stages[s].eligible
                    /\ SeparationOfDuties => Requester \notin Voters(request[q], s)
                    /\ StageQuorum(request[q], s)
  BY DEF ApprovedByQuorum, StageQuorum
<1>1. s < Len(Stages) \/ s = Len(Stages)
  BY StagesType
<1> QED
  BY <1>1 DEF QuorumInv, QuorumOK, Entitled

(***************************************************************************)
(* TypeInv: the type invariant, and that a worker past the start of an     *)
(* execution is at a node of the plan.                                     *)
(***************************************************************************)
Placed(s) ==
    /\ s.pc # "idle" => s.run \in Runs
    /\ s.pc \in {"mark", "act", "record", "evidence", "release"} => s.node <= Len(Plan)

TypeInv == TypeOK /\ \A w \in Workers : Placed(worker[w])

LEMMA WorkerMoves ==
    ASSUME TypeInv, NEW w \in Workers, NEW s \in WorkerType, Placed(s), GoTo(w, s)
    PROVE  /\ worker' \in [Workers -> WorkerType]
           /\ \A v \in Workers : Placed(worker'[v])
           /\ worker'[w] = s
           /\ \A v \in Workers \ {w} : worker'[v] = worker[v]
<1>1. worker \in [Workers -> WorkerType]
  BY DEF TypeInv, TypeOK
<1> HIDE DEF WorkerType
<1> QED
  BY <1>1 DEF TypeInv, GoTo

\* What any action keeps when it leaves workers and requests alone.
LEMMA IdleType ==
    /\ Idle \in WorkerType
    /\ Placed(Idle)
    /\ \A w \in Workers : TypeInv => Return(w) \in WorkerType /\ Placed(Return(w))
<1>1. 1 \in 1 .. Len(Plan) + 1
  BY PlanLength
<1>2. NoStep \in StepType
  BY DEF NoStep, StepType
<1>3. Idle \in WorkerType /\ Idle.pc = "idle"
  BY <1>1, <1>2 DEF Idle, WorkerType, PCs, Outcomes
<1>4. ASSUME NEW w \in Workers, TypeInv
      PROVE  Return(w) \in WorkerType /\ Return(w).pc = "idle"
  <2>1. worker[w].queue \in SUBSET Runs
    BY <1>4 DEF TypeInv, TypeOK, WorkerType
  <2> QED
    BY <1>3, <2>1 DEF Return, WorkerType, Idle
<1> QED
  BY <1>3, <1>4 DEF Placed

LEMMA WorkerFields ==
    ASSUME TypeInv, NEW w \in Workers
    PROVE  /\ worker[w] \in WorkerType
           /\ Placed(worker[w])
           /\ worker[w].seen \in StepType
           /\ worker[w].queue \in SUBSET Runs
           /\ worker[w].open \in SUBSET Nodes
           /\ worker[w].outcome \in Outcomes \cup {"skipped"}
           /\ worker[w].node \in 1 .. Len(Plan) + 1
BY DEF TypeInv, TypeOK, WorkerType

LEMMA RunTyped ==
    ASSUME TypeInv, NEW r \in Runs, NEW row \in RunType, run' = [run EXCEPT ![r] = row]
    PROVE  run' \in [Runs -> RunType]
BY DEF TypeInv, TypeOK

LEMMA StepTyped ==
    ASSUME TypeInv, NEW r \in Runs, NEW n \in Nodes, NEW row \in StepType,
           step' = [step EXCEPT ![r][n] = row]
    PROVE  /\ step' \in [Runs -> [Nodes -> StepType]]
           /\ step'[r][n] = row
           /\ \A q \in Runs, m \in Nodes : q # r \/ m # n => step'[q][m] = step[q][m]
<1>1. step \in [Runs -> [Nodes -> StepType]]
  BY DEF TypeInv, TypeOK
<1> HIDE DEF StepType
<1> QED
  BY <1>1

LEMMA AttemptTyped ==
    ASSUME NEW seen \in StepType
    PROVE  /\ Attempted(seen) \in StepType /\ Attempted(seen).status = "running"
           /\ Skipped(seen) \in StepType /\ Skipped(seen).status = "skipped"
           /\ Skipped(seen).result = FALSE
           /\ \A n \in Nodes, o \in Outcomes \cup {"skipped"} :
                 /\ Recorded(n, seen, o) \in StepType
                 /\ Recorded(n, seen, o).status = o
<1>1. \A n \in Nodes : Verdict[n] \in BOOLEAN
  BY WorkflowAssumption
<1>2. seen.attempts + 1 \in Nat
      /\ (IF seen.attempts < 1 THEN 1 ELSE seen.attempts) \in Nat
  BY DEF StepType
<1>3. Attempted(seen) \in StepType /\ Attempted(seen).status = "running"
  BY <1>2 DEF Attempted, StepType
<1>4. Skipped(seen) \in StepType /\ Skipped(seen).status = "skipped" /\ Skipped(seen).result = FALSE
  BY <1>2 DEF Skipped, StepType
<1>5. ASSUME NEW n \in Nodes, NEW o \in Outcomes \cup {"skipped"}
      PROVE  Recorded(n, seen, o) \in StepType /\ Recorded(n, seen, o).status = o
  <2>1. (o = "completed" /\ (Kind[n] = "condition" => Verdict[n])) \in BOOLEAN
    BY <1>1
  <2> QED
    BY <2>1 DEF Recorded, StepType
<1> QED
  BY <1>3, <1>4, <1>5

LEMMA AfterTyped ==
    ASSUME TypeInv, NEW w \in Workers, worker[w].node <= Len(Plan),
           worker[w].pc # "idle", NEW open \in SUBSET Nodes
    PROVE  /\ After(w, open) \in WorkerType /\ Placed(After(w, open))
           /\ After(w, open).pc = "step" /\ After(w, open).run = worker[w].run
           /\ After(w, open).open = open /\ After(w, open).node = worker[w].node + 1
<1>1. worker[w].node + 1 \in 1 .. Len(Plan) + 1
  BY WorkerFields, PlanLength
<1>2. NoStep \in StepType
  BY DEF NoStep, StepType
<1>3. /\ After(w, open) \in WorkerType /\ After(w, open).pc = "step"
      /\ After(w, open).run = worker[w].run
      /\ After(w, open).open = open /\ After(w, open).node = worker[w].node + 1
  BY <1>1, <1>2, WorkerFields DEF After, WorkerType, PCs, Outcomes
<1> QED
  BY <1>3, WorkerFields DEF Placed

\* The worker of an execution: its run, and, past "step", its node.
LEMMA AtWork ==
    ASSUME TypeInv, NEW w \in Workers, worker[w].pc # "idle"
    PROVE  /\ worker[w].run \in Runs
           /\ run[worker[w].run] \in RunType
           /\ worker[w].pc \in {"mark", "act", "record", "evidence", "release"} =>
                /\ worker[w].node \in 1 .. Len(Plan)
                /\ Here(w) = Plan[worker[w].node] /\ Here(w) \in Nodes
                /\ worker[w].node <= Len(Plan)
<1>1. Placed(worker[w])
  BY WorkerFields
<1>2. worker[w].run \in Runs
  BY <1>1 DEF Placed
<1>3. run[worker[w].run] \in RunType
  BY <1>2 DEF TypeInv, TypeOK
<1>4. ASSUME worker[w].pc \in {"mark", "act", "record", "evidence", "release"}
      PROVE  worker[w].node <= Len(Plan)
  BY <1>1, <1>4 DEF Placed
<1> QED
  BY <1>2, <1>3, <1>4, HereIsNode DEF TypeInv

LEMMA AttemptLimit == MaxRunAttempts \in Nat \ {0}
BY WorkflowAssumption

LEMMA NoRunType == NoRun \in RunType
<1>1. 0 \in 0 .. MaxRunAttempts
  BY AttemptLimit
<1> QED
  BY <1>1 DEF NoRun, RunType

LEMMA TypeByWorker ==
    ASSUME TypeInv, NEW w \in Workers, NEW s \in WorkerType, Placed(s), GoTo(w, s),
           RequestType', run' \in [Runs -> RunType],
           step' \in [Runs -> [Nodes -> StepType]], evidence' \subseteq Runs \X Nodes,
           stale' \subseteq Workers, listed' \in BOOLEAN,
           calls' \in [Runs -> [Nodes -> Nat]], lapsed' \subseteq Runs, faults' \in Nat
    PROVE  TypeInv'
BY WorkerMoves DEF TypeInv, TypeOK, Placed

LEMMA TypeByRow ==
    ASSUME TypeInv, UNCHANGED <<request, step, evidence, worker, calls>>,
           run' \in [Runs -> RunType], stale' \subseteq Workers, listed' \in BOOLEAN,
           lapsed' \subseteq Runs, faults' \in Nat
    PROVE  TypeInv'
BY DEF TypeInv, TypeOK, RequestType, Placed

LEMMA ReadersType ==
    ASSUME NEW r
    PROVE  ReadersOf(r) \subseteq Workers
BY DEF ReadersOf

LEMMA TypeOfOperator ==
    ASSUME TypeInv, NEW r \in Runs, CreateRun(r) \/ CancelRun(r) \/ BecomeDue(r)
    PROVE  TypeInv'
<1>1. run[r] \in RunType /\ stale \subseteq Workers /\ listed \in BOOLEAN
      /\ lapsed \subseteq Runs /\ faults \in Nat
  BY DEF TypeInv, TypeOK
<1>2. [NoRun EXCEPT !.status = "queued", !.due = TRUE] \in RunType
  <2>1. NoRun \in RunType
    BY NoRunType
  <2> QED
    BY <2>1 DEF RunType, ActiveStates
<1>3. [run[r] EXCEPT !.status = "cancelled", !.lease = Nobody, !.expired = FALSE] \in RunType
      /\ [run[r] EXCEPT !.due = TRUE] \in RunType
  BY <1>1 DEF RunType, TerminalStates
<1>4. CASE CreateRun(r)
  BY <1>1, <1>2, <1>4, RunTyped, TypeByRow DEF CreateRun
<1>5. CASE CancelRun(r)
  BY <1>1, <1>3, <1>5, RunTyped, TypeByRow, ReadersType DEF CancelRun, WriteRun
<1>6. CASE BecomeDue(r)
  BY <1>1, <1>3, <1>6, RunTyped, TypeByRow DEF BecomeDue
<1> QED
  BY <1>4, <1>5, <1>6

LEMMA TypeOfTime ==
    ASSUME TypeInv, NEW r \in Runs, ExpireLease(r)
    PROVE  TypeInv'
<1>1. run[r] \in RunType /\ stale \subseteq Workers /\ listed \in BOOLEAN
      /\ lapsed \subseteq Runs /\ faults \in Nat
  BY DEF TypeInv, TypeOK
<1>2. [run[r] EXCEPT !.expired = TRUE] \in RunType
  BY <1>1 DEF RunType
<1>3. run' \in [Runs -> RunType]
  BY <1>2, RunTyped DEF ExpireLease
<1>4. faults' \in Nat /\ lapsed' \subseteq Runs
  BY <1>1 DEF ExpireLease
<1> QED
  BY <1>1, <1>3, <1>4, TypeByRow DEF ExpireLease

LEMMA TypeOfClaim ==
    ASSUME TypeInv, NEW w \in Workers, ClaimRuns(w)
    PROVE  TypeInv'
<1>1. PICK batch \in SUBSET Due :
        /\ run' = [r \in Runs |-> IF r \in batch
                                    THEN [run[r] EXCEPT !.lease = w, !.expired = FALSE]
                                    ELSE run[r]]
        /\ worker' = [worker EXCEPT ![w].queue = batch]
        /\ stale' = stale \cup UNION {ReadersOf(r) : r \in batch}
  BY DEF ClaimRuns
<1>2. batch \subseteq Runs
  BY DEF Due, Active
<1>3. run' \in [Runs -> RunType]
  <2>1. \A r \in Runs : run[r] \in RunType
    BY DEF TypeInv, TypeOK
  <2>2. \A r \in Runs : [run[r] EXCEPT !.lease = w, !.expired = FALSE] \in RunType
    BY <2>1 DEF RunType
  <2> QED
    BY <1>1, <2>1, <2>2
<1>4. stale' \subseteq Workers
  <2>1. \A r \in batch : ReadersOf(r) \subseteq Workers
    BY ReadersType
  <2>2. stale \subseteq Workers
    BY DEF TypeInv, TypeOK
  <2> QED
    BY <1>1, <2>1, <2>2
<1> DEFINE s == [worker[w] EXCEPT !.queue = batch]
<1>5. s \in WorkerType /\ s.pc = worker[w].pc /\ s.run = worker[w].run /\ s.node = worker[w].node
  BY <1>2, WorkerFields DEF WorkerType
<1>6. Placed(s)
  BY <1>5, WorkerFields DEF Placed
<1>7. GoTo(w, s)
  BY <1>1 DEF GoTo, TypeInv, TypeOK
<1> HIDE DEF s
<1>8. RequestType' /\ UNCHANGED <<step, evidence, listed, calls, lapsed, faults>>
  BY DEF ClaimRuns, TypeInv, TypeOK, RequestType
<1> QED
  BY <1>3, <1>4, <1>5, <1>6, <1>7, <1>8, TypeByWorker DEF TypeInv, TypeOK

LEMMA TypeOfLoad ==
    ASSUME TypeInv, NEW w \in Workers, LoadRun(w)
    PROVE  TypeInv'
<1>1. PICK r \in worker[w].queue :
        \/ GoTo(w, [Idle EXCEPT !.pc = "loaded", !.run = r, !.queue = worker[w].queue \ {r}])
        \/ GoTo(w, [Idle EXCEPT !.queue = worker[w].queue \ {r}])
  BY DEF LoadRun
<1>2. r \in Runs /\ worker[w].queue \ {r} \in SUBSET Runs
  BY WorkerFields
<1> DEFINE s == [Idle EXCEPT !.pc = "loaded", !.run = r, !.queue = worker[w].queue \ {r}]
<1> DEFINE t == [Idle EXCEPT !.queue = worker[w].queue \ {r}]
<1>3. s \in WorkerType /\ s.pc = "loaded" /\ s.run = r /\ t \in WorkerType /\ t.pc = "idle"
  BY <1>2, IdleType DEF WorkerType, PCs, Idle
<1>4. Placed(s) /\ Placed(t)
  BY <1>2, <1>3 DEF Placed
<1> HIDE DEF s, t
<1>5. GoTo(w, s) \/ GoTo(w, t)
  BY <1>1 DEF s, t
<1>6. RequestType' /\ stale' \subseteq Workers
      /\ UNCHANGED <<run, step, evidence, listed, calls, lapsed, faults>>
  BY DEF LoadRun, TypeInv, TypeOK, RequestType
<1> QED
  BY <1>3, <1>4, <1>5, <1>6, TypeByWorker DEF TypeInv, TypeOK

LEMMA TypeOfBegin ==
    ASSUME TypeInv, NEW w \in Workers, BeginRun(w)
    PROVE  TypeInv'
<1> DEFINE r == worker[w].run
<1> DEFINE row == [run[r] EXCEPT !.status = "running", !.attempts = @ + 1]
<1> DEFINE s == [worker[w] EXCEPT !.pc = "step"]
<1>1. r \in Runs /\ run[r] \in RunType
  BY AtWork DEF BeginRun
<1>2. RequestType' /\ UNCHANGED <<step, evidence, listed, calls, lapsed, faults>>
  BY DEF BeginRun, TypeInv, TypeOK, RequestType
<1>3. CASE MayBegin(w, r)
  <2>1. row \in RunType
    <3>1. run[r].attempts \in 0 .. MaxRunAttempts /\ run[r].attempts < MaxRunAttempts
      BY <1>1, <1>3 DEF MayBegin, RunType
    <3>2. run[r].attempts + 1 \in 0 .. MaxRunAttempts
      BY <3>1, AttemptLimit
    <3> QED
      BY <1>1, <3>2 DEF RunType, ActiveStates
  <2>2. s \in WorkerType /\ s.pc = "step" /\ s.run = r
    BY WorkerFields DEF WorkerType, PCs
  <2>3. Placed(s)
    BY <1>1, <2>2 DEF Placed
  <2>4. run' = [run EXCEPT ![r] = row] /\ GoTo(w, s) /\ stale' = (stale \cup ReadersOf(r)) \ {w}
    BY <1>3 DEF BeginRun, WriteRun
  <2> HIDE DEF r, row, s
  <2>5. run' \in [Runs -> RunType]
    BY <1>1, <2>1, <2>4, RunTyped
  <2>6. stale' \subseteq Workers
    BY <2>4, ReadersType DEF TypeInv, TypeOK
  <2> QED
    BY <1>2, <2>2, <2>3, <2>4, <2>5, <2>6, TypeByWorker DEF TypeInv, TypeOK
<1>4. CASE ~ MayBegin(w, r)
  <2>1. GoTo(w, Return(w)) /\ UNCHANGED <<run, stale>>
    BY <1>4 DEF BeginRun
  <2> QED
    BY <1>2, <2>1, IdleType, TypeByWorker DEF TypeInv, TypeOK
<1> QED
  BY <1>3, <1>4

LEMMA TypeOfRead ==
    ASSUME TypeInv, NEW w \in Workers, ReadStep(w)
    PROVE  TypeInv'
<1> DEFINE n == Here(w)
<1> DEFINE row == step[worker[w].run][n]
<1> DEFINE more == IF row.result THEN worker[w].open \cup {n} ELSE worker[w].open
<1> DEFINE s == [worker[w] EXCEPT !.pc = "mark", !.seen = row]
<1>1. worker[w].pc = "step" /\ worker[w].node <= Len(Plan) /\ worker[w].run \in Runs
  BY AtWork DEF ReadStep
<1>2. n \in Nodes /\ row \in StepType
  BY <1>1, HereIsNode DEF TypeInv, TypeOK
<1>3. RequestType'
      /\ UNCHANGED <<run, step, evidence, stale, listed, calls, lapsed, faults>>
  BY DEF ReadStep, TypeInv, TypeOK, RequestType
<1>4. more \in SUBSET Nodes
  BY <1>2, WorkerFields
<1>5. s \in WorkerType /\ s.run = worker[w].run /\ s.node = worker[w].node
  BY <1>2, WorkerFields DEF WorkerType, PCs
<1>6. Placed(s)
  BY <1>1, <1>5 DEF Placed
<1>7. GoTo(w, After(w, more)) \/ GoTo(w, s)
  BY DEF ReadStep
<1> HIDE DEF n, row, more, s
<1>8. After(w, more) \in WorkerType /\ Placed(After(w, more))
  BY <1>1, <1>4, AfterTyped
<1> QED
  BY <1>3, <1>5, <1>6, <1>7, <1>8, TypeByWorker DEF TypeInv, TypeOK

LEMMA TypeOfMark ==
    ASSUME TypeInv, NEW w \in Workers, MarkStep(w)
    PROVE  TypeInv'
<1> DEFINE r == worker[w].run
<1> DEFINE n == Here(w)
<1> DEFINE seen == worker[w].seen
<1> DEFINE row == IF Runnable(n, worker[w].open) THEN Attempted(seen) ELSE Skipped(seen)
<1> DEFINE s == [worker[w] EXCEPT !.pc = "act"]
<1> DEFINE t == [worker[w] EXCEPT !.pc = "evidence", !.seen = row, !.outcome = "skipped"]
<1>1. r \in Runs /\ n \in Nodes /\ worker[w].node <= Len(Plan)
  BY AtWork DEF MarkStep
<1>2. row \in StepType
  BY AttemptTyped, WorkerFields
<1>3. RequestType' /\ UNCHANGED <<run, evidence, stale, listed, calls, lapsed, faults>>
  BY DEF MarkStep, TypeInv, TypeOK, RequestType
<1>4. /\ s \in WorkerType /\ s.run = r /\ s.node = worker[w].node
      /\ t \in WorkerType /\ t.run = r /\ t.node = worker[w].node
  BY <1>2, WorkerFields DEF WorkerType, PCs
<1>5. Placed(s) /\ Placed(t)
  BY <1>1, <1>4 DEF Placed
<1>6. \/ step' = [step EXCEPT ![r][n] = row] /\ (GoTo(w, s) \/ GoTo(w, t))
      \/ UNCHANGED step /\ GoTo(w, Return(w))
  BY DEF MarkStep
<1> HIDE DEF r, n, seen, row, s, t
<1>7. step' \in [Runs -> [Nodes -> StepType]]
  BY <1>1, <1>2, <1>6, StepTyped DEF TypeInv, TypeOK
<1> QED
  BY <1>3, <1>4, <1>5, <1>6, <1>7, IdleType, TypeByWorker DEF TypeInv, TypeOK

LEMMA AskApprovalType ==
    ASSUME RequestType, NEW q \in Requests, NEW o, AskApproval(q, o)
    PROVE  RequestType'
<1>1. CreateRequest(q) \/ UNCHANGED request
  BY DEF AskApproval
<1> QED
  BY <1>1, CreateRequestType DEF RequestType

\* A call either files a request for the node or leaves the requests alone.
LEMMA PerformCases ==
    ASSUME NEW r \in Runs, NEW n \in Nodes, NEW seen, NEW o, Perform(r, n, seen, o)
    PROVE  /\ CreateRequest(<<r, n>>) \/ UNCHANGED request
           /\ Kind[n] = "approval" => AskApproval(<<r, n>>, o)
<1>1. Kind[n] \in {"action", "approval", "condition", "delay"}
  BY WorkflowAssumption
<1>2. CASE Kind[n] = "approval"
  <2>1. AskApproval(<<r, n>>, o)
    BY <1>2 DEF Perform
  <2> QED
    BY <2>1 DEF AskApproval
<1>3. CASE Kind[n] = "condition"
  BY <1>3 DEF Perform
<1>4. CASE Kind[n] = "delay"
  BY <1>4 DEF Perform
<1>5. CASE Kind[n] = "action"
  BY <1>5 DEF Perform
<1> QED
  BY <1>1, <1>2, <1>3, <1>4, <1>5

LEMMA RequestOf ==
    ASSUME NEW r \in Runs, NEW n \in Nodes
    PROVE  <<r, n>> \in Requests
<1>1. Requests = Runs \X Nodes
  BY WorkflowAssumption
<1> QED
  BY <1>1

LEMMA CallsTyped ==
    ASSUME TypeInv, NEW r \in Runs, NEW n \in Nodes,
           calls' = [calls EXCEPT ![r][n] = @ + 1]
    PROVE  /\ calls' \in [Runs -> [Nodes -> Nat]]
           /\ \A q \in Runs, m \in Nodes : q # r \/ m # n => calls'[q][m] = calls[q][m]
<1>1. calls \in [Runs -> [Nodes -> Nat]]
  BY DEF TypeInv, TypeOK
<1> QED
  BY <1>1

LEMMA TypeOfCall ==
    ASSUME TypeInv, NEW w \in Workers, CallAdapter(w)
    PROVE  TypeInv'
<1> DEFINE r == worker[w].run
<1> DEFINE n == Here(w)
<1> DEFINE seen == worker[w].seen
<1>1. r \in Runs /\ n \in Nodes /\ worker[w].node <= Len(Plan)
  BY AtWork DEF CallAdapter
<1>2. PICK o \in Outcomes :
        /\ Perform(r, n, seen, o)
        /\ GoTo(w, [worker[w] EXCEPT !.pc = "record", !.seen = Attempted(seen), !.outcome = o])
  BY DEF CallAdapter
<1> DEFINE s == [worker[w] EXCEPT !.pc = "record", !.seen = Attempted(seen), !.outcome = o]
<1>3. calls' = [calls EXCEPT ![r][n] = @ + 1]
      /\ UNCHANGED <<run, step, evidence, stale, listed, lapsed, faults>>
  BY DEF CallAdapter
<1>4. s \in WorkerType /\ s.run = r /\ s.node = worker[w].node
  BY WorkerFields, AttemptTyped DEF WorkerType, PCs
<1>5. Placed(s)
  BY <1>1, <1>4 DEF Placed
<1>6. GoTo(w, s)
  BY <1>2
<1> HIDE DEF r, n, seen, s
<1>7. RequestType'
  BY <1>1, <1>2, PerformCases, RequestOf, CreateRequestType DEF TypeInv, TypeOK, RequestType
<1>8. calls' \in [Runs -> [Nodes -> Nat]]
  BY <1>1, <1>3, CallsTyped
<1> QED
  BY <1>3, <1>4, <1>5, <1>6, <1>7, <1>8, TypeByWorker DEF TypeInv, TypeOK

LEMMA TypeOfRecord ==
    ASSUME TypeInv, NEW w \in Workers, RecordStep(w)
    PROVE  TypeInv'
<1> DEFINE r == worker[w].run
<1> DEFINE n == Here(w)
<1> DEFINE row == Recorded(n, worker[w].seen, worker[w].outcome)
<1> DEFINE s == [worker[w] EXCEPT !.pc = "evidence", !.seen = row]
<1>1. r \in Runs /\ n \in Nodes /\ worker[w].node <= Len(Plan)
  BY AtWork DEF RecordStep
<1>2. row \in StepType
  BY <1>1, AttemptTyped, WorkerFields
<1>3. RequestType' /\ UNCHANGED <<run, evidence, stale, listed, calls, lapsed, faults>>
  BY DEF RecordStep, TypeInv, TypeOK, RequestType
<1>4. s \in WorkerType /\ s.run = r /\ s.node = worker[w].node
  BY <1>2, WorkerFields DEF WorkerType, PCs
<1>5. Placed(s)
  BY <1>1, <1>4 DEF Placed
<1>6. \/ step' = [step EXCEPT ![r][n] = row] /\ GoTo(w, s)
      \/ UNCHANGED step /\ GoTo(w, Return(w))
  BY DEF RecordStep
<1> HIDE DEF r, n, row, s
<1>7. step' \in [Runs -> [Nodes -> StepType]]
  BY <1>1, <1>2, <1>6, StepTyped DEF TypeInv, TypeOK
<1> QED
  BY <1>3, <1>4, <1>5, <1>6, <1>7, IdleType, TypeByWorker DEF TypeInv, TypeOK

LEMMA TypeOfEvidence ==
    ASSUME TypeInv, NEW w \in Workers, AppendEvidence(w)
    PROVE  TypeInv'
<1> DEFINE n == Here(w)
<1> DEFINE more == IF worker[w].seen.result THEN worker[w].open \cup {n} ELSE worker[w].open
<1> DEFINE s == [worker[w] EXCEPT !.pc = "release"]
<1>1. worker[w].run \in Runs /\ n \in Nodes /\ worker[w].node <= Len(Plan) /\ worker[w].pc # "idle"
  BY AtWork DEF AppendEvidence
<1>2. RequestType' /\ UNCHANGED <<run, step, stale, listed, calls, lapsed, faults>>
  BY DEF AppendEvidence, TypeInv, TypeOK, RequestType
<1>3. evidence' \subseteq Runs \X Nodes
  BY <1>1 DEF AppendEvidence, TypeInv, TypeOK
<1>4. more \in SUBSET Nodes
  BY <1>1, WorkerFields
<1>5. s \in WorkerType /\ s.run = worker[w].run /\ s.node = worker[w].node
  BY WorkerFields DEF WorkerType, PCs
<1>6. Placed(s)
  BY <1>1, <1>5 DEF Placed
<1>7. GoTo(w, After(w, more)) \/ GoTo(w, s)
  BY DEF AppendEvidence
<1> HIDE DEF n, more, s
<1>8. After(w, more) \in WorkerType /\ Placed(After(w, more))
  BY <1>1, <1>4, AfterTyped
<1> QED
  BY <1>2, <1>3, <1>5, <1>6, <1>7, <1>8, TypeByWorker DEF TypeInv, TypeOK

LEMMA TypeOfRelease ==
    ASSUME TypeInv, NEW w \in Workers, NEW status, ReleaseAs(w, status),
           worker[w].pc # "idle"
    PROVE  TypeInv'
<1> DEFINE r == worker[w].run
<1>1. r \in Runs /\ run[r] \in RunType
  BY AtWork
<1>2. RequestType' /\ GoTo(w, Return(w))
      /\ UNCHANGED <<step, evidence, listed, calls, lapsed, faults>>
  BY DEF ReleaseAs, TypeInv, TypeOK, RequestType
<1>3. run' \in [Runs -> RunType] /\ stale' \subseteq Workers
  <2>1. CASE RunGuard(run[r].status, status)
             /\ run' = [run EXCEPT ![r] = Released(run[r], status)]
             /\ stale' = stale \cup ReadersOf(r)
    <3>1. Released(run[r], status) \in RunType
      BY <1>1, <2>1 DEF Released, RunType, RunGuard, TerminalStates, ActiveStates
    <3> QED
      BY <1>1, <2>1, <3>1, RunTyped, ReadersType DEF TypeInv, TypeOK
  <2>2. CASE UNCHANGED <<run, stale>>
    BY <2>2 DEF TypeInv, TypeOK
  <2> QED
    BY <2>1, <2>2 DEF ReleaseAs, WriteRun
<1> QED
  BY <1>2, <1>3, IdleType, TypeByWorker DEF TypeInv, TypeOK

LEMMA TypeOfFault ==
    ASSUME TypeInv, NEW w \in Workers, StoreFails(w) \/ Crash(w)
    PROVE  TypeInv'
<1>1. Faulty(w, Return(w)) \/ Faulty(w, Idle)
  BY DEF StoreFails, Crash
<1>2. /\ RequestType' /\ faults' \in Nat
      /\ UNCHANGED <<run, step, evidence, stale, listed, calls, lapsed>>
      /\ GoTo(w, Return(w)) \/ GoTo(w, Idle)
  BY <1>1 DEF Faulty, TypeInv, TypeOK, RequestType
<1> QED
  BY <1>2, IdleType, TypeByWorker DEF TypeInv, TypeOK

LEMMA TypeOfOthers ==
    ASSUME TypeInv, List \/ Decide \/ Deadline
    PROVE  TypeInv'
<1>1. RequestType'
  BY DecisionType, DeadlineType DEF List, Decide, Deadline, TypeInv, TypeOK, RequestType
<1>2. listed' \in BOOLEAN
      /\ UNCHANGED <<run, step, evidence, worker, stale, calls, lapsed, faults>>
  BY DEF List, Decide, Deadline, TypeInv, TypeOK
<1> QED
  BY <1>1, <1>2 DEF TypeInv, TypeOK, Placed

LEMMA TypeStep ==
    ASSUME TypeInv, [Next]_vars
    PROVE  TypeInv'
<1>1. ASSUME NEW r \in Runs, CreateRun(r) \/ CancelRun(r) \/ BecomeDue(r) \/ ExpireLease(r)
      PROVE  TypeInv'
  BY <1>1, TypeOfOperator, TypeOfTime
<1>2. ASSUME NEW w \in Workers, Execute(w)
      PROVE  TypeInv'
  BY <1>2, TypeOfLoad, TypeOfBegin, TypeOfRead, TypeOfMark, TypeOfCall, TypeOfRecord,
     TypeOfEvidence, TypeOfRelease DEF Execute, ReleaseRun, FinishRun
<1>3. ASSUME NEW w \in Workers, ClaimRuns(w) \/ StoreFails(w) \/ Crash(w)
      PROVE  TypeInv'
  BY <1>3, TypeOfClaim, TypeOfFault
<1>4. CASE UNCHANGED vars
  BY <1>4 DEF vars, TypeInv, TypeOK, RequestType, Placed
<1> QED
  BY <1>1, <1>2, <1>3, <1>4, TypeOfOthers DEF Next

LEMMA TypeInit ==
    ASSUME Init
    PROVE  TypeInv
<1>1. NoRun \in RunType
  BY NoRunType
<1>2. NoStep \in StepType
  BY DEF NoStep, StepType
<1>3. NoRequest \in RequestRecord
  <2>1. 1 \in 1 .. Len(Stages)
    BY StagesType
  <2> QED
    BY <2>1 DEF NoRequest, RequestRecord, RequestStates
<1>4. RequestType
  BY <1>3 DEF Init, InitRequest, RequestType, RequestRecord
<1>5. run \in [Runs -> RunType] /\ step \in [Runs -> [Nodes -> StepType]]
      /\ worker \in [Workers -> WorkerType] /\ \A w \in Workers : Placed(worker[w])
  BY <1>1, <1>2, IdleType DEF Init
<1> QED
  BY <1>4, <1>5 DEF Init, TypeInv, TypeOK

(* TypeOK holds of every reachable state: in particular no execution is    *)
(* begun beyond the attempts the column can count.                         *)
THEOREM WorkflowTypeCorrect == Spec => []TypeOK
<1>1. Init => TypeInv
  BY TypeInit
<1>2. TypeInv /\ [Next]_vars => TypeInv'
  BY TypeStep
<1>3. TypeInv => TypeOK
  BY DEF TypeInv
<1> QED
  BY <1>1, <1>2, <1>3, PTL DEF Spec

(***************************************************************************)
(* A plan that is not the published one.                                   *)
(***************************************************************************)
Unbegun(row) ==
    row.status \in {"absent", "queued", "cancelled"} /\ row.attempts = 0

NeverBegun ==
    /\ \A r \in Runs : Unbegun(run[r])
    /\ \A w \in Workers : worker[w].pc \in {"idle", "loaded"}

LEMMA NeverBegunStep ==
    ASSUME ~ PlanIntact, TypeInv, NeverBegun, [Next]_vars
    PROVE  NeverBegun'
<1>1. run \in [Runs -> RunType] /\ worker \in [Workers -> WorkerType]
  BY DEF TypeInv, TypeOK
<1>2. \A w \in Workers : Return(w).pc = "idle" /\ Idle.pc = "idle"
  BY DEF Return, Idle
<1>3. ASSUME NEW r \in Runs, CreateRun(r) \/ CancelRun(r) \/ BecomeDue(r) \/ ExpireLease(r)
      PROVE  NeverBegun'
  <2> DEFINE created   == [NoRun EXCEPT !.status = "queued", !.due = TRUE]
  <2> DEFINE cancelled == [run[r] EXCEPT !.status = "cancelled", !.lease = Nobody,
                                         !.expired = FALSE]
  <2> DEFINE due       == [run[r] EXCEPT !.due = TRUE]
  <2> DEFINE expired   == [run[r] EXCEPT !.expired = TRUE]
  <2>1. run[r] \in RunType /\ Unbegun(run[r])
    BY <1>1 DEF NeverBegun
  <2>2. Unbegun(created) /\ Unbegun(cancelled) /\ Unbegun(due) /\ Unbegun(expired)
    BY <2>1 DEF NoRun, RunType, Unbegun
  <2>3. \E row \in {created, cancelled, due, expired} : run' = [run EXCEPT ![r] = row]
    BY <1>3 DEF CreateRun, CancelRun, BecomeDue, ExpireLease, WriteRun
  <2> HIDE DEF created, cancelled, due, expired
  <2>4. PICK row : run' = [run EXCEPT ![r] = row] /\ Unbegun(row)
    BY <2>2, <2>3
  <2>5. \A q \in Runs : Unbegun(run'[q])
    BY <1>1, <2>4 DEF NeverBegun
  <2>6. UNCHANGED worker
    BY <1>3 DEF CreateRun, CancelRun, BecomeDue, ExpireLease
  <2> QED
    BY <2>5, <2>6 DEF NeverBegun
<1>4. ASSUME NEW w \in Workers, ClaimRuns(w)
      PROVE  NeverBegun'
  <2>1. \A r \in Runs : Unbegun([run[r] EXCEPT !.lease = w, !.expired = FALSE])
    <3>1. \A r \in Runs : run[r] \in RunType /\ Unbegun(run[r])
      BY <1>1 DEF NeverBegun
    <3> QED
      BY <3>1 DEF Unbegun, RunType
  <2>2. \A r \in Runs : \/ run'[r] = run[r]
                        \/ run'[r] = [run[r] EXCEPT !.lease = w, !.expired = FALSE]
    BY <1>4 DEF ClaimRuns
  <2>3. \A r \in Runs : Unbegun(run'[r])
    BY <2>1, <2>2 DEF NeverBegun
  <2>4. \E batch : worker' = [worker EXCEPT ![w].queue = batch]
    BY <1>4 DEF ClaimRuns
  <2>5. \A v \in Workers : worker'[v].pc = worker[v].pc
    BY <1>1, <2>4 DEF WorkerType
  <2> QED
    BY <2>3, <2>5 DEF NeverBegun
<1>5. ASSUME NEW w \in Workers, LoadRun(w)
      PROVE  NeverBegun'
  BY <1>1, <1>5 DEF NeverBegun, LoadRun, GoTo, Idle
<1>6. ASSUME NEW w \in Workers, BeginRun(w)
      PROVE  NeverBegun'
  <2>1. ~ MayBegin(w, worker[w].run)
    BY DEF MayBegin
  <2>2. GoTo(w, Return(w)) /\ UNCHANGED run
    BY <1>6, <2>1 DEF BeginRun
  <2> QED
    BY <1>1, <1>2, <2>2 DEF GoTo, NeverBegun
<1>7. ASSUME NEW w \in Workers, Execute(w), ~ LoadRun(w), ~ BeginRun(w)
      PROVE  FALSE
  BY <1>7 DEF NeverBegun, Execute, ReadStep, MarkStep, CallAdapter, RecordStep, AppendEvidence,
     ReleaseRun, FinishRun
<1>8. ASSUME NEW w \in Workers, StoreFails(w) \/ Crash(w)
      PROVE  NeverBegun'
  BY <1>1, <1>2, <1>8 DEF NeverBegun, StoreFails, Crash, Faulty, GoTo
<1>9. CASE List \/ Decide \/ Deadline \/ UNCHANGED vars
  BY <1>9 DEF NeverBegun, List, Decide, Deadline, vars
<1> QED
  BY <1>3, <1>4, <1>5, <1>6, <1>7, <1>8, <1>9 DEF Next

LeftQueued ==
    \A r \in Runs :
        /\ run[r].status \in {"absent", "queued", "cancelled"}
        /\ run[r].status = "queued" => ~ RunGuard("queued", "failed")

(* When the stored definition does not compile to the published digest,    *)
(* none of its runs is ever begun or ends but by an operator's cancel: the *)
(* release as failed that Execute means for it (engine.go, plan_invalid)   *)
(* is one the row's guard refuses of a queued run.                         *)
THEOREM ChangedPlanNeverRuns ==
    ASSUME ~ PlanIntact
    PROVE  Spec => []LeftQueued
<1>1. Init => TypeInv /\ NeverBegun
  <2>1. Init => NeverBegun
    BY DEF Init, NeverBegun, Unbegun, NoRun, Idle
  <2> QED
    BY <2>1, TypeInit
<1>2. TypeInv /\ NeverBegun /\ [Next]_vars => (TypeInv /\ NeverBegun)'
  BY TypeStep, NeverBegunStep
<1>3. NeverBegun => LeftQueued
  BY DEF NeverBegun, Unbegun, LeftQueued, RunGuard
<1> QED
  BY <1>1, <1>2, <1>3, PTL DEF Spec

(***************************************************************************)
(* FlowInv.  What a worker carries with it through an execution stays true *)
(* because settled steps and approvals never change: the nodes behind it   *)
(* are settled, the open ones completed with a result that opens, and what *)
(* it is about to record or release is what it saw.                        *)
(***************************************************************************)
Settled == {"completed", "skipped", "failed"}
Passed  == {"completed", "skipped"}

Opens(r, n) == step[r][n].status = "completed" /\ step[r][n].result

Opened(r, n) ==
    Parents(n) # {} => \E e \in Parents(n) : e[3] # "false" /\ Opens(r, e[1])

Approved(r, n) == request[<<r, n>>].state = "approved"

BehindSettled(s) ==
    /\ \A i \in 1 .. Len(Plan) : i < s.node => step[s.run][Plan[i]].status \in Passed
    /\ \A n \in s.open : Opens(s.run, n)

Carries(s) ==
    LET n == Plan[s.node]
    IN  /\ s.pc = "mark" => s.seen.status \notin Passed
        /\ s.pc \in {"act", "record"} => Opened(s.run, n)
        /\ s.pc = "record" =>
              /\ s.seen.status = "running"
              /\ s.outcome \in Outcomes
              /\ Kind[n] = "approval" /\ s.outcome = "completed" => Approved(s.run, n)
        /\ s.pc = "evidence" /\ s.outcome \in Settled =>
              step[s.run][n] = s.seen /\ s.seen.status = s.outcome
        /\ s.pc = "release" =>
              /\ s.outcome \notin Passed
              /\ s.outcome = "failed" => step[s.run][n].status = "failed"

WorkerOK(s) ==
    /\ s.pc = "loaded" => s.node = 1 /\ s.open = {}
    /\ s.pc \in {"step", "mark", "act", "record", "evidence", "release"} =>
          BehindSettled(s) /\ Carries(s)

RowsOK ==
    \A r \in Runs, n \in Nodes :
        /\ calls[r][n] > 0 => Opened(r, n)
        /\ step[r][n].result => step[r][n].status = "completed"
        /\ Kind[n] = "approval" /\ step[r][n].status = "completed" => Approved(r, n)

FlowInv ==
    /\ \A w \in Workers : WorkerOK(worker[w])
    /\ RowsOK
    /\ EndsWithItsSteps

\* No step un-settles and no approval is taken back.
Grows ==
    /\ \A r \in Runs, n \in Nodes :
          step[r][n].status \in Settled => step'[r][n] = step[r][n]
    /\ \A q \in Requests : request[q].state = "approved" => request'[q].state = "approved"

LEMMA EdgeNodes ==
    ASSUME NEW n, NEW e \in Parents(n)
    PROVE  e[1] \in Nodes
<1>1. \E i, j \in 1 .. Len(Plan) : i < j /\ e[1] = Plan[i] /\ e[2] = Plan[j]
  BY WorkflowAssumption DEF Parents
<1> QED
  BY <1>1 DEF Nodes

LEMMA OpensStays ==
    ASSUME Grows, NEW r \in Runs, NEW n \in Nodes, Opens(r, n)
    PROVE  Opens(r, n)'
BY DEF Grows, Opens, Settled

LEMMA OpenedStays ==
    ASSUME Grows, NEW r \in Runs, NEW n \in Nodes, Opened(r, n)
    PROVE  Opened(r, n)'
<1>1. CASE Parents(n) = {}
  BY <1>1 DEF Opened, Parents
<1>2. CASE Parents(n) # {}
  <2>1. PICK e \in Parents(n) : e[3] # "false" /\ Opens(r, e[1])
    BY <1>2 DEF Opened
  <2>2. Opens(r, e[1])'
    BY <2>1, EdgeNodes, OpensStays
  <2> QED
    BY <2>1, <2>2 DEF Opened, Parents
<1> QED
  BY <1>1, <1>2

LEMMA ApprovedStays ==
    ASSUME Grows, NEW r \in Runs, NEW n \in Nodes, Approved(r, n)
    PROVE  Approved(r, n)'
BY RequestOf DEF Grows, Approved

LEMMA BehindStays ==
    ASSUME Grows, NEW s \in WorkerType, s.run \in Runs, BehindSettled(s)
    PROVE  BehindSettled(s)'
<1>1. \A i \in 1 .. Len(Plan) : i < s.node => step'[s.run][Plan[i]].status \in Passed
  BY NodeAt DEF Grows, BehindSettled, Passed, Settled
<1>2. \A n \in s.open : n \in Nodes
  BY DEF WorkerType
<1> HIDE DEF Opens
<1>3. \A n \in s.open : Opens(s.run, n)'
  BY <1>2, OpensStays DEF BehindSettled
<1> QED
  BY <1>1, <1>3 DEF BehindSettled

\* A worker that does not move keeps what it carries.
LEMMA WorkerStays ==
    ASSUME Grows, NEW s \in WorkerType, Placed(s), WorkerOK(s)
    PROVE  WorkerOK(s)'
<1> SUFFICES ASSUME s.pc \in {"step", "mark", "act", "record", "evidence", "release"}
             PROVE  BehindSettled(s)' /\ Carries(s)'
  BY DEF WorkerOK
<1>1. s.run \in Runs /\ BehindSettled(s) /\ Carries(s)
  BY DEF Placed, WorkerOK
<1>2. BehindSettled(s)'
  BY <1>1, BehindStays
<1>3. ASSUME s.pc # "step" PROVE Plan[s.node] \in Nodes
  <2>1. s.node <= Len(Plan) /\ s.node \in 1 .. Len(Plan) + 1
    BY <1>3 DEF Placed, WorkerType
  <2>2. s.node \in 1 .. Len(Plan)
    BY <2>1, PlanLength
  <2> QED
    BY <2>2, NodeAt
<1>4. Carries(s)'
  <2>1. s.pc = "mark" => s.seen.status \notin Passed
    BY <1>1 DEF Carries
  <2>2. s.pc \in {"act", "record"} => Opened(s.run, Plan[s.node])'
    BY <1>1, <1>3, OpenedStays DEF Carries
  <2>3. s.pc = "record" =>
          /\ s.seen.status = "running" /\ s.outcome \in Outcomes
          /\ Kind[Plan[s.node]] = "approval" /\ s.outcome = "completed" =>
                Approved(s.run, Plan[s.node])'
    BY <1>1, <1>3, ApprovedStays DEF Carries
  <2>4. s.pc = "evidence" /\ s.outcome \in Settled =>
          step'[s.run][Plan[s.node]] = s.seen /\ s.seen.status = s.outcome
    BY <1>1, <1>3 DEF Carries, Grows
  <2>5. s.pc = "release" =>
          /\ s.outcome \notin Passed
          /\ s.outcome = "failed" => step'[s.run][Plan[s.node]].status = "failed"
    BY <1>1, <1>3 DEF Carries, Grows, Settled
  <2> QED
    BY <2>1, <2>2, <2>3, <2>4, <2>5 DEF Carries
<1> QED
  BY <1>2, <1>4

LEMMA RowsStay ==
    ASSUME Grows, RowsOK, NEW r \in Runs, NEW n \in Nodes,
           calls'[r][n] = calls[r][n], step'[r][n] = step[r][n]
    PROVE  /\ calls'[r][n] > 0 => Opened(r, n)'
           /\ step'[r][n].result => step'[r][n].status = "completed"
           /\ Kind[n] = "approval" /\ step'[r][n].status = "completed" => Approved(r, n)'
BY OpenedStays, ApprovedStays DEF RowsOK

LEMMA EndsStay ==
    ASSUME Grows, EndsWithItsSteps, NEW r \in Runs, run'[r].status = run[r].status
    PROVE  /\ run'[r].status = "completed" =>
                 \A n \in Nodes : step'[r][n].status \in Passed
           /\ run'[r].status = "failed" => \E n \in Nodes : step'[r][n].status = "failed"
BY DEF EndsWithItsSteps, Grows, Settled, Passed

LEMMA NobodyAtWork ==
    ASSUME NEW s, s.pc = "idle"
    PROVE  WorkerOK(s)'
BY DEF WorkerOK

LEMMA FlowByWorker ==
    ASSUME TypeInv, FlowInv, Grows, NEW w \in Workers, NEW s \in WorkerType, Placed(s),
           GoTo(w, s), WorkerOK(s)', RowsOK', EndsWithItsSteps'
    PROVE  FlowInv'
<1>1. worker'[w] = s /\ \A v \in Workers \ {w} : worker'[v] = worker[v]
  BY WorkerMoves
<1>2. ASSUME NEW v \in Workers \ {w} PROVE WorkerOK(worker[v])'
  <2> DEFINE t == worker[v]
  <2>1. t \in WorkerType /\ Placed(t) /\ WorkerOK(t)
    BY WorkerFields DEF FlowInv
  <2>2. worker'[v] = t
    BY <1>1
  <2> HIDE DEF t
  <2>3. PICK u \in WorkerType : u = t
    BY <2>1
  <2>4. WorkerOK(u)'
    BY <2>1, <2>3, WorkerStays
  <2> QED
    BY <2>2, <2>3, <2>4 DEF WorkerOK, BehindSettled, Carries, Opens, Opened, Approved
<1> QED
  BY <1>1, <1>2 DEF FlowInv

LEMMA GrowsIfSame ==
    ASSUME UNCHANGED <<step, request>>
    PROVE  Grows
BY DEF Grows

LEMMA RequestGrows ==
    ASSUME RequestType, UNCHANGED step,
           \/ UNCHANGED request
           \/ Decision
           \/ \E q \in Requests : CreateRequest(q) \/ PassDeadline(q)
    PROVE  Grows
<1> SUFFICES ASSUME NEW q \in Requests, request[q].state = "approved"
             PROVE  request'[q].state = "approved"
  BY DEF Grows
<1>0. request \in [Requests -> RequestRecord]
  BY RequestTypeRecord
<1>1. CASE UNCHANGED request
  BY <1>1
<1>2. CASE Decision
  <2>1. PICK p \in Requests, a \in Actors : Approve(p, a) \/ Reject(p, a)
    BY <1>2 DEF Decision
  <2>2. p # q
    BY <2>1 DEF Approve, Reject, MayDecide
  <2> QED
    BY <1>0, <2>1, <2>2 DEF Approve, Reject
<1>3. CASE \E p \in Requests : CreateRequest(p) \/ PassDeadline(p)
  <2>1. PICK p \in Requests : CreateRequest(p) \/ PassDeadline(p)
    BY <1>3
  <2>2. p # q
    BY <2>1 DEF CreateRequest, PassDeadline
  <2> QED
    BY <1>0, <2>1, <2>2 DEF CreateRequest, PassDeadline
<1> QED
  BY <1>1, <1>2, <1>3

LEMMA RowsKept ==
    ASSUME Grows, RowsOK, UNCHANGED <<step, calls>>
    PROVE  RowsOK'
<1> SUFFICES ASSUME NEW r \in Runs, NEW n \in Nodes
             PROVE  /\ calls'[r][n] > 0 => Opened(r, n)'
                    /\ step'[r][n].result => step'[r][n].status = "completed"
                    /\ Kind[n] = "approval" /\ step'[r][n].status = "completed" =>
                          Approved(r, n)'
  BY DEF RowsOK
<1> QED
  BY RowsStay

LEMMA EndsKept ==
    ASSUME Grows, EndsWithItsSteps,
           \A r \in Runs : \/ run'[r].status = run[r].status
                           \/ run'[r].status \notin {"completed", "failed"}
    PROVE  EndsWithItsSteps'
<1> SUFFICES ASSUME NEW r \in Runs
             PROVE  /\ run'[r].status = "completed" =>
                          \A n \in Nodes : step'[r][n].status \in {"completed", "skipped"}
                    /\ run'[r].status = "failed" =>
                          \E n \in Nodes : step'[r][n].status = "failed"
  BY DEF EndsWithItsSteps
<1> QED
  BY EndsStay DEF Passed

\* Actions that touch only the rows of runs, or the requests.
LEMMA FlowWithoutWorker ==
    ASSUME TypeInv, FlowInv, Grows, UNCHANGED <<step, calls, worker>>,
           \A r \in Runs : \/ run'[r].status = run[r].status
                           \/ run'[r].status \notin {"completed", "failed"}
    PROVE  FlowInv'
<1>1. RowsOK' /\ EndsWithItsSteps'
  BY RowsKept, EndsKept DEF FlowInv
<1>2. ASSUME NEW v \in Workers PROVE WorkerOK(worker[v])'
  <2>1. PICK u \in WorkerType : u = worker[v]
    BY WorkerFields
  <2>2. Placed(u) /\ WorkerOK(u)
    BY <2>1, WorkerFields DEF FlowInv
  <2>3. WorkerOK(u)'
    BY <2>2, WorkerStays
  <2>4. worker'[v] = u
    BY <2>1
  <2> QED
    BY <2>3, <2>4 DEF WorkerOK, BehindSettled, Carries, Opens, Opened, Approved
<1> QED
  BY <1>1, <1>2 DEF FlowInv

LEMMA FlowOfRows ==
    ASSUME TypeInv, FlowInv, NEW r \in Runs,
           CreateRun(r) \/ CancelRun(r) \/ BecomeDue(r) \/ ExpireLease(r)
    PROVE  FlowInv'
<1>1. run \in [Runs -> RunType]
  BY DEF TypeInv, TypeOK
<1>2. \A q \in Runs : \/ run'[q].status = run[q].status
                      \/ run'[q].status \notin {"completed", "failed"}
  <2> SUFFICES ASSUME NEW q \in Runs
               PROVE  \/ run'[q].status = run[q].status
                      \/ run'[q].status \notin {"completed", "failed"}
    OBVIOUS
  <2>1. run[q] \in RunType /\ run[r] \in RunType
    BY <1>1
  <2>2. CASE CreateRun(r)
    BY <1>1, <2>1, <2>2 DEF CreateRun, NoRun, RunType
  <2>3. CASE CancelRun(r)
    BY <1>1, <2>1, <2>3 DEF CancelRun, WriteRun, RunType
  <2>4. CASE BecomeDue(r)
    BY <1>1, <2>1, <2>4 DEF BecomeDue, RunType
  <2>5. CASE ExpireLease(r)
    BY <1>1, <2>1, <2>5 DEF ExpireLease, RunType
  <2> QED
    BY <2>2, <2>3, <2>4, <2>5
<1>3. UNCHANGED <<request, step, calls, worker>>
  BY DEF CreateRun, CancelRun, BecomeDue, ExpireLease
<1> QED
  BY <1>2, <1>3, GrowsIfSame, FlowWithoutWorker

LEMMA FlowOfRequests ==
    ASSUME TypeInv, FlowInv, List \/ Decide \/ Deadline
    PROVE  FlowInv'
<1>1. UNCHANGED <<run, step, calls, worker>>
  BY DEF List, Decide, Deadline
<1>2. \/ UNCHANGED request
      \/ Decision
      \/ \E q \in Requests : CreateRequest(q) \/ PassDeadline(q)
  BY DEF List, Decide, Deadline
<1>3. Grows
  BY <1>1, <1>2, RequestGrows DEF TypeInv, TypeOK
<1> QED
  BY <1>1, <1>3, FlowWithoutWorker

LEMMA FlowToIdle ==
    ASSUME TypeInv, FlowInv, NEW w \in Workers, NEW s \in WorkerType, s.pc = "idle",
           GoTo(w, s), UNCHANGED <<request, run, step, calls>>
    PROVE  FlowInv'
<1>1. Grows
  BY GrowsIfSame
<1>2. RowsOK' /\ EndsWithItsSteps'
  BY <1>1, RowsKept, EndsKept DEF FlowInv
<1>3. Placed(s) /\ WorkerOK(s)'
  BY NobodyAtWork DEF Placed
<1> QED
  BY <1>1, <1>2, <1>3, FlowByWorker

LEMMA ReturnIdle ==
    ASSUME TypeInv, NEW w \in Workers
    PROVE  Return(w) \in WorkerType /\ Return(w).pc = "idle" /\ Idle.pc = "idle"
BY IdleType DEF Return, Idle

LEMMA FlowOfFault ==
    ASSUME TypeInv, FlowInv, NEW w \in Workers, StoreFails(w) \/ Crash(w)
    PROVE  FlowInv'
<1>1. UNCHANGED <<request, run, step, calls>> /\ (GoTo(w, Return(w)) \/ GoTo(w, Idle))
  BY DEF StoreFails, Crash, Faulty
<1> QED
  BY <1>1, IdleType, ReturnIdle, FlowToIdle

LEMMA FlowOfClaim ==
    ASSUME TypeInv, FlowInv, NEW w \in Workers, ClaimRuns(w)
    PROVE  FlowInv'
<1>1. PICK batch \in SUBSET Due :
        /\ run' = [r \in Runs |-> IF r \in batch
                                    THEN [run[r] EXCEPT !.lease = w, !.expired = FALSE]
                                    ELSE run[r]]
        /\ worker' = [worker EXCEPT ![w].queue = batch]
  BY DEF ClaimRuns
<1>2. batch \subseteq Runs /\ worker[w].pc = "idle" /\ UNCHANGED <<request, step, calls>>
  BY DEF Due, Active, ClaimRuns
<1>3. PICK u : u = [worker[w] EXCEPT !.queue = batch]
  OBVIOUS
<1>4. u \in WorkerType /\ u.pc = "idle"
  BY <1>2, <1>3, WorkerFields DEF WorkerType
<1>5. GoTo(w, u)
  BY <1>1, <1>3 DEF GoTo, TypeInv, TypeOK
<1>6. \A r \in Runs : run'[r].status = run[r].status
  <2>1. \A r \in Runs : run[r] \in RunType
    BY DEF TypeInv, TypeOK
  <2>2. \A r \in Runs : [run[r] EXCEPT !.lease = w, !.expired = FALSE].status = run[r].status
    BY <2>1 DEF RunType
  <2> QED
    BY <1>1, <2>2
<1>7. Grows
  BY <1>2, GrowsIfSame
<1>8. RowsOK' /\ EndsWithItsSteps'
  BY <1>2, <1>6, <1>7, RowsKept, EndsKept DEF FlowInv
<1>9. Placed(u) /\ WorkerOK(u)'
  BY <1>4, NobodyAtWork DEF Placed
<1> QED
  BY <1>4, <1>5, <1>7, <1>8, <1>9, FlowByWorker

LEMMA FlowOfLoad ==
    ASSUME TypeInv, FlowInv, NEW w \in Workers, LoadRun(w)
    PROVE  FlowInv'
<1>1. PICK r \in worker[w].queue :
        \/ GoTo(w, [Idle EXCEPT !.pc = "loaded", !.run = r, !.queue = worker[w].queue \ {r}])
        \/ GoTo(w, [Idle EXCEPT !.queue = worker[w].queue \ {r}])
  BY DEF LoadRun
<1>2. r \in Runs /\ worker[w].queue \ {r} \in SUBSET Runs
      /\ UNCHANGED <<request, run, step, calls>>
  BY WorkerFields DEF LoadRun
<1>3. PICK u, t : /\ u = [Idle EXCEPT !.pc = "loaded", !.run = r, !.queue = worker[w].queue \ {r}]
                  /\ t = [Idle EXCEPT !.queue = worker[w].queue \ {r}]
  OBVIOUS
<1>4. /\ u \in WorkerType /\ u.pc = "loaded" /\ u.run = r /\ u.node = 1 /\ u.open = {}
      /\ t \in WorkerType /\ t.pc = "idle"
  BY <1>2, <1>3, IdleType DEF WorkerType, PCs, Idle
<1>5. CASE GoTo(w, t)
  BY <1>2, <1>4, <1>5, FlowToIdle
<1>6. CASE GoTo(w, u)
  <2>1. Grows
    BY <1>2, GrowsIfSame
  <2>2. RowsOK' /\ EndsWithItsSteps'
    BY <1>2, <2>1, RowsKept, EndsKept DEF FlowInv
  <2>3. Placed(u) /\ WorkerOK(u)'
    BY <1>2, <1>4 DEF Placed, WorkerOK
  <2> QED
    BY <1>4, <1>6, <2>1, <2>2, <2>3, FlowByWorker
<1> QED
  BY <1>1, <1>3, <1>5, <1>6

LEMMA FlowOfBegin ==
    ASSUME TypeInv, FlowInv, NEW w \in Workers, BeginRun(w)
    PROVE  FlowInv'
<1>1. PICK r \in Runs : r = worker[w].run /\ run[r] \in RunType
  BY AtWork DEF BeginRun
<1>2. worker[w].pc = "loaded" /\ UNCHANGED <<request, step, calls>>
  BY DEF BeginRun
<1>3. CASE ~ MayBegin(w, r)
  <2>1. GoTo(w, Return(w)) /\ UNCHANGED run
    BY <1>1, <1>3 DEF BeginRun
  <2> QED
    BY <1>2, <2>1, ReturnIdle, FlowToIdle
<1>4. CASE MayBegin(w, r)
  <2>1. PICK u : u = [worker[w] EXCEPT !.pc = "step"]
    OBVIOUS
  <2>2. /\ GoTo(w, u)
        /\ run' = [run EXCEPT ![r] = [run[r] EXCEPT !.status = "running", !.attempts = @ + 1]]
    BY <1>1, <1>4, <2>1 DEF BeginRun, WriteRun
  <2>3. worker[w].node = 1 /\ worker[w].open = {}
    BY <1>2 DEF FlowInv, WorkerOK
  <2>4. u \in WorkerType /\ u.pc = "step" /\ u.run = r /\ u.node = 1 /\ u.open = {}
    BY <1>1, <2>1, <2>3, WorkerFields DEF WorkerType, PCs
  <2>5. Grows
    BY <1>2, GrowsIfSame
  <2>6. \A q \in Runs : run'[q].status = run[q].status \/ run'[q].status = "running"
    BY <1>1, <2>2 DEF TypeInv, TypeOK, RunType
  <2>7. RowsOK' /\ EndsWithItsSteps'
    BY <1>2, <2>5, <2>6, RowsKept, EndsKept DEF FlowInv
  <2>8. Placed(u)
    BY <2>4 DEF Placed
  <2>9. WorkerOK(u)'
    BY <2>4 DEF WorkerOK, BehindSettled, Carries
  <2> QED
    BY <2>2, <2>4, <2>5, <2>7, <2>8, <2>9, FlowByWorker
<1> QED
  BY <1>3, <1>4

\* A step that is not settled is written; no request or count changes.
LEMMA StepWritten ==
    ASSUME TypeInv, RowsOK, NEW r \in Runs, NEW n \in Nodes, NEW row \in StepType,
           step' = [step EXCEPT ![r][n] = row], step[r][n].status \notin Settled,
           UNCHANGED <<request, calls>>,
           row.result => row.status = "completed",
           Kind[n] = "approval" /\ row.status = "completed" => Approved(r, n)
    PROVE  Grows /\ RowsOK' /\ step'[r][n] = row
<1>0. step \in [Runs -> [Nodes -> StepType]]
  BY DEF TypeInv, TypeOK
<1>1. step'[r][n] = row
      /\ \A q \in Runs, m \in Nodes : q # r \/ m # n => step'[q][m] = step[q][m]
  BY <1>0
<1>2. Grows
  BY <1>1 DEF Grows
<1>3. ASSUME NEW q \in Runs, NEW m \in Nodes
      PROVE  /\ calls'[q][m] > 0 => Opened(q, m)'
             /\ step'[q][m].result => step'[q][m].status = "completed"
             /\ Kind[m] = "approval" /\ step'[q][m].status = "completed" => Approved(q, m)'
  <2>1. CASE q = r /\ m = n
    <3>1. calls'[r][n] > 0 => Opened(r, n)'
      BY <1>2, OpenedStays DEF RowsOK
    <3>2. Approved(r, n) => Approved(r, n)'
      BY DEF Approved
    <3> QED
      BY <1>1, <2>1, <3>1, <3>2
  <2>2. CASE q # r \/ m # n
    BY <1>1, <1>2, <2>2, RowsStay
  <2> QED
    BY <2>1, <2>2
<1>4. RowsOK'
  BY <1>3 DEF RowsOK
<1> QED
  BY <1>1, <1>2, <1>4

\* The worker passes on to the next node.
LEMMA OnToNext ==
    ASSUME TypeInv, FlowInv, NEW w \in Workers, NEW s \in WorkerType,
           worker[w].pc \in {"step", "evidence"}, worker[w].node <= Len(Plan),
           s.pc = "step", s.run = worker[w].run, s.node = worker[w].node + 1,
           step[s.run][Here(w)].status \in Passed,
           \A n \in s.open : n \in worker[w].open \/ Opens(s.run, n),
           GoTo(w, s), UNCHANGED <<request, run, step, calls>>
    PROVE  FlowInv'
<1>1. Grows
  BY GrowsIfSame
<1>2. RowsOK' /\ EndsWithItsSteps'
  BY <1>1, RowsKept, EndsKept DEF FlowInv
<1>3. PICK u \in WorkerType : u = worker[w]
  BY WorkerFields
<1>4. WorkerOK(u) /\ u.pc \in {"step", "evidence"} /\ Placed(u)
  BY <1>3, WorkerFields DEF FlowInv
<1>5. BehindSettled(u)
  BY <1>4 DEF WorkerOK
<1>6. Placed(s)
  BY <1>3, <1>4 DEF Placed
<1>7. BehindSettled(s)
  <2>1. ASSUME NEW i \in 1 .. Len(Plan), i < s.node
        PROVE  step[s.run][Plan[i]].status \in Passed
    <3>1. CASE i = worker[w].node
      BY <3>1 DEF Here
    <3>2. CASE i # worker[w].node
      <4>1. i < u.node
        BY <1>3, <2>1, <3>2, PlanLength DEF WorkerType
      <4> QED
        BY <1>3, <1>5, <4>1 DEF BehindSettled
    <3> QED
      BY <3>1, <3>2
  <2>2. \A n \in s.open : Opens(s.run, n)
    BY <1>3, <1>5 DEF BehindSettled
  <2> QED
    BY <2>1, <2>2 DEF BehindSettled
<1>8. WorkerOK(s)'
  <2>1. BehindSettled(s)'
    BY <1>1, <1>6, <1>7, BehindStays DEF Placed
  <2> QED
    BY <2>1 DEF WorkerOK, Carries
<1> QED
  BY <1>1, <1>2, <1>6, <1>8, FlowByWorker

LEMMA FlowOfRead ==
    ASSUME TypeInv, FlowInv, NEW w \in Workers, ReadStep(w)
    PROVE  FlowInv'
<1>1. worker[w].pc = "step" /\ worker[w].node <= Len(Plan)
      /\ worker[w].run \in Runs /\ UNCHANGED <<request, run, step, calls>>
  BY AtWork DEF ReadStep
<1>2. PICK r \in Runs, n \in Nodes, row \in StepType :
        r = worker[w].run /\ n = Here(w) /\ row = step[r][n]
  BY <1>1, HereIsNode DEF TypeInv, TypeOK
<1>3. CASE row.status \in {"completed", "skipped"}
  <2>1. PICK more : more = IF row.result THEN worker[w].open \cup {n} ELSE worker[w].open
    OBVIOUS
  <2>2. PICK s : s = After(w, more)
    OBVIOUS
  <2>3. GoTo(w, s)
    BY <1>2, <1>3, <2>1, <2>2 DEF ReadStep
  <2>4. more \in SUBSET Nodes
    BY <1>2, <2>1, WorkerFields
  <2>5. /\ s \in WorkerType /\ s.pc = "step" /\ s.run = r /\ s.open = more
        /\ s.node = worker[w].node + 1
    BY <1>1, <1>2, <2>2, <2>4, AfterTyped
  <2>6. row.result => Opens(r, n)
    BY <1>2 DEF FlowInv, RowsOK, Opens
  <2>7. \A m \in s.open : m \in worker[w].open \/ Opens(s.run, m)
    BY <2>1, <2>5, <2>6
  <2>8. step[s.run][Here(w)].status \in Passed
    BY <1>2, <1>3, <2>5 DEF Passed
  <2> QED
    BY <1>1, <1>2, <2>3, <2>5, <2>7, <2>8, OnToNext
<1>4. CASE row.status \notin {"completed", "skipped"}
  <2>1. PICK s : s = [worker[w] EXCEPT !.pc = "mark", !.seen = row]
    OBVIOUS
  <2>2. GoTo(w, s)
    BY <1>2, <1>4, <2>1 DEF ReadStep
  <2>3. PICK u \in WorkerType : u = worker[w]
    BY WorkerFields
  <2>4. WorkerOK(u) /\ u.pc = "step" /\ u.run = r /\ u.node <= Len(Plan)
    BY <1>1, <1>2, <2>3 DEF FlowInv
  <2>5. /\ s \in WorkerType /\ s.pc = "mark" /\ s.run = u.run /\ s.node = u.node
        /\ s.open = u.open /\ s.seen = row
    BY <2>1, <2>3 DEF WorkerType, PCs
  <2>6. Grows
    BY <1>1, GrowsIfSame
  <2>7. RowsOK' /\ EndsWithItsSteps'
    BY <1>1, <2>6, RowsKept, EndsKept DEF FlowInv
  <2>8. Placed(s)
    BY <2>4, <2>5 DEF Placed
  <2>9. BehindSettled(s)
    BY <2>4, <2>5 DEF WorkerOK, BehindSettled
  <2>10. BehindSettled(s)'
    BY <2>4, <2>5, <2>6, <2>9, BehindStays
  <2>11. WorkerOK(s)'
    BY <1>4, <2>5, <2>10 DEF WorkerOK, Carries, Passed
  <2> QED
    BY <2>2, <2>5, <2>6, <2>7, <2>8, <2>11, FlowByWorker
<1> QED
  BY <1>3, <1>4

\* A worker at a node stays at it: what it carries is what has to be shown.
LEMMA AtNode ==
    ASSUME TypeInv, FlowInv, Grows, NEW w \in Workers, NEW s \in WorkerType,
           worker[w].pc \in {"mark", "act", "record", "evidence"},
           s.pc \in {"act", "record", "evidence", "release"},
           s.run = worker[w].run, s.node = worker[w].node, s.open = worker[w].open,
           GoTo(w, s), Carries(s)', RowsOK', UNCHANGED run
    PROVE  FlowInv'
<1>1. EndsWithItsSteps'
  BY EndsKept DEF FlowInv
<1>2. PICK u \in WorkerType : u = worker[w]
  BY WorkerFields
<1>3. WorkerOK(u) /\ Placed(u) /\ u.run \in Runs /\ u.node <= Len(Plan)
  BY <1>2, WorkerFields, AtWork DEF FlowInv
<1>4. BehindSettled(u)
  BY <1>2, <1>3 DEF WorkerOK
<1>5. BehindSettled(s)
  BY <1>2, <1>4 DEF BehindSettled
<1>6. BehindSettled(s)'
  BY <1>2, <1>3, <1>5, BehindStays
<1>7. Placed(s)
  BY <1>2, <1>3 DEF Placed
<1>8. WorkerOK(s)'
  BY <1>6 DEF WorkerOK
<1> QED
  BY <1>1, <1>7, <1>8, FlowByWorker

\* What a worker at a node carries, in constants.
LEMMA AtNodeNow ==
    ASSUME TypeInv, FlowInv, NEW w \in Workers,
           worker[w].pc \in {"mark", "act", "record", "evidence", "release"}
    PROVE  \E u \in WorkerType :
             /\ u = worker[w] /\ u.run \in Runs /\ u.node \in 1 .. Len(Plan)
             /\ u.node <= Len(Plan) /\ Here(w) = Plan[u.node] /\ Plan[u.node] \in Nodes
             /\ u.seen \in StepType /\ u.open \in SUBSET Nodes
             /\ BehindSettled(u) /\ Carries(u)
<1>1. PICK u \in WorkerType : u = worker[w]
  BY WorkerFields
<1>2. WorkerOK(u)
  BY <1>1 DEF FlowInv
<1>3. BehindSettled(u) /\ Carries(u)
  BY <1>1, <1>2 DEF WorkerOK
<1>4. /\ u.run \in Runs /\ u.node \in 1 .. Len(Plan) /\ u.node <= Len(Plan)
      /\ Here(w) = Plan[u.node] /\ Plan[u.node] \in Nodes
  BY <1>1, AtWork
<1> QED
  BY <1>1, <1>3, <1>4, WorkerFields

LEMMA MayWrite ==
    ASSUME NEW r \in Runs, NEW n \in Nodes, NEW seen \in StepType, NEW row \in StepType,
           CanUpsert(r, n, seen, row), seen.status \notin Passed,
           row.status \in {"running", "skipped"}
    PROVE  step[r][n] = seen /\ step[r][n].status \notin Settled
<1>1. step[r][n] = seen /\ StepGuard(seen.status, row.status)
  BY DEF CanUpsert, StepUnchanged
<1> QED
  BY <1>1 DEF StepGuard, Settled, Passed

LEMMA RunnableOpened ==
    ASSUME NEW s \in WorkerType, BehindSettled(s), NEW n \in Nodes, Runnable(n, s.open)
    PROVE  Opened(s.run, n)
BY DEF BehindSettled, Runnable, Opened

LEMMA AttemptedResult ==
    ASSUME NEW seen \in StepType
    PROVE  ~ Attempted(seen).result
BY DEF Attempted

LEMMA FlowOfMark ==
    ASSUME TypeInv, FlowInv, NEW w \in Workers, MarkStep(w)
    PROVE  FlowInv'
<1>1. worker[w].pc = "mark" /\ UNCHANGED <<request, run, calls>>
  BY DEF MarkStep
<1>2. PICK u \in WorkerType :
        /\ u = worker[w] /\ u.run \in Runs /\ u.node \in 1 .. Len(Plan)
        /\ u.node <= Len(Plan) /\ Here(w) = Plan[u.node] /\ Plan[u.node] \in Nodes
        /\ u.seen \in StepType /\ u.open \in SUBSET Nodes
        /\ BehindSettled(u) /\ Carries(u)
  BY <1>1, AtNodeNow
<1>3. PICK n \in Nodes : n = Plan[u.node]
  BY <1>2
<1>4. PICK row \in StepType :
        row = IF Runnable(n, u.open) THEN Attempted(u.seen) ELSE Skipped(u.seen)
  BY <1>2, AttemptTyped
<1>5. /\ row.status \in {"running", "skipped"} /\ ~ row.result
      /\ ~ Runnable(n, u.open) => row.status = "skipped"
  BY <1>2, <1>4, AttemptTyped, AttemptedResult
<1>6. u.seen.status \notin Passed
  BY <1>1, <1>2 DEF Carries
<1>7. CASE ~ CanUpsert(u.run, n, u.seen, row)
  <2>1. GoTo(w, Return(w)) /\ UNCHANGED step
    BY <1>2, <1>3, <1>4, <1>7 DEF MarkStep
  <2> QED
    BY <1>1, <2>1, ReturnIdle, FlowToIdle
<1>8. CASE CanUpsert(u.run, n, u.seen, row)
  <2>1. step' = [step EXCEPT ![u.run][n] = row]
    BY <1>2, <1>3, <1>4, <1>8 DEF MarkStep
  <2>2. step[u.run][n].status \notin Settled
    BY <1>2, <1>5, <1>6, <1>8, MayWrite
  <2>3. Grows /\ RowsOK' /\ step'[u.run][n] = row
    BY <1>1, <1>2, <1>5, <2>1, <2>2, StepWritten DEF FlowInv
  <2>4. CASE Runnable(n, u.open)
    <3>1. PICK s : s = [u EXCEPT !.pc = "act"]
      OBVIOUS
    <3>2. GoTo(w, s)
      BY <1>2, <1>3, <1>4, <1>8, <2>4, <3>1 DEF MarkStep
    <3>3. /\ s \in WorkerType /\ s.pc = "act" /\ s.run = u.run /\ s.node = u.node
          /\ s.open = u.open
      BY <3>1 DEF WorkerType, PCs
    <3>4. Opened(u.run, n)
      BY <1>2, <2>4, RunnableOpened
    <3>5. Opened(u.run, n)'
      BY <1>2, <2>3, <3>4, OpenedStays
    <3>6. Carries(s)'
      BY <1>3, <3>3, <3>5 DEF Carries
    <3> QED
      BY <1>1, <1>2, <2>3, <3>2, <3>3, <3>6, AtNode
  <2>5. CASE ~ Runnable(n, u.open)
    <3>1. PICK s : s = [u EXCEPT !.pc = "evidence", !.seen = row, !.outcome = "skipped"]
      OBVIOUS
    <3>2. GoTo(w, s)
      BY <1>2, <1>3, <1>4, <1>8, <2>5, <3>1 DEF MarkStep
    <3>3. /\ s \in WorkerType /\ s.pc = "evidence" /\ s.run = u.run /\ s.node = u.node
          /\ s.open = u.open /\ s.seen = row /\ s.outcome = "skipped"
      BY <3>1 DEF WorkerType, PCs
    <3>4. Carries(s)'
      BY <1>3, <1>5, <2>3, <2>5, <3>3 DEF Carries
    <3> QED
      BY <1>1, <1>2, <2>3, <3>2, <3>3, <3>4, AtNode
  <2> QED
    BY <2>4, <2>5
<1> QED
  BY <1>7, <1>8

LEMMA FlowOfCall ==
    ASSUME TypeInv, FlowInv, NEW w \in Workers, CallAdapter(w)
    PROVE  FlowInv'
<1>1. worker[w].pc = "act" /\ UNCHANGED <<run, step>>
  BY DEF CallAdapter
<1>2. PICK u \in WorkerType :
        /\ u = worker[w] /\ u.run \in Runs /\ u.node \in 1 .. Len(Plan)
        /\ u.node <= Len(Plan) /\ Here(w) = Plan[u.node] /\ Plan[u.node] \in Nodes
        /\ u.seen \in StepType /\ u.open \in SUBSET Nodes
        /\ BehindSettled(u) /\ Carries(u)
  BY <1>1, AtNodeNow
<1>3. PICK n \in Nodes : n = Plan[u.node]
  BY <1>2
<1>4. PICK o \in Outcomes :
        /\ Perform(u.run, n, u.seen, o)
        /\ GoTo(w, [u EXCEPT !.pc = "record", !.seen = Attempted(u.seen), !.outcome = o])
        /\ calls' = [calls EXCEPT ![u.run][n] = @ + 1]
  BY <1>2, <1>3 DEF CallAdapter
<1>5. PICK s : s = [u EXCEPT !.pc = "record", !.seen = Attempted(u.seen), !.outcome = o]
  OBVIOUS
<1>6. /\ s \in WorkerType /\ s.pc = "record" /\ s.run = u.run /\ s.node = u.node
      /\ s.open = u.open /\ s.seen = Attempted(u.seen) /\ s.outcome = o
  BY <1>2, <1>5, AttemptTyped DEF WorkerType, PCs
<1>7. Opened(u.run, n)
  BY <1>1, <1>2, <1>3 DEF Carries
<1>8. CreateRequest(<<u.run, n>>) \/ UNCHANGED request
  BY <1>2, <1>4, PerformCases
<1>9. Grows
  BY <1>1, <1>2, <1>8, RequestOf, RequestGrows DEF TypeInv, TypeOK
<1>10. Opened(u.run, n)'
  BY <1>2, <1>7, <1>9, OpenedStays
<1>11. RowsOK'
  <2> SUFFICES ASSUME NEW q \in Runs, NEW m \in Nodes
               PROVE  /\ calls'[q][m] > 0 => Opened(q, m)'
                      /\ step'[q][m].result => step'[q][m].status = "completed"
                      /\ Kind[m] = "approval" /\ step'[q][m].status = "completed" =>
                            Approved(q, m)'
    BY DEF RowsOK
  <2>1. CASE q = u.run /\ m = n
    <3>1. Approved(q, m) => Approved(q, m)'
      BY <1>9, ApprovedStays
    <3> QED
      BY <1>1, <1>10, <2>1, <3>1 DEF FlowInv, RowsOK
  <2>2. CASE q # u.run \/ m # n
    <3>1. calls'[q][m] = calls[q][m]
      BY <1>2, <1>4, <2>2, CallsTyped
    <3> QED
      BY <1>1, <1>9, <3>1, RowsStay DEF FlowInv
  <2> QED
    BY <2>1, <2>2
<1>12. Kind[n] = "approval" /\ o = "completed" => Approved(u.run, n)'
  <2> SUFFICES ASSUME Kind[n] = "approval", o = "completed"
               PROVE  Approved(u.run, n)'
    OBVIOUS
  <2>1. AskApproval(<<u.run, n>>, o)
    BY <1>2, <1>4, PerformCases
  <2>2. o = ApprovalOutcome(<<u.run, n>>) /\ UNCHANGED request
    BY <2>1 DEF AskApproval
  <2>3. Approved(u.run, n)
    <3> DEFINE state == request[<<u.run, n>>].state
    <3>1. ApprovalOutcome(<<u.run, n>>) =
            CASE state = "approved" -> "completed"
              [] state = "rejected" -> "failed"
              [] OTHER -> "waiting_approval"
      BY DEF ApprovalOutcome
    <3>2. state = "approved" <=> Approved(u.run, n)
      BY DEF Approved
    <3> HIDE DEF state
    <3>3. CASE state = "rejected"
      BY <2>2, <3>1, <3>3
    <3>4. CASE state \notin {"approved", "rejected"}
      BY <2>2, <3>1, <3>4
    <3> QED
      BY <3>2, <3>3, <3>4
  <2> QED
    BY <2>2, <2>3 DEF Approved
<1>13. s.seen.status = "running"
  BY <1>2, <1>6, AttemptTyped
<1>14. Carries(s)'
  BY <1>3, <1>6, <1>10, <1>12, <1>13 DEF Carries
<1>15. GoTo(w, s)
  BY <1>4, <1>5
<1> QED
  BY <1>1, <1>2, <1>6, <1>9, <1>11, <1>14, <1>15, AtNode

LEMMA FlowOfRecord ==
    ASSUME TypeInv, FlowInv, NEW w \in Workers, RecordStep(w)
    PROVE  FlowInv'
<1>1. worker[w].pc = "record" /\ UNCHANGED <<request, run, calls>>
  BY DEF RecordStep
<1>2. PICK u \in WorkerType :
        /\ u = worker[w] /\ u.run \in Runs /\ u.node \in 1 .. Len(Plan)
        /\ u.node <= Len(Plan) /\ Here(w) = Plan[u.node] /\ Plan[u.node] \in Nodes
        /\ u.seen \in StepType /\ u.open \in SUBSET Nodes
        /\ BehindSettled(u) /\ Carries(u)
  BY <1>1, AtNodeNow
<1>3. PICK n \in Nodes : n = Plan[u.node]
  BY <1>2
<1>4. u.seen.status = "running" /\ u.outcome \in Outcomes
      /\ (Kind[n] = "approval" /\ u.outcome = "completed" => Approved(u.run, n))
  BY <1>1, <1>2, <1>3 DEF Carries
<1>5. PICK row \in StepType : row = Recorded(n, u.seen, u.outcome)
  BY <1>2, <1>4, AttemptTyped
<1>6. row.status = u.outcome
  BY <1>2, <1>5 DEF Recorded, StepType
<1>7. row.result => row.status = "completed"
  BY <1>2, <1>5, <1>6 DEF Recorded, StepType
<1>8. CASE ~ CanUpsert(u.run, n, u.seen, row)
  <2>1. GoTo(w, Return(w)) /\ UNCHANGED step
    BY <1>2, <1>3, <1>5, <1>8 DEF RecordStep
  <2> QED
    BY <1>1, <2>1, ReturnIdle, FlowToIdle
<1>9. CASE CanUpsert(u.run, n, u.seen, row)
  <2>1. step' = [step EXCEPT ![u.run][n] = row]
    BY <1>2, <1>3, <1>5, <1>9 DEF RecordStep
  <2>2. step[u.run][n].status \notin Settled
    BY <1>4, <1>9 DEF CanUpsert, StepUnchanged, Settled
  <2>3. Grows /\ RowsOK' /\ step'[u.run][n] = row
    BY <1>1, <1>2, <1>4, <1>6, <1>7, <2>1, <2>2, StepWritten DEF FlowInv
  <2>4. PICK s : s = [u EXCEPT !.pc = "evidence", !.seen = row]
    OBVIOUS
  <2>5. GoTo(w, s)
    BY <1>2, <1>3, <1>5, <1>9, <2>4 DEF RecordStep
  <2>6. /\ s \in WorkerType /\ s.pc = "evidence" /\ s.run = u.run /\ s.node = u.node
        /\ s.open = u.open /\ s.seen = row /\ s.outcome = u.outcome
    BY <2>4 DEF WorkerType, PCs
  <2>7. Carries(s)'
    BY <1>3, <1>6, <2>3, <2>6 DEF Carries
  <2> QED
    BY <1>1, <1>2, <2>3, <2>5, <2>6, <2>7, AtNode
<1> QED
  BY <1>8, <1>9

LEMMA FlowOfEvidence ==
    ASSUME TypeInv, FlowInv, NEW w \in Workers, AppendEvidence(w)
    PROVE  FlowInv'
<1>1. worker[w].pc = "evidence" /\ UNCHANGED <<request, run, step, calls>>
  BY DEF AppendEvidence
<1>2. PICK u \in WorkerType :
        /\ u = worker[w] /\ u.run \in Runs /\ u.node \in 1 .. Len(Plan)
        /\ u.node <= Len(Plan) /\ Here(w) = Plan[u.node] /\ Plan[u.node] \in Nodes
        /\ u.seen \in StepType /\ u.open \in SUBSET Nodes
        /\ BehindSettled(u) /\ Carries(u)
  BY <1>1, AtNodeNow
<1>3. PICK n \in Nodes : n = Plan[u.node]
  BY <1>2
<1>4. u.outcome \in Settled => step[u.run][n] = u.seen /\ u.seen.status = u.outcome
  BY <1>1, <1>2, <1>3 DEF Carries
<1>5. CASE Proceeds(w)
  <2>1. u.outcome \in Passed /\ step[u.run][n].status \in Passed /\ step[u.run][n] = u.seen
    BY <1>2, <1>4, <1>5 DEF Proceeds, Passed, Settled
  <2>2. PICK more : more = IF u.seen.result THEN u.open \cup {n} ELSE u.open
    OBVIOUS
  <2>3. PICK s : s = After(w, more)
    OBVIOUS
  <2>4. GoTo(w, s)
    BY <1>2, <1>3, <1>5, <2>2, <2>3 DEF AppendEvidence
  <2>5. more \in SUBSET Nodes
    BY <1>2, <2>2
  <2>6. /\ s \in WorkerType /\ s.pc = "step" /\ s.run = u.run /\ s.open = more
        /\ s.node = worker[w].node + 1
    BY <1>1, <1>2, <2>3, <2>5, AfterTyped
  <2>7. u.seen.result => Opens(u.run, n)
    BY <1>2, <2>1 DEF FlowInv, RowsOK, Opens
  <2>8. \A m \in s.open : m \in worker[w].open \/ Opens(s.run, m)
    BY <1>2, <2>2, <2>6, <2>7
  <2> QED
    BY <1>1, <1>2, <1>3, <2>1, <2>4, <2>6, <2>8, OnToNext
<1>6. CASE ~ Proceeds(w)
  <2>1. PICK s : s = [u EXCEPT !.pc = "release"]
    OBVIOUS
  <2>2. GoTo(w, s)
    BY <1>2, <1>6, <2>1 DEF AppendEvidence
  <2>3. /\ s \in WorkerType /\ s.pc = "release" /\ s.run = u.run /\ s.node = u.node
        /\ s.open = u.open /\ s.outcome = u.outcome
    BY <2>1 DEF WorkerType, PCs
  <2>4. u.outcome \notin Passed
    BY <1>2, <1>6 DEF Proceeds, Passed
  <2>5. u.outcome = "failed" => step'[u.run][n].status = "failed"
    BY <1>1, <1>4 DEF Settled
  <2>6. Carries(s)'
    BY <1>3, <2>3, <2>4, <2>5 DEF Carries
  <2>7. Grows
    BY <1>1, GrowsIfSame
  <2>8. RowsOK'
    BY <1>1, <2>7, RowsKept DEF FlowInv
  <2> QED
    BY <1>1, <1>2, <2>2, <2>3, <2>6, <2>7, <2>8, AtNode
<1> QED
  BY <1>5, <1>6

\* A run released with a status its steps agree with.
LEMMA Releasing ==
    ASSUME TypeInv, FlowInv, NEW w \in Workers, NEW status, ReleaseAs(w, status),
           NEW r \in Runs, r = worker[w].run,
           status = "completed" => \A n \in Nodes : step[r][n].status \in Passed,
           status = "failed" => \E n \in Nodes : step[r][n].status = "failed"
    PROVE  FlowInv'
<1>1. UNCHANGED <<request, step, calls>> /\ GoTo(w, Return(w))
  BY DEF ReleaseAs
<1>2. Grows
  BY <1>1, GrowsIfSame
<1>3. RowsOK'
  BY <1>1, <1>2, RowsKept DEF FlowInv
<1>4. EndsWithItsSteps'
  <2>1. CASE UNCHANGED run
    BY <1>2, <2>1, EndsKept DEF FlowInv
  <2>2. CASE run' = [run EXCEPT ![r] = Released(run[r], status)]
    <3>1. run \in [Runs -> RunType] /\ run[r] \in RunType
      BY DEF TypeInv, TypeOK
    <3>2. run'[r].status = status /\ \A q \in Runs \ {r} : run'[q] = run[q]
      BY <2>2, <3>1 DEF Released, RunType
    <3>3. ASSUME NEW q \in Runs
          PROVE  /\ run'[q].status = "completed" =>
                       \A n \in Nodes : step'[q][n].status \in Passed
                 /\ run'[q].status = "failed" => \E n \in Nodes : step'[q][n].status = "failed"
      <4>1. CASE q = r
        BY <1>1, <3>2, <4>1
      <4>2. CASE q # r
        BY <1>2, <3>2, <4>2, EndsStay DEF FlowInv
      <4> QED
        BY <4>1, <4>2
    <3> QED
      BY <3>3 DEF EndsWithItsSteps, Passed
  <2> QED
    BY <2>1, <2>2 DEF ReleaseAs, WriteRun
<1>5. PICK s \in WorkerType : s = Return(w) /\ s.pc = "idle"
  BY ReturnIdle
<1>6. Placed(s) /\ WorkerOK(s)' /\ GoTo(w, s)
  BY <1>1, <1>5, NobodyAtWork DEF Placed
<1> QED
  BY <1>2, <1>3, <1>4, <1>6, FlowByWorker

LEMMA FlowOfRelease ==
    ASSUME TypeInv, FlowInv, NEW w \in Workers, ReleaseRun(w)
    PROVE  FlowInv'
<1>1. worker[w].pc = "release" /\ ReleaseAs(w, worker[w].outcome)
  BY DEF ReleaseRun
<1>2. PICK u \in WorkerType :
        /\ u = worker[w] /\ u.run \in Runs /\ u.node \in 1 .. Len(Plan)
        /\ u.node <= Len(Plan) /\ Here(w) = Plan[u.node] /\ Plan[u.node] \in Nodes
        /\ u.seen \in StepType /\ u.open \in SUBSET Nodes
        /\ BehindSettled(u) /\ Carries(u)
  BY <1>1, AtNodeNow
<1>3. /\ u.outcome \notin Passed
      /\ u.outcome = "failed" => step[u.run][Plan[u.node]].status = "failed"
  BY <1>1, <1>2 DEF Carries
<1>4. ReleaseAs(w, u.outcome)
  BY <1>1, <1>2
<1> QED
  BY <1>2, <1>3, <1>4, Releasing DEF Passed

LEMMA FlowOfFinish ==
    ASSUME TypeInv, FlowInv, NEW w \in Workers, FinishRun(w)
    PROVE  FlowInv'
<1>1. worker[w].pc = "step" /\ worker[w].node > Len(Plan) /\ ReleaseAs(w, "completed")
  BY DEF FinishRun
<1>2. PICK u \in WorkerType : u = worker[w]
  BY WorkerFields
<1>3. WorkerOK(u) /\ u.run \in Runs
  BY <1>1, <1>2, AtWork DEF FlowInv
<1>4. BehindSettled(u)
  BY <1>1, <1>2, <1>3 DEF WorkerOK
<1>5. ASSUME NEW n \in Nodes PROVE step[u.run][n].status \in Passed
  <2>1. PICK i \in 1 .. Len(Plan) : n = Plan[i]
    BY DEF Nodes
  <2>2. i < u.node
    BY <1>1, <1>2, PlanLength DEF WorkerType
  <2> QED
    BY <1>4, <2>1, <2>2 DEF BehindSettled
<1> QED
  BY <1>1, <1>2, <1>3, <1>5, Releasing

LEMMA FlowInit ==
    ASSUME Init
    PROVE  FlowInv
<1>1. \A w \in Workers : WorkerOK(worker[w])
  BY DEF Init, Idle, WorkerOK
<1>2. RowsOK
  BY DEF Init, NoStep, RowsOK
<1>3. EndsWithItsSteps
  BY DEF Init, NoRun, EndsWithItsSteps
<1> QED
  BY <1>1, <1>2, <1>3 DEF FlowInv

LEMMA FlowStutter ==
    ASSUME TypeInv, FlowInv, UNCHANGED vars
    PROVE  FlowInv'
<1>1. UNCHANGED <<request, run, step, calls, worker>>
  BY DEF vars
<1> QED
  BY <1>1, GrowsIfSame, FlowWithoutWorker

LEMMA FlowStep ==
    ASSUME TypeInv, FlowInv, [Next]_vars
    PROVE  FlowInv'
<1>1. ASSUME NEW w \in Workers, Execute(w)
      PROVE  FlowInv'
  BY <1>1, FlowOfLoad, FlowOfBegin, FlowOfRead, FlowOfMark, FlowOfCall, FlowOfRecord,
     FlowOfEvidence, FlowOfRelease, FlowOfFinish DEF Execute
<1>2. ASSUME NEW w \in Workers, ClaimRuns(w) \/ StoreFails(w) \/ Crash(w)
      PROVE  FlowInv'
  BY <1>2, FlowOfClaim, FlowOfFault
<1> QED
  BY <1>1, <1>2, FlowOfRows, FlowOfRequests, FlowStutter DEF Next

FlowParts == TypeInv /\ FlowInv

LEMMA FlowInductive ==
    /\ Init => FlowParts
    /\ FlowParts /\ [Next]_vars => FlowParts'
BY TypeInit, FlowInit, TypeStep, FlowStep DEF FlowParts

(* EndsWithItsSteps: whoever releases a run, and however late, its status  *)
(* is the one its step rows add up to.                                     *)
THEOREM RunsEndWithTheirSteps == Spec => []EndsWithItsSteps
<1>1. FlowParts => EndsWithItsSteps
  BY DEF FlowParts, FlowInv
<1> QED
  BY <1>1, FlowInductive, PTL DEF Spec

(***************************************************************************)
(* The quorum, of every request the engine files.                          *)
(***************************************************************************)
LEMMA QuorumSameRequests ==
    ASSUME QuorumInv, UNCHANGED request
    PROVE  QuorumInv'
BY QuorumSame DEF QuorumInv

LEMMA QuorumInit ==
    ASSUME Init
    PROVE  QuorumInv
<1>1. ASSUME NEW s \in 1 .. Len(Stages) PROVE Voters(NoRequest, s) = {}
  BY DEF Voters, NoRequest
<1>2. QuorumOK(NoRequest)
  <2>1. \A s \in 1 .. Len(Stages) : ~ (s < NoRequest.stage)
    BY StagesType DEF NoRequest
  <2>2. NoRequest.state # "approved"
    BY DEF NoRequest
  <2>3. Entitled(NoRequest)
    BY <1>1 DEF Entitled
  <2> QED
    BY <2>1, <2>2, <2>3 DEF QuorumOK
<1> QED
  BY <1>2 DEF Init, InitRequest, QuorumInv

LEMMA QuorumOfCall ==
    ASSUME TypeInv, QuorumInv, NEW w \in Workers, CallAdapter(w)
    PROVE  QuorumInv'
<1>1. worker[w].run \in Runs /\ Here(w) \in Nodes
  BY AtWork DEF CallAdapter
<1>2. PICK r \in Runs, n \in Nodes : r = worker[w].run /\ n = Here(w)
  BY <1>1
<1>3. CreateRequest(<<r, n>>) \/ UNCHANGED request
  BY <1>2, PerformCases DEF CallAdapter
<1> QED
  BY <1>3, RequestOf, QuorumElse, QuorumSameRequests DEF TypeInv, TypeOK

LEMMA QuorumStep ==
    ASSUME TypeInv, QuorumInv, [Next]_vars
    PROVE  QuorumInv'
<1>1. ASSUME NEW r \in Runs, CreateRun(r) \/ CancelRun(r) \/ BecomeDue(r) \/ ExpireLease(r)
      PROVE  QuorumInv'
  BY <1>1, QuorumSameRequests DEF CreateRun, CancelRun, BecomeDue, ExpireLease
<1>2. ASSUME NEW w \in Workers, ClaimRuns(w) \/ StoreFails(w) \/ Crash(w)
      PROVE  QuorumInv'
  BY <1>2, QuorumSameRequests DEF ClaimRuns, StoreFails, Crash, Faulty
<1>3. ASSUME NEW w \in Workers, Execute(w)
      PROVE  QuorumInv'
  <2>1. CASE CallAdapter(w)
    BY <2>1, QuorumOfCall
  <2>2. CASE ~ CallAdapter(w)
    <3>1. UNCHANGED request
      BY <1>3, <2>2 DEF Execute, LoadRun, BeginRun, ReadStep, MarkStep, RecordStep,
         AppendEvidence, ReleaseRun, FinishRun, ReleaseAs
    <3> QED
      BY <3>1, QuorumSameRequests
  <2> QED
    BY <2>1, <2>2
<1>4. ASSUME List \/ Decide \/ Deadline
      PROVE  QuorumInv'
  BY <1>4, QuorumDecision, QuorumElse, QuorumSameRequests
     DEF List, Decide, Deadline, TypeInv, TypeOK
<1>5. CASE UNCHANGED vars
  BY <1>5, QuorumSameRequests DEF vars
<1> QED
  BY <1>1, <1>2, <1>3, <1>4, <1>5 DEF Next

QuorumParts == TypeInv /\ QuorumInv

(* ApprovedByQuorum, for any policy: however votes, rejections, deadlines  *)
(* and the engine's own questions interleave, a request is approved only   *)
(* with the quorum of eligible distinct voters of every stage.             *)
THEOREM ApprovalNeedsQuorum == Spec => []ApprovedByQuorum
<1>1. Init => QuorumParts
  BY TypeInit, QuorumInit DEF QuorumParts
<1>2. QuorumParts /\ [Next]_vars => QuorumParts'
  BY TypeStep, QuorumStep DEF QuorumParts
<1>3. QuorumParts => ApprovedByQuorum
  BY QuorumImplies DEF QuorumParts, TypeInv, TypeOK
<1> QED
  BY <1>1, <1>2, <1>3, PTL DEF Spec
=============================================================================
