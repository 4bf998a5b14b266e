----------------------------- MODULE WorkflowRun -----------------------------
(***************************************************************************)
(* The runs of one published workflow version in one workspace.  Workers   *)
(* lease due runs (ClaimRuns) and execute them one after the other         *)
(* (Engine.Execute): nodes in plan order, each step marked running, its    *)
(* adapter called, the outcome recorded under the step's version, evidence *)
(* appended, and the run released.  A run is one row and a step is one     *)
(* row; every call of the store is a transaction of its own.               *)
(*                                                                         *)
(* Versions.  A step row never takes an earlier value again (its attempt   *)
(* count grows), so comparing the row with the copy a worker read is the   *)
(* version check.  A run row can, so stale names the workers whose copy of *)
(* it was overtaken.  A lease token is the worker's name: a worker claims  *)
(* only when it is through with its last claim.                            *)
(*                                                                         *)
(* Clocks are facts: a run is due or not, its lease has run out or not.    *)
(* That a workspace's outbox, webhook or assistant work lists it for the   *)
(* workers (list_worker_active_scopes) is the environment's.               *)
(***************************************************************************)
EXTENDS Approval

CONSTANTS
    Runs,               \* runs that may be created
    Workers,            \* worker processes
    Nobody,             \* no lease
    Plan,               \* Plan.NodeIDs: the nodes, parents first
    Kind,               \* Kind[n]: "action", "approval", "condition", "delay"
    Edges,              \* <<from, to, condition>>
    Verdict,            \* Verdict[n]: what the condition n evaluates to
    PlanIntact,         \* the stored definition compiles to the published digest
    MaxActive,          \* active runs of a workspace
    MaxRunAttempts,     \* executions the attempt column can count
    MaxStepAttempts,    \* workflow.MaxStepAttempts
    Batch,              \* WORKER_DISPATCH_BATCH
    MaxFaults           \* bound: failed store calls and crashes

Nodes == {Plan[i] : i \in 1 .. Len(Plan)}

ASSUME WorkflowAssumption ==
    /\ Nobody \notin Workers
    /\ IsFiniteSet(Runs) /\ IsFiniteSet(Workers)
    /\ Plan \in Seq(Nodes)
    /\ \A i, j \in 1 .. Len(Plan) : Plan[i] = Plan[j] => i = j
    /\ Kind \in [Nodes -> {"action", "approval", "condition", "delay"}]
    /\ Verdict \in [Nodes -> BOOLEAN]
    /\ PlanIntact \in BOOLEAN
    /\ \A e \in Edges : \E i, j \in 1 .. Len(Plan) :
           i < j /\ e[1] = Plan[i] /\ e[2] = Plan[j]
    /\ MaxActive \in Nat \ {0}
    /\ MaxRunAttempts \in Nat \ {0}
    /\ MaxStepAttempts \in Nat \ {0}
    /\ Batch \in Nat \ {0}
    /\ MaxFaults \in Nat
    /\ Requests = Runs \X Nodes

VARIABLES
    run,        \* workflow_runs: status, attempts, due, lease, expired
    step,       \* workflow_step_runs: status, attempts, result
    evidence,   \* workflow_step_evidence: the settled steps it names
    worker,     \* where each worker is
    stale,      \* workers whose copy of the run row is out of date
    listed,     \* the workspace is among the active scopes
    calls,      \* calls[r][n]: times the node's adapter was called
    lapsed,     \* runs whose lease ran out while somebody held it
    faults      \* faults so far (bounded by MaxFaults)

vars == <<request, run, step, evidence, worker, stale, listed, calls, lapsed,
          faults>>

ActiveStates   == {"queued", "running", "waiting_approval", "waiting_retry"}
TerminalStates == {"completed", "failed", "cancelled"}

NoRun  == [status |-> "absent", attempts |-> 0, due |-> FALSE,
           lease |-> Nobody, expired |-> FALSE]
NoStep == [status |-> "absent", attempts |-> 0, result |-> FALSE]
Idle   == [pc |-> "idle", run |-> Nobody, queue |-> {}, node |-> 1,
           open |-> {}, seen |-> NoStep, outcome |-> "completed"]

Init ==
    /\ InitRequest
    /\ run = [r \in Runs |-> NoRun]
    /\ step = [r \in Runs |-> [n \in Nodes |-> NoStep]]
    /\ evidence = {}
    /\ worker = [w \in Workers |-> Idle]
    /\ stale = {}
    /\ listed = FALSE
    /\ calls = [r \in Runs |-> [n \in Nodes |-> 0]]
    /\ lapsed = {}
    /\ faults = 0

Active == {r \in Runs : run[r].status \in ActiveStates}

(***************************************************************************)
(* The row of a run.  workflow_run_guard refuses transitions; whoever had  *)
(* loaded the row and not yet updated it now holds an old version.         *)
(***************************************************************************)
RunGuard(from, to) ==
    \/ from = to
    \/ from = "queued" /\ to \in {"running", "cancelled"}
    \/ from = "running" /\ to \in {"waiting_approval", "waiting_retry"} \cup TerminalStates
    \/ from \in {"waiting_approval", "waiting_retry"}
          /\ to \in {"running", "failed", "cancelled"}

ReadersOf(r) == {w \in Workers : worker[w].pc = "loaded" /\ worker[w].run = r}

WriteRun(r, row) == run' = [run EXCEPT ![r] = row]

\* Refused at the workspace's limit of active runs (under the advisory lock).
CreateRun(r) ==
    /\ run[r].status = "absent"
    /\ Cardinality(Active) < MaxActive
    /\ run' = [run EXCEPT ![r] = [NoRun EXCEPT !.status = "queued", !.due = TRUE]]
    /\ UNCHANGED <<request, step, evidence, worker, stale, listed, calls,
                   lapsed, faults>>

\* The operator's cancel clears the lease; it does not stop the worker.
CancelRun(r) ==
    /\ r \in Active
    /\ RunGuard(run[r].status, "cancelled")
    /\ WriteRun(r, [run[r] EXCEPT !.status = "cancelled", !.lease = Nobody,
                                  !.expired = FALSE])
    /\ stale' = stale \cup ReadersOf(r)
    /\ UNCHANGED <<request, step, evidence, worker, listed, calls, lapsed, faults>>

(***************************************************************************)
(* Claiming.  The runs to be claimed are themselves active, so the limit   *)
(* is what the workspace has left, not what it has free to start.          *)
(***************************************************************************)
DueThoughLeased == {r \in Active : run[r].due}
DueUnlessLeased == {r \in Active : run[r].due /\ run[r].lease = Nobody}

Due == {r \in Active : run[r].due /\ (run[r].lease = Nobody \/ run[r].expired)}

ClaimLimit ==
    LET remaining == MaxActive - Cardinality(Active)
    IN  IF Batch < remaining THEN Batch ELSE remaining

MinSize(a, b) == IF a < b THEN a ELSE b

ClaimRuns(w) ==
    /\ listed
    /\ worker[w].pc = "idle"
    /\ worker[w].queue = {}
    /\ \E batch \in SUBSET Due :
         /\ batch # {}
         /\ Cardinality(batch) = MinSize(ClaimLimit, Cardinality(Due))
         /\ run' = [r \in Runs |->
                      IF r \in batch
                        THEN [run[r] EXCEPT !.lease = w, !.expired = FALSE]
                        ELSE run[r]]
         /\ worker' = [worker EXCEPT ![w].queue = batch]
         /\ stale' = stale \cup UNION {ReadersOf(r) : r \in batch}
    /\ UNCHANGED <<request, step, evidence, listed, calls, lapsed, faults>>

(***************************************************************************)
(* Engine.Execute                                                          *)
(***************************************************************************)
GoTo(w, state) == worker' = [worker EXCEPT ![w] = state]

\* Execute returns: the worker takes the next run of its batch.
Return(w) == [Idle EXCEPT !.queue = worker[w].queue]

\* GetRun: a terminal run is not executed.
LoadRun(w) ==
    /\ worker[w].pc = "idle"
    /\ \E r \in worker[w].queue :
         IF run[r].status \in ActiveStates
           THEN GoTo(w, [Idle EXCEPT !.pc = "loaded", !.run = r,
                                     !.queue = worker[w].queue \ {r}])
           ELSE GoTo(w, [Idle EXCEPT !.queue = worker[w].queue \ {r}])
    /\ stale' = stale \ {w}
    /\ UNCHANGED <<request, run, step, evidence, listed, calls, lapsed, faults>>

MayBeginUncounted(w, r) == w \notin stale /\ RunGuard(run[r].status, "running")

\* UpdateRun refuses a row written since, and one whose attempts are spent.  A
\* plan that is not the published one is not begun: its run is to be released as
\* failed, which the row's guard refuses of a queued run (it never is more than
\* queued), and the error is dropped.
MayBegin(w, r) ==
    /\ PlanIntact
    /\ w \notin stale
    /\ RunGuard(run[r].status, "running")
    /\ run[r].attempts < MaxRunAttempts

BeginRun(w) ==
    LET r == worker[w].run
    IN  /\ worker[w].pc = "loaded"
        /\ IF MayBegin(w, r)
             THEN /\ WriteRun(r, [run[r] EXCEPT !.status = "running", !.attempts = @ + 1])
                  /\ GoTo(w, [worker[w] EXCEPT !.pc = "step"])
                  /\ stale' = (stale \cup ReadersOf(r)) \ {w}
             ELSE /\ GoTo(w, Return(w))
                  /\ UNCHANGED <<run, stale>>
        /\ UNCHANGED <<request, step, evidence, listed, calls, lapsed, faults>>

Here(w) == Plan[worker[w].node]

After(w, open) ==
    [worker[w] EXCEPT !.pc = "step", !.node = @ + 1, !.open = open,
                      !.seen = NoStep, !.outcome = "completed"]

\* Step: what is completed or skipped is passed over, with its result.
ReadStep(w) ==
    LET n   == Here(w)
        row == step[worker[w].run][n]
    IN  /\ worker[w].pc = "step"
        /\ worker[w].node <= Len(Plan)
        /\ IF row.status \in {"completed", "skipped"}
             THEN GoTo(w, After(w, IF row.result THEN worker[w].open \cup {n}
                                                 ELSE worker[w].open))
             ELSE GoTo(w, [worker[w] EXCEPT !.pc = "mark", !.seen = row])
        /\ UNCHANGED <<request, run, step, evidence, stale, listed, calls, lapsed, faults>>

Parents(n) == {e \in Edges : e[2] = n}

RunnableOnAnyEdge(n, open) ==
    Parents(n) # {} => \E e \in Parents(n) : e[1] \in open

\* A root, or behind an open parent.  An edge "false" opens nothing.
Runnable(n, open) ==
    Parents(n) # {} => \E e \in Parents(n) : e[1] \in open /\ e[3] # "false"

StepGuardReopens(from, to) == from \notin {"completed", "skipped"}

\* workflow_step_guard: completed, failed and skipped are final.
StepGuard(from, to) ==
    \/ from \in {to, "absent"}
    \/ from = "running" /\ to \in {"waiting_approval", "waiting_retry",
                                   "completed", "failed"}
    \/ from \in {"waiting_approval", "waiting_retry"} /\ to \in {"running", "failed"}

StepWhateverItIs(r, n, seen) == TRUE

\* UpsertStep inserts where there was no row, or updates the version read.
StepUnchanged(r, n, seen) == step[r][n] = seen

CanUpsert(r, n, seen, row) ==
    /\ StepUnchanged(r, n, seen)
    /\ StepGuard(step[r][n].status, row.status)

Attempted(seen) == [status |-> "running", attempts |-> seen.attempts + 1,
                    result |-> FALSE]
Skipped(seen)   == [status |-> "skipped",
                    attempts |-> IF seen.attempts < 1 THEN 1 ELSE seen.attempts,
                    result |-> FALSE]

\* UpsertStep(running), or UpsertStep(skipped) when no parent opens the node.
MarkStep(w) ==
    LET r    == worker[w].run
        n    == Here(w)
        runs == Runnable(n, worker[w].open)
        row  == IF runs THEN Attempted(worker[w].seen) ELSE Skipped(worker[w].seen)
    IN  /\ worker[w].pc = "mark"
        /\ IF CanUpsert(r, n, worker[w].seen, row)
             THEN /\ step' = [step EXCEPT ![r][n] = row]
                  /\ GoTo(w, IF runs
                               THEN [worker[w] EXCEPT !.pc = "act"]
                               ELSE [worker[w] EXCEPT !.pc = "evidence", !.seen = row,
                                                      !.outcome = "skipped"])
             ELSE /\ GoTo(w, Return(w))
                  /\ UNCHANGED step
        /\ UNCHANGED <<request, run, evidence, stale, listed, calls, lapsed, faults>>

(***************************************************************************)
(* The adapter call.  The seen copy is still the step as it was before     *)
(* this attempt: a delay is over only after it was left waiting once.      *)
(***************************************************************************)
\* Only a delay answers ErrRetryable, until the step's attempts are spent.
Retry(seen) == IF seen.attempts + 1 < MaxStepAttempts THEN "waiting_retry" ELSE "failed"

DelayOutcomes(seen) ==
    {Retry(seen)} \cup (IF seen.status = "waiting_retry" THEN {"completed"} ELSE {})

\* workflowApprovalAdapter, when the deterministic request exists.
ApprovalOutcome(q) ==
    CASE request[q].state = "approved" -> "completed"
      [] request[q].state = "rejected" -> "failed"
      [] OTHER -> "waiting_approval"

\* The first attempt files the request; without a policy for it the node fails.
AskApproval(q, outcome) ==
    IF request[q].state = "none"
      THEN \/ outcome = "waiting_approval" /\ CreateRequest(q)
           \/ outcome = "failed" /\ UNCHANGED request
      ELSE outcome = ApprovalOutcome(q) /\ UNCHANGED request

Outcomes == {"completed", "failed", "waiting_approval", "waiting_retry"}

Perform(r, n, seen, outcome) ==
    CASE Kind[n] = "condition" -> outcome = "completed" /\ UNCHANGED request
      [] Kind[n] = "delay"     -> outcome \in DelayOutcomes(seen) /\ UNCHANGED request
      [] Kind[n] = "approval"  -> AskApproval(<<r, n>>, outcome)
      [] Kind[n] = "action"    -> outcome \in {"completed", "failed"} /\ UNCHANGED request

CallAdapter(w) ==
    LET r    == worker[w].run
        n    == Here(w)
        seen == worker[w].seen
    IN  /\ worker[w].pc = "act"
        /\ \E outcome \in Outcomes :
             /\ Perform(r, n, seen, outcome)
             /\ GoTo(w, [worker[w] EXCEPT !.pc = "record", !.seen = Attempted(seen),
                                          !.outcome = outcome])
        /\ calls' = [calls EXCEPT ![r][n] = @ + 1]
        /\ UNCHANGED <<run, step, evidence, stale, listed, lapsed, faults>>

Recorded(n, seen, outcome) ==
    [seen EXCEPT !.status = outcome,
                 !.result = outcome = "completed" /\ (Kind[n] = "condition" => Verdict[n])]

RecordStep(w) ==
    LET r   == worker[w].run
        n   == Here(w)
        row == Recorded(n, worker[w].seen, worker[w].outcome)
    IN  /\ worker[w].pc = "record"
        /\ IF CanUpsert(r, n, worker[w].seen, row)
             THEN /\ step' = [step EXCEPT ![r][n] = row]
                  /\ GoTo(w, [worker[w] EXCEPT !.pc = "evidence", !.seen = row])
             ELSE /\ GoTo(w, Return(w))
                  /\ UNCHANGED step
        /\ UNCHANGED <<request, run, evidence, stale, listed, calls, lapsed, faults>>

ProceedsUnlessFailed(w) == worker[w].outcome # "failed"

Proceeds(w) == worker[w].outcome \in {"completed", "skipped"}

Settles(outcome) == outcome \in {"completed", "skipped", "failed"}

\* AppendEvidence, in a transaction of its own; then the next node, or out.
AppendEvidence(w) ==
    LET n == Here(w)
    IN  /\ worker[w].pc = "evidence"
        /\ evidence' = IF Settles(worker[w].outcome)
                         THEN evidence \cup {<<worker[w].run, n>>} ELSE evidence
        /\ GoTo(w, IF Proceeds(w)
                     THEN After(w, IF worker[w].seen.result THEN worker[w].open \cup {n}
                                                            ELSE worker[w].open)
                     ELSE [worker[w] EXCEPT !.pc = "release"])
        /\ UNCHANGED <<request, run, step, stale, listed, calls, lapsed, faults>>

(***************************************************************************)
(* ReleaseRun: only under the token of the claim.  A waiting run becomes   *)
(* due again later.                                                        *)
(***************************************************************************)
HoldsLease(w, r) == run[r].lease = w

Released(row, status) ==
    [row EXCEPT !.status = status, !.due = FALSE, !.lease = Nobody, !.expired = FALSE]

ReleaseAs(w, status) ==
    LET r == worker[w].run
    IN  /\ IF HoldsLease(w, r) /\ RunGuard(run[r].status, status)
             THEN /\ WriteRun(r, Released(run[r], status))
                  /\ stale' = stale \cup ReadersOf(r)
             ELSE UNCHANGED <<run, stale>>
        /\ GoTo(w, Return(w))
        /\ UNCHANGED <<request, step, evidence, listed, calls, lapsed, faults>>

ReleaseRun(w) ==
    /\ worker[w].pc = "release"
    /\ ReleaseAs(w, worker[w].outcome)

FinishRun(w) ==
    /\ worker[w].pc = "step"
    /\ worker[w].node > Len(Plan)
    /\ ReleaseAs(w, "completed")

(***************************************************************************)
(* Time and faults                                                         *)
(***************************************************************************)
\* available_at passes.
BecomeDue(r) ==
    /\ r \in Active /\ ~ run[r].due
    /\ run' = [run EXCEPT ![r].due = TRUE]
    /\ UNCHANGED <<request, step, evidence, worker, stale, listed, calls, lapsed, faults>>

Working(w, r) == r \in worker[w].queue \/ (worker[w].pc # "idle" /\ worker[w].run = r)

\* lease_until passes: a fault when the holder still means to use the lease.
ExpireLease(r) ==
    LET overrun == Working(run[r].lease, r)
    IN  /\ run[r].lease # Nobody /\ ~ run[r].expired
        /\ overrun => faults < MaxFaults
        /\ run' = [run EXCEPT ![r].expired = TRUE]
        /\ lapsed' = lapsed \cup {r}
        /\ faults' = IF overrun THEN faults + 1 ELSE faults
        /\ UNCHANGED <<request, step, evidence, worker, stale, listed, calls>>

Faulty(w, state) ==
    /\ faults < MaxFaults
    /\ GoTo(w, state)
    /\ faults' = faults + 1
    /\ UNCHANGED <<request, run, step, evidence, stale, listed, calls, lapsed>>

\* A store call answers with an error, having committed or not.
StoreFails(w) == worker[w].pc # "idle" /\ Faulty(w, Return(w))

Crash(w) ==
    /\ worker[w].pc # "idle" \/ worker[w].queue # {}
    /\ Faulty(w, Idle)

List ==
    /\ listed' = ~ listed
    /\ UNCHANGED <<request, run, step, evidence, worker, stale, calls, lapsed, faults>>

Decide ==
    /\ Decision
    /\ UNCHANGED <<run, step, evidence, worker, stale, listed, calls, lapsed, faults>>

Deadline ==
    /\ \E q \in Requests : PassDeadline(q)
    /\ UNCHANGED <<run, step, evidence, worker, stale, listed, calls, lapsed, faults>>

Execute(w) ==
    \/ LoadRun(w) \/ BeginRun(w) \/ ReadStep(w) \/ MarkStep(w) \/ CallAdapter(w)
    \/ RecordStep(w) \/ AppendEvidence(w) \/ ReleaseRun(w) \/ FinishRun(w)

Next ==
    \/ \E r \in Runs : CreateRun(r) \/ CancelRun(r) \/ BecomeDue(r) \/ ExpireLease(r)
    \/ \E w \in Workers : ClaimRuns(w) \/ Execute(w) \/ StoreFails(w) \/ Crash(w)
    \/ List \/ Decide \/ Deadline

Fairness ==
    /\ \A w \in Workers : WF_vars(ClaimRuns(w)) /\ WF_vars(Execute(w))
    /\ \A r \in Runs : WF_vars(BecomeDue(r)) /\ WF_vars(ExpireLease(r))

Spec == Init /\ [][Next]_vars /\ Fairness

(***************************************************************************)
(* Properties                                                              *)
(***************************************************************************)
RunType  == [status : {"absent"} \cup ActiveStates \cup TerminalStates,
             attempts : 0 .. MaxRunAttempts, due : BOOLEAN,
             lease : Workers \cup {Nobody}, expired : BOOLEAN]
StepType == [status : {"absent", "running", "skipped"} \cup Outcomes, attempts : Nat,
             result : BOOLEAN]
PCs      == {"idle", "loaded", "step", "mark", "act", "record", "evidence", "release"}
WorkerType == [pc : PCs, run : Runs \cup {Nobody}, queue : SUBSET Runs,
               node : 1 .. Len(Plan) + 1, open : SUBSET Nodes, seen : StepType,
               outcome : Outcomes \cup {"skipped"}]

TypeOK ==
    /\ RequestType
    /\ run \in [Runs -> RunType]
    /\ step \in [Runs -> [Nodes -> StepType]]
    /\ evidence \subseteq Runs \X Nodes
    /\ worker \in [Workers -> WorkerType]
    /\ stale \subseteq Workers
    /\ listed \in BOOLEAN
    /\ calls \in [Runs -> [Nodes -> Nat]]
    /\ lapsed \subseteq Runs
    /\ faults \in Nat

Executing(w, r) == worker[w].pc \notin {"idle", "loaded"} /\ worker[w].run = r
InCall(w, r)    == worker[w].pc \in {"act", "record"} /\ worker[w].run = r

\* The nodes that every path to reaches through a.
Behind == [a \in Nodes |->
    UNION {D \in SUBSET Nodes :
             \A n \in D : Parents(n) # {} /\ \A e \in Parents(n) : e[1] \in D \cup {a}}]

(* No node is started before a parent of it completed with a result that   *)
(* opens it, and no approval node completes without the policy's quorum:   *)
(* nothing behind an approval, however far, runs unapproved, whatever      *)
(* stale workers do.                                                       *)
OpenedByParents ==
    \A r \in Runs, n \in Nodes :
        /\ calls[r][n] > 0 /\ Parents(n) # {} =>
              \E e \in Parents(n) : e[3] # "false" /\ step[r][e[1]].status = "completed"
                                    /\ step[r][e[1]].result
        /\ Kind[n] = "approval" /\ step[r][n].status = "completed" =>
              request[<<r, n>>].state = "approved"
        /\ Kind[n] = "approval" /\ request[<<r, n>>].state # "approved" =>
              \A m \in Behind[n] : calls[r][m] = 0

(* A run is completed only when every node is completed or skipped, and    *)
(* failed only by a failed step.                                           *)
EndsWithItsSteps ==
    \A r \in Runs :
        /\ run[r].status = "completed" =>
              \A n \in Nodes : step[r][n].status \in {"completed", "skipped"}
        /\ run[r].status = "failed" => \E n \in Nodes : step[r][n].status = "failed"

(* The adapter of a node is called at most once per attempt of its step,   *)
(* and a step is attempted at most once per execution the run counts.      *)
CallsCounted ==
    \A r \in Runs, n \in Nodes :
        calls[r][n] <= step[r][n].attempts /\
        (step[r][n].status # "skipped" => step[r][n].attempts <= run[r].attempts)

(* Two workers execute one run only after a lease of it ran out.           *)
OverlapNeedsLapse ==
    \A r \in Runs, v, w \in Workers :
        Executing(v, r) /\ Executing(w, r) /\ v # w => r \in lapsed

(* A run that ended stays as it is and gets no new execution; once it is   *)
(* completed or failed no adapter call begins for it, by whichever worker. *)
(* (A cancelled run's executions go on: CancelRun does not stop them.)     *)
EndedRunsRest ==
    [][\A r \in Runs : run[r].status \in TerminalStates =>
          /\ run'[r] = run[r]
          /\ \A w \in Workers : Executing(w, r)' => Executing(w, r)
          /\ run[r].status # "cancelled" =>
                \A w \in Workers : InCall(w, r)' => InCall(w, r)]_vars

Spent(r) == run[r].attempts = MaxRunAttempts

(* While other work keeps its workspace listed, a run of an intact plan    *)
(* ends or spends its attempts: no crash, overrun lease or undecided       *)
(* approval leaves it waiting for a worker for ever.                       *)
EveryRunSettles ==
    <>[]listed =>
        \A r \in Runs : r \in Active ~> (r \notin Active \/ Spent(r))

\* The rows as whoever asks for a run's state sees them: who holds the run, how
\* often it was tried and what it waits for left out.
StateOf(row) == IF row.status \in ActiveStates THEN "going" ELSE row.status

OutcomeOf(row) ==
    CASE row.status = "completed" -> IF row.result THEN "opens" ELSE "shut"
      [] row.status \in {"skipped", "failed"} -> row.status
      [] OTHER -> "todo"

Promise == INSTANCE PlanExecution WITH
    state   <- [r \in Runs |-> StateOf(run[r])],
    outcome <- [r \in Runs |-> [n \in Nodes |-> OutcomeOf(step[r][n])]]

(* The engine implements PlanExecution: each node is settled once and for  *)
(* all, in plan order, performed only behind an open parent and skipped    *)
(* only without one, and a run ends once and as its nodes did, whatever    *)
(* workers overlap, stop, or go on with a run that is no longer theirs.    *)
RunsThePlan == Promise!Spec
=============================================================================
