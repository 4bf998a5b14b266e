------------------------- MODULE WorkflowLeases_proofs -------------------------
(***************************************************************************)
(* What the leases, versions and counters of workflow_runs are good for:   *)
(* two workers execute one run only after a lease of it ran out; a run     *)
(* that ended rests; adapter calls are counted by the attempts of their    *)
(* steps, and those by the attempts of the run; all of it together         *)
(* implements PlanExecution; and nothing behind a gate runs unapproved.    *)
(***************************************************************************)
EXTENDS WorkflowRun_proofs

(***************************************************************************)
(* LeaseInv.  Who works on a run that never lost a lease holds its lease,  *)
(* unless the run was cancelled meanwhile, and is the only one.            *)
(***************************************************************************)
Busy(s, r) == r \in s.queue \/ (s.pc # "idle" /\ s.run = r)

RowsLeased ==
    \A r \in Runs :
        /\ run[r].expired => r \in lapsed
        /\ run[r].status \in TerminalStates => run[r].lease = Nobody
        /\ run[r].status = "absent" => run[r] = NoRun

Alone ==
    \A r \in Runs \ lapsed, v \in Workers : Busy(worker[v], r) =>
        /\ run[r].lease = v \/ run[r].status \in TerminalStates
        /\ \A u \in Workers : Busy(worker[u], r) => u = v

Taken == \A w \in Workers : worker[w].pc # "idle" => worker[w].run \notin worker[w].queue

LeaseInv == RowsLeased /\ Alone /\ Taken

LEMMA NobodyElse == Nobody \notin Workers
BY WorkflowAssumption

\* Rows that a step leaves as far as leases go.
SameLease(q) ==
    /\ run'[q].lease = run[q].lease
    /\ run'[q].expired => run[q].expired
    /\ \/ run'[q].status = run[q].status
       \/ {run[q].status, run'[q].status} \cap (TerminalStates \cup {"absent"}) = {}
    /\ run[q].status = "absent" => run'[q] = run[q]

LEMMA RowsKeepLease ==
    ASSUME RowsLeased, lapsed \subseteq lapsed', NEW q \in Runs, SameLease(q)
    PROVE  /\ run'[q].expired => q \in lapsed'
           /\ run'[q].status \in TerminalStates => run'[q].lease = Nobody
           /\ run'[q].status = "absent" => run'[q] = NoRun
           /\ run[q].status \in TerminalStates => run'[q].status \in TerminalStates
BY DEF RowsLeased, SameLease

\* A step of the worker w, that takes up no run.
LEMMA LeaseByWorker ==
    ASSUME TypeInv, LeaseInv, NEW w \in Workers, NEW s \in WorkerType, GoTo(w, s),
           \A q \in Runs : Busy(s, q) => Busy(worker[w], q),
           s.pc # "idle" => s.run \notin s.queue,
           UNCHANGED lapsed,
           \A q \in Runs :
              \/ SameLease(q)
              \/ /\ run[q].lease = w /\ ~ Busy(s, q)
                 /\ run'[q].lease = Nobody /\ run'[q].expired = FALSE
                 /\ run'[q].status # "absent"
    PROVE  LeaseInv'
<1>1. worker'[w] = s /\ \A v \in Workers \ {w} : worker'[v] = worker[v]
  BY DEF GoTo, TypeInv, TypeOK
<1>2. \A v \in Workers, q \in Runs : Busy(worker'[v], q) => Busy(worker[v], q)
  BY <1>1
<1>3. RowsLeased'
  <2> SUFFICES ASSUME NEW q \in Runs
               PROVE  /\ run'[q].expired => q \in lapsed'
                      /\ run'[q].status \in TerminalStates => run'[q].lease = Nobody
                      /\ run'[q].status = "absent" => run'[q] = NoRun
    BY DEF RowsLeased
  <2> QED
    BY RowsKeepLease DEF LeaseInv
<1>4. Alone'
  <2> SUFFICES ASSUME NEW q \in Runs \ lapsed, NEW v \in Workers, Busy(worker'[v], q)
               PROVE  /\ run'[q].lease = v \/ run'[q].status \in TerminalStates
                      /\ \A u \in Workers : Busy(worker'[u], q) => u = v
    BY DEF Alone, Busy
  <2>1. /\ run[q].lease = v \/ run[q].status \in TerminalStates
        /\ \A u \in Workers : Busy(worker[u], q) => u = v
    BY <1>2 DEF LeaseInv, Alone
  <2>2. CASE SameLease(q)
    BY <1>2, <2>1, <2>2, RowsKeepLease DEF LeaseInv, SameLease
  <2>3. CASE run[q].lease = w /\ ~ Busy(s, q)
    <3>1. v # w
      BY <1>1, <2>3
    <3>2. run[q].status \in TerminalStates
      BY <2>1, <2>3, <3>1
    <3> QED
      BY <2>3, <3>2, NobodyElse DEF LeaseInv, RowsLeased
  <2> QED
    BY <2>2, <2>3
<1>5. Taken'
  <2> SUFFICES ASSUME NEW v \in Workers, worker'[v].pc # "idle"
               PROVE  worker'[v].run \notin worker'[v].queue
    BY DEF Taken
  <2> QED
    BY <1>1 DEF LeaseInv, Taken
<1> QED
  BY <1>3, <1>4, <1>5 DEF LeaseInv

LEMMA SameRows ==
    ASSUME UNCHANGED run
    PROVE  \A q \in Runs : SameLease(q)
BY DEF SameLease

\* An execution or a worker that ends without touching a row.
LEMMA LeaseGivenUp ==
    ASSUME TypeInv, LeaseInv, NEW w \in Workers, UNCHANGED <<run, lapsed>>,
           GoTo(w, Return(w)) \/ GoTo(w, Idle)
    PROVE  LeaseInv'
<1>1. /\ Idle \in WorkerType /\ Idle.pc = "idle" /\ Idle.queue = {}
      /\ Return(w) \in WorkerType /\ Return(w).pc = "idle"
      /\ Return(w).queue = worker[w].queue
  BY IdleType DEF Idle, Return
<1>2. /\ \A q \in Runs : Busy(Idle, q) => Busy(worker[w], q)
      /\ \A q \in Runs : Busy(Return(w), q) => Busy(worker[w], q)
  BY <1>1 DEF Busy
<1> HIDE DEF Return, Idle
<1> QED
  BY <1>1, <1>2, SameRows, LeaseByWorker

\* An execution that goes on: another place, the same run and queue.
LEMMA LeaseGoesOn ==
    ASSUME TypeInv, LeaseInv, NEW w \in Workers, NEW s \in WorkerType, GoTo(w, s),
           worker[w].pc # "idle", s.pc # "idle", s.run = worker[w].run, s.queue = worker[w].queue,
           UNCHANGED lapsed, \A q \in Runs : SameLease(q)
    PROVE  LeaseInv'
<1>1. \A q \in Runs : Busy(s, q) => Busy(worker[w], q)
  BY DEF Busy
<1>2. s.run \notin s.queue
  BY DEF LeaseInv, Taken
<1> QED
  BY <1>1, <1>2, LeaseByWorker


\* Actions on one row, of nobody at work.
LEMMA LeaseByRow ==
    ASSUME TypeInv, LeaseInv, NEW r \in Runs, UNCHANGED worker, lapsed \subseteq lapsed',
           \A q \in Runs \ {r} : run'[q] = run[q],
           run'[r].expired => r \in lapsed',
           run'[r].status \in TerminalStates => run'[r].lease = Nobody,
           run'[r].status # "absent",
           \/ run'[r].lease = run[r].lease /\ run[r].status # "absent"
                /\ (run[r].status \in TerminalStates => run'[r].status \in TerminalStates)
           \/ run'[r].status \in TerminalStates
           \/ run[r].status = "absent"
    PROVE  LeaseInv'
<1>1. RowsLeased'
  <2> SUFFICES ASSUME NEW q \in Runs
               PROVE  /\ run'[q].expired => q \in lapsed'
                      /\ run'[q].status \in TerminalStates => run'[q].lease = Nobody
                      /\ run'[q].status = "absent" => run'[q] = NoRun
    BY DEF RowsLeased
  <2>1. CASE q = r
    BY <2>1
  <2>2. CASE q # r
    BY <2>2 DEF LeaseInv, RowsLeased
  <2> QED
    BY <2>1, <2>2
<1>2. Alone'
  <2> SUFFICES ASSUME NEW q \in Runs \ lapsed', NEW v \in Workers, Busy(worker[v], q)
               PROVE  /\ run'[q].lease = v \/ run'[q].status \in TerminalStates
                      /\ \A u \in Workers : Busy(worker[u], q) => u = v
    BY DEF Alone, Busy
  <2>1. /\ run[q].lease = v \/ run[q].status \in TerminalStates
        /\ \A u \in Workers : Busy(worker[u], q) => u = v
    BY DEF LeaseInv, Alone
  <2>2. run[q].status # "absent"
    BY <2>1, NobodyElse DEF LeaseInv, RowsLeased, NoRun, TerminalStates
  <2> QED
    BY <2>1, <2>2
<1>3. Taken'
  BY DEF LeaseInv, Taken
<1> QED
  BY <1>1, <1>2, <1>3 DEF LeaseInv

LEMMA LeaseOfRows ==
    ASSUME TypeInv, LeaseInv, NEW r \in Runs,
           CreateRun(r) \/ CancelRun(r) \/ BecomeDue(r) \/ ExpireLease(r)
    PROVE  LeaseInv'
<1>1. run \in [Runs -> RunType] /\ run[r] \in RunType
  BY DEF TypeInv, TypeOK
<1>2. UNCHANGED worker /\ \A q \in Runs \ {r} : run'[q] = run[q]
  BY <1>1 DEF CreateRun, CancelRun, BecomeDue, ExpireLease, WriteRun
<1>3. CASE CreateRun(r)
  <2>1. /\ run[r].status = "absent" /\ UNCHANGED lapsed
        /\ run'[r] = [NoRun EXCEPT !.status = "queued", !.due = TRUE]
    BY <1>1, <1>3 DEF CreateRun
  <2>2. run'[r].status = "queued" /\ run'[r].expired = FALSE
    BY <2>1 DEF NoRun
  <2> QED
    BY <1>2, <2>1, <2>2, LeaseByRow DEF TerminalStates
<1>4. CASE CancelRun(r)
  <2>1. /\ UNCHANGED lapsed
        /\ run'[r] = [run[r] EXCEPT !.status = "cancelled", !.lease = Nobody, !.expired = FALSE]
    BY <1>1, <1>4 DEF CancelRun, WriteRun
  <2>2. run'[r].status = "cancelled" /\ run'[r].lease = Nobody /\ run'[r].expired = FALSE
    BY <1>1, <2>1 DEF RunType
  <2> QED
    BY <1>2, <2>1, <2>2, LeaseByRow DEF TerminalStates
<1>5. CASE BecomeDue(r)
  <2>1. /\ UNCHANGED lapsed /\ run'[r] = [run[r] EXCEPT !.due = TRUE]
        /\ run[r].status \in ActiveStates
    BY <1>1, <1>5 DEF BecomeDue, Active
  <2>2. /\ run'[r].status = run[r].status /\ run'[r].lease = run[r].lease
        /\ run'[r].expired = run[r].expired
    BY <1>1, <2>1 DEF RunType
  <2> QED
    BY <1>2, <2>1, <2>2, LeaseByRow DEF ActiveStates, TerminalStates, LeaseInv, RowsLeased
<1>6. CASE ExpireLease(r)
  <2>1. /\ lapsed' = lapsed \cup {r} /\ run'[r] = [run[r] EXCEPT !.expired = TRUE]
        /\ run[r].lease # Nobody
    BY <1>1, <1>6 DEF ExpireLease
  <2>2. run'[r].status = run[r].status /\ run'[r].lease = run[r].lease
    BY <1>1, <2>1 DEF RunType
  <2>3. run[r].status \notin TerminalStates /\ run[r].status # "absent"
    BY <2>1 DEF LeaseInv, RowsLeased, NoRun
  <2> QED
    BY <1>2, <2>1, <2>2, <2>3, LeaseByRow
<1> QED
  BY <1>3, <1>4, <1>5, <1>6

LEMMA LeaseOfClaim ==
    ASSUME TypeInv, LeaseInv, NEW w \in Workers, ClaimRuns(w)
    PROVE  LeaseInv'
<1>0. run \in [Runs -> RunType] /\ worker \in [Workers -> WorkerType] /\ UNCHANGED lapsed
  BY DEF TypeInv, TypeOK, ClaimRuns
<1>1. PICK batch \in SUBSET Due :
        /\ run' = [r \in Runs |-> IF r \in batch
                                   THEN [run[r] EXCEPT !.lease = w, !.expired = FALSE]
                                   ELSE run[r]]
        /\ worker' = [worker EXCEPT ![w].queue = batch]
  BY DEF ClaimRuns
<1>2. worker[w].pc = "idle" /\ worker[w].queue = {}
  BY DEF ClaimRuns
<1>3. /\ worker'[w].pc = "idle" /\ worker'[w].queue = batch
      /\ \A v \in Workers \ {w} : worker'[v] = worker[v]
  BY <1>0, <1>1, <1>2 DEF WorkerType
<1>4. \A q \in batch : /\ q \in Runs /\ run'[q].lease = w /\ run'[q].expired = FALSE
                       /\ run'[q].status = run[q].status
                       /\ run[q].status \in ActiveStates
                       /\ run[q].lease = Nobody \/ run[q].expired
  BY <1>0, <1>1 DEF Due, Active, RunType
<1>5. \A q \in Runs \ batch : run'[q] = run[q]
  BY <1>1
<1>6. RowsLeased'
  BY <1>0, <1>4, <1>5 DEF LeaseInv, RowsLeased, ActiveStates, TerminalStates
<1>7. Alone'
  <2> SUFFICES ASSUME NEW q \in Runs \ lapsed, NEW v \in Workers, Busy(worker'[v], q)
               PROVE  /\ run'[q].lease = v \/ run'[q].status \in TerminalStates
                      /\ \A u \in Workers : Busy(worker'[u], q) => u = v
    BY <1>0 DEF Alone, Busy
  <2>1. CASE q \in batch
    <3>1. run[q].lease = Nobody /\ run[q].status \notin TerminalStates
      BY <1>4, <2>1 DEF LeaseInv, RowsLeased, ActiveStates, TerminalStates
    <3>2. \A u \in Workers : ~ Busy(worker[u], q)
      BY <3>1, NobodyElse DEF LeaseInv, Alone
    <3>3. \A u \in Workers : Busy(worker'[u], q) => u = w
      BY <1>3, <3>2
    <3> QED
      BY <1>4, <2>1, <3>3
  <2>2. CASE q \notin batch
    <3>1. ~ Busy(worker'[w], q)
      BY <1>3, <2>2 DEF Busy
    <3>2. \A u \in Workers : Busy(worker'[u], q) => Busy(worker[u], q)
      BY <1>3, <3>1
    <3> QED
      BY <1>5, <2>2, <3>2 DEF LeaseInv, Alone
  <2> QED
    BY <2>1, <2>2
<1>8. Taken'
  BY <1>3 DEF LeaseInv, Taken
<1> QED
  BY <1>6, <1>7, <1>8 DEF LeaseInv

LEMMA LeaseOfLoad ==
    ASSUME TypeInv, LeaseInv, NEW w \in Workers, LoadRun(w)
    PROVE  LeaseInv'
<1>1. PICK r \in worker[w].queue :
        \/ GoTo(w, [Idle EXCEPT !.pc = "loaded", !.run = r, !.queue = worker[w].queue \ {r}])
        \/ GoTo(w, [Idle EXCEPT !.queue = worker[w].queue \ {r}])
  BY DEF LoadRun
<1>2. r \in Runs /\ worker[w].queue \ {r} \in SUBSET Runs /\ UNCHANGED <<run, lapsed>>
  BY WorkerFields DEF LoadRun
<1>3. PICK u, t : /\ u = [Idle EXCEPT !.pc = "loaded", !.run = r, !.queue = worker[w].queue \ {r}]
                  /\ t = [Idle EXCEPT !.queue = worker[w].queue \ {r}]
  OBVIOUS
<1>4. /\ u \in WorkerType /\ u.pc = "loaded" /\ u.run = r /\ u.queue = worker[w].queue \ {r}
      /\ t \in WorkerType /\ t.pc = "idle" /\ t.queue = worker[w].queue \ {r}
  BY <1>2, <1>3, IdleType DEF WorkerType, PCs, Idle
<1>5. /\ \A q \in Runs : Busy(u, q) => Busy(worker[w], q)
      /\ \A q \in Runs : Busy(t, q) => Busy(worker[w], q)
  BY <1>4 DEF Busy
<1>6. GoTo(w, u) \/ GoTo(w, t)
  BY <1>1, <1>3
<1> QED
  BY <1>2, <1>4, <1>5, <1>6, SameRows, LeaseByWorker

LEMMA LeaseOfBegin ==
    ASSUME TypeInv, LeaseInv, NEW w \in Workers, BeginRun(w)
    PROVE  LeaseInv'
<1>1. PICK r \in Runs : r = worker[w].run /\ run[r] \in RunType
  BY AtWork DEF BeginRun
<1>2. worker[w].pc = "loaded" /\ UNCHANGED lapsed
  BY DEF BeginRun
<1>3. CASE ~ MayBegin(w, r)
  <2>1. GoTo(w, Return(w)) /\ UNCHANGED run
    BY <1>1, <1>3 DEF BeginRun
  <2> QED
    BY <1>2, <2>1, LeaseGivenUp
<1>4. CASE MayBegin(w, r)
  <2>1. PICK u : u = [worker[w] EXCEPT !.pc = "step"]
    OBVIOUS
  <2>2. /\ GoTo(w, u)
        /\ run' = [run EXCEPT ![r] = [run[r] EXCEPT !.status = "running", !.attempts = @ + 1]]
    BY <1>1, <1>4, <2>1 DEF BeginRun, WriteRun
  <2>3. u \in WorkerType /\ u.pc = "step" /\ u.run = r /\ u.queue = worker[w].queue
    BY <1>1, <2>1, WorkerFields DEF WorkerType, PCs
  <2>4. /\ \A q \in Runs \ {r} : run'[q] = run[q]
        /\ run'[r].status = "running" /\ run'[r].lease = run[r].lease
        /\ run'[r].expired = run[r].expired
    BY <1>1, <2>2 DEF TypeInv, TypeOK, RunType
  <2>5. run[r].status \notin TerminalStates \cup {"absent"}
    BY <1>4 DEF MayBegin, RunGuard, TerminalStates
  <2>6. \A q \in Runs : SameLease(q)
    BY <2>4, <2>5 DEF SameLease, TerminalStates
  <2> QED
    BY <1>1, <1>2, <2>2, <2>3, <2>6, LeaseGoesOn
<1> QED
  BY <1>3, <1>4

LEMMA LeaseOfRelease ==
    ASSUME TypeInv, LeaseInv, NEW w \in Workers, NEW status, ReleaseAs(w, status),
           worker[w].pc # "idle"
    PROVE  LeaseInv'
<1>1. PICK r \in Runs : r = worker[w].run /\ run[r] \in RunType
  BY AtWork
<1>2. GoTo(w, Return(w)) /\ UNCHANGED lapsed
  BY DEF ReleaseAs
<1>3. CASE UNCHANGED run
  BY <1>2, <1>3, LeaseGivenUp
<1>4. CASE /\ HoldsLease(w, r) /\ RunGuard(run[r].status, status)
           /\ run' = [run EXCEPT ![r] = Released(run[r], status)]
  <2>1. PICK s : s = Return(w)
    OBVIOUS
  <2>2. s \in WorkerType /\ s.pc = "idle" /\ s.queue = worker[w].queue
    BY <2>1, IdleType DEF Return, Idle
  <2>3. ~ Busy(s, r) /\ \A q \in Runs : Busy(s, q) => Busy(worker[w], q)
    BY <1>1, <2>2 DEF Busy, LeaseInv, Taken
  <2>4. /\ \A q \in Runs \ {r} : run'[q] = run[q]
        /\ run'[r].lease = Nobody /\ run'[r].expired = FALSE /\ run'[r].status = status
    BY <1>1, <1>4 DEF Released, RunType, TypeInv, TypeOK
  <2>5. run[r].lease = w
    BY <1>4 DEF HoldsLease
  <2>6. status # "absent"
    BY <1>4, <2>5, NobodyElse DEF RunGuard, LeaseInv, RowsLeased, NoRun, TerminalStates
  <2>7. \A q \in Runs \ {r} : SameLease(q)
    BY <2>4 DEF SameLease
  <2> QED
    BY <1>2, <2>1, <2>2, <2>3, <2>4, <2>5, <2>6, <2>7, LeaseByWorker
<1> QED
  BY <1>1, <1>3, <1>4 DEF ReleaseAs, WriteRun

\* Where a worker at work goes next: on, or away.
Leaves(w) == GoTo(w, Return(w))
Moves(w)  == \E s \in WorkerType : /\ GoTo(w, s) /\ s.pc # "idle"
                                   /\ s.run = worker[w].run /\ s.queue = worker[w].queue

LEMMA WorkMoves ==
    ASSUME TypeInv, NEW w \in Workers,
           ReadStep(w) \/ MarkStep(w) \/ CallAdapter(w) \/ RecordStep(w) \/ AppendEvidence(w)
    PROVE  /\ worker[w].pc # "idle" /\ UNCHANGED <<run, lapsed>>
           /\ Leaves(w) \/ Moves(w)
<1>1. worker[w].pc # "idle" /\ UNCHANGED <<run, lapsed>>
  BY DEF ReadStep, MarkStep, CallAdapter, RecordStep, AppendEvidence
<1>2. PICK u \in WorkerType : u = worker[w]
  BY WorkerFields
<1>3. PICK n : n = Here(w)
  OBVIOUS
<1>4. /\ worker[w].node <= Len(Plan) => n \in Nodes
      /\ u.seen \in StepType /\ u.open \in SUBSET Nodes /\ u.node \in 1 .. Len(Plan) + 1
  BY <1>2, <1>3, HereIsNode, WorkerFields DEF TypeInv
<1>5. CASE ReadStep(w)
  <2>1. PICK more \in SUBSET Nodes, row \in StepType :
          \/ GoTo(w, After(w, more))
          \/ GoTo(w, [u EXCEPT !.pc = "mark", !.seen = row])
    <3>1. u.node <= Len(Plan) /\ u.run \in Runs /\ n \in Nodes
      BY <1>2, <1>4, <1>5, AtWork DEF ReadStep
    <3>2. step[u.run][n] \in StepType
      BY <3>1 DEF TypeInv, TypeOK
    <3>3. u.open \cup {n} \in SUBSET Nodes
      BY <1>4, <3>1
    <3> QED
      BY <1>2, <1>3, <1>4, <1>5, <3>2, <3>3 DEF ReadStep
  <2>2. CASE GoTo(w, After(w, more))
    <3>1. After(w, more) \in WorkerType /\ After(w, more).pc = "step"
          /\ After(w, more).run = worker[w].run
      BY <1>1, <1>5, AfterTyped DEF ReadStep
    <3>2. After(w, more).queue = worker[w].queue
      BY <1>2 DEF After, WorkerType
    <3> QED
      BY <1>1, <2>2, <3>1, <3>2 DEF Moves
  <2>3. CASE GoTo(w, [u EXCEPT !.pc = "mark", !.seen = row])
    <3>1. PICK s : s = [u EXCEPT !.pc = "mark", !.seen = row]
      OBVIOUS
    <3>2. s \in WorkerType /\ s.pc = "mark" /\ s.run = u.run /\ s.queue = u.queue
      BY <3>1 DEF WorkerType, PCs
    <3> QED
      BY <1>1, <1>2, <2>3, <3>1, <3>2 DEF Moves
  <2> QED
    BY <2>1, <2>2, <2>3
<1>6. CASE MarkStep(w)
  <2>1. PICK row \in StepType :
          \/ GoTo(w, Return(w))
          \/ GoTo(w, [u EXCEPT !.pc = "act"])
          \/ GoTo(w, [u EXCEPT !.pc = "evidence", !.seen = row, !.outcome = "skipped"])
    <3>1. Attempted(u.seen) \in StepType /\ Skipped(u.seen) \in StepType
      BY <1>4, AttemptTyped
    <3> QED
      BY <1>2, <1>6, <3>1 DEF MarkStep
  <2>2. PICK s, t : /\ s = [u EXCEPT !.pc = "act"]
                    /\ t = [u EXCEPT !.pc = "evidence", !.seen = row, !.outcome = "skipped"]
    OBVIOUS
  <2>3. /\ s \in WorkerType /\ s.pc = "act" /\ s.run = u.run /\ s.queue = u.queue
        /\ t \in WorkerType /\ t.pc = "evidence" /\ t.run = u.run /\ t.queue = u.queue
    BY <2>2 DEF WorkerType, PCs
  <2> QED
    BY <1>1, <1>2, <2>1, <2>2, <2>3 DEF Moves, Leaves
<1>7. CASE CallAdapter(w)
  <2>1. PICK o \in Outcomes :
          GoTo(w, [u EXCEPT !.pc = "record", !.seen = Attempted(u.seen), !.outcome = o])
    BY <1>2, <1>7 DEF CallAdapter
  <2>2. PICK s : s = [u EXCEPT !.pc = "record", !.seen = Attempted(u.seen), !.outcome = o]
    OBVIOUS
  <2>3. s \in WorkerType /\ s.pc = "record" /\ s.run = u.run /\ s.queue = u.queue
    BY <1>4, <2>2, AttemptTyped DEF WorkerType, PCs
  <2> QED
    BY <1>1, <1>2, <2>1, <2>2, <2>3 DEF Moves
<1>8. CASE RecordStep(w)
  <2>1. PICK row \in StepType :
          \/ GoTo(w, Return(w))
          \/ GoTo(w, [u EXCEPT !.pc = "evidence", !.seen = row])
    <3>1. n \in Nodes /\ u.outcome \in Outcomes \cup {"skipped"}
      BY <1>2, <1>3, <1>8, AtWork, WorkerFields DEF RecordStep
    <3>2. Recorded(n, u.seen, u.outcome) \in StepType
      BY <1>4, <3>1, AttemptTyped
    <3> QED
      BY <1>2, <1>3, <1>8, <3>2 DEF RecordStep
  <2>2. PICK s : s = [u EXCEPT !.pc = "evidence", !.seen = row]
    OBVIOUS
  <2>3. s \in WorkerType /\ s.pc = "evidence" /\ s.run = u.run /\ s.queue = u.queue
    BY <2>2 DEF WorkerType, PCs
  <2> QED
    BY <1>1, <1>2, <2>1, <2>2, <2>3 DEF Moves, Leaves
<1>9. CASE AppendEvidence(w)
  <2>1. PICK more \in SUBSET Nodes :
          GoTo(w, After(w, more)) \/ GoTo(w, [u EXCEPT !.pc = "release"])
    <3>1. n \in Nodes
      BY <1>3, <1>9, AtWork DEF AppendEvidence
    <3>2. u.open \cup {n} \in SUBSET Nodes
      BY <1>4, <3>1
    <3> QED
      BY <1>2, <1>3, <1>4, <1>9, <3>2 DEF AppendEvidence
  <2>2. CASE GoTo(w, After(w, more))
    <3>1. worker[w].node <= Len(Plan)
      BY <1>9, AtWork DEF AppendEvidence
    <3>2. After(w, more) \in WorkerType /\ After(w, more).pc = "step"
          /\ After(w, more).run = worker[w].run
      BY <1>1, <3>1, AfterTyped
    <3>3. After(w, more).queue = worker[w].queue
      BY <1>2 DEF After, WorkerType
    <3> QED
      BY <1>1, <2>2, <3>2, <3>3 DEF Moves
  <2>3. CASE GoTo(w, [u EXCEPT !.pc = "release"])
    <3>1. PICK s : s = [u EXCEPT !.pc = "release"]
      OBVIOUS
    <3>2. s \in WorkerType /\ s.pc = "release" /\ s.run = u.run /\ s.queue = u.queue
      BY <3>1 DEF WorkerType, PCs
    <3> QED
      BY <1>1, <1>2, <2>3, <3>1, <3>2 DEF Moves
  <2> QED
    BY <2>1, <2>2, <2>3
<1> QED
  BY <1>1, <1>5, <1>6, <1>7, <1>8, <1>9

LEMMA LeaseOfExecute ==
    ASSUME TypeInv, LeaseInv, NEW w \in Workers, Execute(w)
    PROVE  LeaseInv'
<1>1. CASE ReadStep(w) \/ MarkStep(w) \/ CallAdapter(w) \/ RecordStep(w) \/ AppendEvidence(w)
  <2>1. worker[w].pc # "idle" /\ UNCHANGED <<run, lapsed>> /\ (Leaves(w) \/ Moves(w))
    BY <1>1, WorkMoves
  <2>2. CASE Leaves(w)
    BY <2>1, <2>2, LeaseGivenUp DEF Leaves
  <2>3. CASE Moves(w)
    BY <2>1, <2>3, SameRows, LeaseGoesOn DEF Moves
  <2> QED
    BY <2>1, <2>2, <2>3
<1>2. CASE ReleaseRun(w) \/ FinishRun(w)
  BY <1>2, LeaseOfRelease DEF ReleaseRun, FinishRun
<1> QED
  BY <1>1, <1>2, LeaseOfLoad, LeaseOfBegin DEF Execute

LEMMA LeaseStep ==
    ASSUME TypeInv, LeaseInv, [Next]_vars
    PROVE  LeaseInv'
<1>1. ASSUME NEW w \in Workers, StoreFails(w) \/ Crash(w)
      PROVE  LeaseInv'
  BY <1>1, LeaseGivenUp DEF StoreFails, Crash, Faulty
<1>2. ASSUME UNCHANGED <<run, worker, lapsed>>
      PROVE  LeaseInv'
  BY <1>2 DEF LeaseInv, RowsLeased, Alone, Taken, Busy
<1>3. CASE List \/ Decide \/ Deadline \/ UNCHANGED vars
  BY <1>2, <1>3 DEF List, Decide, Deadline, vars
<1> QED
  BY <1>1, <1>3, LeaseOfRows, LeaseOfClaim, LeaseOfExecute DEF Next

LEMMA LeaseInit ==
    ASSUME Init
    PROVE  LeaseInv
<1>1. \A r \in Runs, w \in Workers : ~ Busy(worker[w], r)
  BY DEF Init, Idle, Busy
<1>2. RowsLeased /\ Taken
  BY DEF Init, NoRun, Idle, RowsLeased, Taken, TerminalStates
<1> QED
  BY <1>1, <1>2 DEF LeaseInv, Alone

LeaseParts == TypeInv /\ LeaseInv

LEMMA LeaseInductive ==
    /\ Init => LeaseParts
    /\ LeaseParts /\ [Next]_vars => LeaseParts'
BY TypeInit, LeaseInit, TypeStep, LeaseStep DEF LeaseParts

(* OverlapNeedsLapse, of any number of workers and runs: claims, releases, *)
(* cancels, crashes and failed calls never give one run to two workers; it *)
(* takes a lease that ran out (ClaimRuns, ReleaseRun).                     *)
THEOREM OneWorkerUnlessLapsed == Spec => []OverlapNeedsLapse
<1>1. LeaseParts => OverlapNeedsLapse
  BY DEF LeaseParts, LeaseInv, Alone, Busy, OverlapNeedsLapse, Executing
<1> QED
  BY <1>1, LeaseInductive, PTL DEF Spec

(***************************************************************************)
(* A failed step has only completed and skipped nodes before it: whoever   *)
(* wrote it had passed them, and they are final.                           *)
(***************************************************************************)
FailedBehind ==
    \A r \in Runs, i, j \in 1 .. Len(Plan) :
        step[r][Plan[i]].status = "failed" /\ j < i => step[r][Plan[j]].status \in Passed

\* A step row is written by a worker at its node, and only before it is settled.
LEMMA OneRowWritten ==
    ASSUME TypeInv, FlowInv, [Next]_vars, step' # step
    PROVE  \E u \in WorkerType, row \in StepType :
              /\ u.run \in Runs /\ u.node \in 1 .. Len(Plan) /\ Plan[u.node] \in Nodes
              /\ BehindSettled(u)
              /\ step' = [step EXCEPT ![u.run][Plan[u.node]] = row]
              /\ step[u.run][Plan[u.node]].status \notin Settled
<1>1. PICK w \in Workers : MarkStep(w) \/ RecordStep(w)
  BY DEF Next, vars, CreateRun, CancelRun, BecomeDue, ExpireLease, ClaimRuns, Execute,
     LoadRun, BeginRun, ReadStep, CallAdapter, AppendEvidence, ReleaseRun, FinishRun,
     ReleaseAs, StoreFails, Crash, Faulty, List, Decide, Deadline
<1>2. worker[w].pc \in {"mark", "record"}
  BY <1>1 DEF MarkStep, RecordStep
<1>3. PICK u \in WorkerType :
        /\ u = worker[w] /\ u.run \in Runs /\ u.node \in 1 .. Len(Plan)
        /\ u.node <= Len(Plan) /\ Here(w) = Plan[u.node] /\ Plan[u.node] \in Nodes
        /\ u.seen \in StepType /\ u.open \in SUBSET Nodes
        /\ BehindSettled(u) /\ Carries(u)
  BY <1>2, AtNodeNow
<1>4. PICK n \in Nodes : n = Plan[u.node]
  BY <1>3
<1>5. CASE MarkStep(w)
  <2>1. PICK row \in StepType :
          row = IF Runnable(n, u.open) THEN Attempted(u.seen) ELSE Skipped(u.seen)
    BY <1>3, AttemptTyped
  <2>2. row.status \in {"running", "skipped"} /\ u.seen.status \notin Passed
    BY <1>3, <1>5, <2>1, AttemptTyped DEF Carries, MarkStep
  <2>3. CanUpsert(u.run, n, u.seen, row) /\ step' = [step EXCEPT ![u.run][n] = row]
    BY <1>3, <1>4, <1>5, <2>1 DEF MarkStep
  <2>4. step[u.run][n].status \notin Settled
    BY <1>3, <2>2, <2>3, MayWrite
  <2> QED
    BY <1>3, <1>4, <2>3, <2>4
<1>6. CASE RecordStep(w)
  <2>1. PICK row : row = Recorded(n, u.seen, u.outcome)
    OBVIOUS
  <2>2. row \in StepType
    BY <1>3, <2>1, AttemptTyped, WorkerFields
  <2>3. CanUpsert(u.run, n, u.seen, row) /\ step' = [step EXCEPT ![u.run][n] = row]
    BY <1>3, <1>4, <1>6, <2>1 DEF RecordStep
  <2>4. u.seen.status = "running" /\ step[u.run][n] = u.seen
    BY <1>3, <1>6, <2>3 DEF Carries, RecordStep, CanUpsert, StepUnchanged
  <2> QED
    BY <1>3, <1>4, <2>2, <2>3, <2>4 DEF Settled
<1> QED
  BY <1>1, <1>5, <1>6

LEMMA PlanDistinct ==
    ASSUME NEW i \in 1 .. Len(Plan), NEW j \in 1 .. Len(Plan), Plan[i] = Plan[j]
    PROVE  i = j
BY WorkflowAssumption

LEMMA FailedStep ==
    ASSUME TypeInv, FlowInv, FailedBehind, [Next]_vars
    PROVE  FailedBehind'
<1>1. CASE UNCHANGED step
  BY <1>1 DEF FailedBehind
<1>2. CASE step' # step
  <2>1. PICK u \in WorkerType, row \in StepType :
          /\ u.run \in Runs /\ u.node \in 1 .. Len(Plan) /\ Plan[u.node] \in Nodes
          /\ BehindSettled(u)
          /\ step' = [step EXCEPT ![u.run][Plan[u.node]] = row]
          /\ step[u.run][Plan[u.node]].status \notin Settled
    BY <1>2, OneRowWritten
  <2>2. \A q \in Runs, m \in Nodes : q # u.run \/ m # Plan[u.node] => step'[q][m] = step[q][m]
    BY <2>1, StepTyped
  <2> SUFFICES ASSUME NEW r \in Runs, NEW i \in 1 .. Len(Plan), NEW j \in 1 .. Len(Plan),
                      step'[r][Plan[i]].status = "failed", j < i
               PROVE  step'[r][Plan[j]].status \in Passed
    BY DEF FailedBehind
  <2>3. Plan[i] \in Nodes /\ Plan[j] \in Nodes
    BY NodeAt
  <2>4. CASE r # u.run
    BY <2>2, <2>3, <2>4 DEF FailedBehind
  <2>5. CASE r = u.run /\ i = u.node
    <3>1. Plan[j] # Plan[i]
      BY PlanDistinct
    <3>2. step[r][Plan[j]].status \in Passed
      BY <2>1, <2>5 DEF BehindSettled
    <3> QED
      BY <2>2, <2>3, <2>5, <3>1, <3>2
  <2>6. CASE r = u.run /\ i # u.node
    <3>1. Plan[i] # Plan[u.node]
      BY <2>1, <2>6, PlanDistinct
    <3>2. step[r][Plan[j]].status \in Passed
      BY <2>2, <2>3, <3>1 DEF FailedBehind
    <3>3. Plan[j] # Plan[u.node]
      BY <2>1, <2>6, <3>2 DEF Passed, Settled
    <3> QED
      BY <2>2, <2>3, <3>2, <3>3
  <2> QED
    BY <2>4, <2>5, <2>6
<1> QED
  BY <1>1, <1>2

LEMMA FailedInit ==
    ASSUME Init
    PROVE  FailedBehind
BY NodeAt DEF Init, FailedBehind, NoStep

RestParts == TypeInv /\ FlowInv /\ LeaseInv /\ FailedBehind

LEMMA RestInductive ==
    /\ Init => RestParts
    /\ RestParts /\ [Next]_vars => RestParts'
BY TypeInit, FlowInit, LeaseInit, FailedInit, TypeStep, FlowStep, LeaseStep, FailedStep
   DEF RestParts

\* The row: only a worker under a lease, an operator or a claim of an active
\* run writes one, and the guard refuses what has ended.
LEMMA EndedRow ==
    ASSUME RestParts, [Next]_vars, NEW r \in Runs, run[r].status \in TerminalStates
    PROVE  run'[r] = run[r]
<1>1. /\ run \in [Runs -> RunType] /\ run[r].lease = Nobody
      /\ run[r].status # "absent" /\ run[r].status \notin ActiveStates
  BY DEF RestParts, TypeInv, TypeOK, LeaseInv, RowsLeased, TerminalStates, ActiveStates
<1>2. ASSUME NEW q \in Runs, CreateRun(q) \/ CancelRun(q) \/ BecomeDue(q) \/ ExpireLease(q)
      PROVE  run'[r] = run[r]
  <2>1. q # r
    BY <1>1, <1>2 DEF CreateRun, CancelRun, BecomeDue, ExpireLease, Active
  <2> QED
    BY <1>1, <1>2, <2>1 DEF CreateRun, CancelRun, BecomeDue, ExpireLease, WriteRun
<1>3. ASSUME NEW w \in Workers, ClaimRuns(w)
      PROVE  run'[r] = run[r]
  BY <1>1, <1>3 DEF ClaimRuns, Due, Active
<1>4. ASSUME NEW w \in Workers, BeginRun(w)
      PROVE  run'[r] = run[r]
  BY <1>1, <1>4 DEF BeginRun, MayBegin, RunGuard, WriteRun, TerminalStates
<1>5. ASSUME NEW w \in Workers, ReleaseRun(w) \/ FinishRun(w)
      PROVE  run'[r] = run[r]
  BY <1>1, <1>5, NobodyElse DEF ReleaseRun, FinishRun, ReleaseAs, HoldsLease, WriteRun
<1>6. ASSUME NEW w \in Workers,
             LoadRun(w) \/ ReadStep(w) \/ MarkStep(w) \/ CallAdapter(w) \/ RecordStep(w)
             \/ AppendEvidence(w) \/ StoreFails(w) \/ Crash(w)
      PROVE  run'[r] = run[r]
  BY <1>6 DEF LoadRun, ReadStep, MarkStep, CallAdapter, RecordStep, AppendEvidence,
     StoreFails, Crash, Faulty
<1> QED
  BY <1>2, <1>3, <1>4, <1>5, <1>6 DEF Next, Execute, List, Decide, Deadline, vars

\* Only BeginRun begins an execution, and only of a run that has not ended.
LEMMA EndedUnworked ==
    ASSUME RestParts, [Next]_vars, NEW r \in Runs, run[r].status \in TerminalStates,
           NEW w \in Workers, Executing(w, r)'
    PROVE  Executing(w, r)
<1>0. TypeInv /\ worker \in [Workers -> WorkerType]
  BY DEF RestParts, TypeInv, TypeOK
<1> SUFFICES ASSUME worker'[w] # worker[w] PROVE Executing(w, r)
  BY DEF Executing
<1>1. \/ worker'[w].pc \in {"idle", "loaded"}
      \/ ReadStep(w) \/ MarkStep(w) \/ CallAdapter(w) \/ RecordStep(w) \/ AppendEvidence(w)
  <2>1. ASSUME NEW v \in Workers, ClaimRuns(v)
        PROVE  worker'[w].pc \in {"idle", "loaded"}
    <3>1. worker[v].pc = "idle" /\ \E batch \in SUBSET Due : worker' = [worker EXCEPT ![v].queue = batch]
      BY <2>1 DEF ClaimRuns
    <3> QED
      BY <1>0, <3>1 DEF WorkerType
  <2>2. ASSUME NEW v \in Workers, LoadRun(v)
        PROVE  worker'[w].pc \in {"idle", "loaded"}
    BY <1>0, <2>2 DEF LoadRun, GoTo, Idle
  <2>3. ASSUME NEW v \in Workers, BeginRun(v)
        PROVE  worker'[w].pc \in {"idle", "loaded"}
    <3>1. CASE MayBegin(v, worker[v].run)
      <4>1. GoTo(v, [worker[v] EXCEPT !.pc = "step"]) /\ worker[v].run # r
        BY <2>3, <3>1 DEF BeginRun, MayBegin, RunGuard, TerminalStates
      <4>2. v = w
        BY <1>0, <4>1 DEF GoTo
      <4>3. worker'[w] = [worker[w] EXCEPT !.pc = "step"]
        BY <1>0, <4>1, <4>2 DEF GoTo
      <4>4. worker'[w].run = worker[w].run
        BY <1>0, <4>3 DEF WorkerType
      <4> QED
        BY <4>1, <4>2, <4>4 DEF Executing
    <3>2. CASE ~ MayBegin(v, worker[v].run)
      BY <1>0, <2>3, <3>2 DEF BeginRun, GoTo, Return, Idle
    <3> QED
      BY <3>1, <3>2
  <2>4. ASSUME NEW v \in Workers, ReleaseRun(v) \/ FinishRun(v) \/ StoreFails(v) \/ Crash(v)
        PROVE  worker'[w].pc \in {"idle", "loaded"}
    BY <1>0, <2>4 DEF ReleaseRun, FinishRun, ReleaseAs, StoreFails, Crash, Faulty, GoTo, Return, Idle
  <2>5. ASSUME NEW v \in Workers,
               ReadStep(v) \/ MarkStep(v) \/ CallAdapter(v) \/ RecordStep(v) \/ AppendEvidence(v)
        PROVE  v = w
    BY <1>0, <2>5 DEF ReadStep, MarkStep, CallAdapter, RecordStep, AppendEvidence, GoTo
  <2>6. ASSUME NEW q \in Runs
        PROVE  ~ (CreateRun(q) \/ CancelRun(q) \/ BecomeDue(q) \/ ExpireLease(q))
    BY DEF CreateRun, CancelRun, BecomeDue, ExpireLease
  <2>7. ~ (List \/ Decide \/ Deadline \/ UNCHANGED vars)
    BY DEF List, Decide, Deadline, vars
  <2> QED
    BY <2>1, <2>2, <2>3, <2>4, <2>5, <2>6, <2>7 DEF Next, Execute
<1>2. CASE worker'[w].pc \in {"idle", "loaded"}
  BY <1>2 DEF Executing
<1>3. CASE ReadStep(w) \/ MarkStep(w) \/ CallAdapter(w) \/ RecordStep(w) \/ AppendEvidence(w)
  <2>1. worker[w].pc \notin {"idle", "loaded"}
    BY <1>3 DEF ReadStep, MarkStep, CallAdapter, RecordStep, AppendEvidence
  <2>2. Leaves(w) \/ Moves(w)
    BY <1>0, <1>3, WorkMoves
  <2>3. ~ Leaves(w)
    BY <1>0 DEF Leaves, GoTo, Return, Idle, Executing
  <2>4. worker'[w].run = worker[w].run
    BY <1>0, <2>2, <2>3 DEF Moves, GoTo
  <2> QED
    BY <2>1, <2>4 DEF Executing
<1> QED
  BY <1>1, <1>2, <1>3

\* A call begins only at a step that may be marked running, and an ended run
\* has none: what it did is completed, skipped, or failed with nothing behind.
LEMMA EndedUncalled ==
    ASSUME RestParts, [Next]_vars, NEW r \in Runs, run[r].status \in {"completed", "failed"},
           NEW w \in Workers, InCall(w, r)'
    PROVE  InCall(w, r)
<1>0. TypeInv /\ FlowInv /\ FailedBehind /\ worker \in [Workers -> WorkerType]
  BY DEF RestParts, TypeInv, TypeOK
<1> SUFFICES ASSUME ~ InCall(w, r) PROVE FALSE
  OBVIOUS
<1>1. Executing(w, r)
  <2>1. run[r].status \in TerminalStates /\ Executing(w, r)'
    BY DEF TerminalStates, InCall, Executing
  <2> QED
    BY <2>1, EndedUnworked
<1>2. worker[w].run = r /\ worker'[w].pc \in {"act", "record"}
      /\ worker[w].pc \notin {"idle", "loaded", "act", "record"} /\ worker'[w] # worker[w]
  BY <1>1 DEF Executing, InCall
<1>3. MarkStep(w)
  <2>1. ASSUME NEW v \in Workers, v # w
        PROVE  ~ (ClaimRuns(v) \/ Execute(v) \/ StoreFails(v) \/ Crash(v))
    BY <1>0, <1>2, <2>1 DEF ClaimRuns, Execute, LoadRun, BeginRun, ReadStep, MarkStep,
       CallAdapter, RecordStep, AppendEvidence, ReleaseRun, FinishRun, ReleaseAs,
       StoreFails, Crash, Faulty, GoTo
  <2>2. ASSUME NEW q \in Runs
        PROVE  ~ (CreateRun(q) \/ CancelRun(q) \/ BecomeDue(q) \/ ExpireLease(q))
    BY <1>2 DEF CreateRun, CancelRun, BecomeDue, ExpireLease
  <2>3. ~ (List \/ Decide \/ Deadline \/ UNCHANGED vars)
    BY <1>2 DEF List, Decide, Deadline, vars
  <2>4. ~ (ClaimRuns(w) \/ LoadRun(w) \/ BeginRun(w) \/ CallAdapter(w) \/ RecordStep(w))
    BY <1>2 DEF ClaimRuns, LoadRun, BeginRun, CallAdapter, RecordStep
  <2>5. ~ (ReleaseRun(w) \/ FinishRun(w) \/ StoreFails(w) \/ Crash(w))
    BY <1>0, <1>2 DEF ReleaseRun, FinishRun, ReleaseAs, StoreFails, Crash, Faulty, GoTo,
       Return, Idle
  <2>6. ~ ReadStep(w)
    <3> SUFFICES ASSUME ReadStep(w) PROVE FALSE
      OBVIOUS
    <3>1. PICK u \in WorkerType : u = worker[w]
      BY <1>0
    <3>2. PICK open, row :
            GoTo(w, After(w, open)) \/ GoTo(w, [u EXCEPT !.pc = "mark", !.seen = row])
      BY <3>1 DEF ReadStep
    <3>3. After(w, open).pc = "step" /\ [u EXCEPT !.pc = "mark", !.seen = row].pc = "mark"
      BY <3>1 DEF After, WorkerType
    <3> QED
      BY <1>0, <1>2, <3>2, <3>3 DEF GoTo
  <2>7. ~ AppendEvidence(w)
    <3> SUFFICES ASSUME AppendEvidence(w) PROVE FALSE
      OBVIOUS
    <3>1. PICK u \in WorkerType : u = worker[w]
      BY <1>0
    <3>2. PICK open : GoTo(w, After(w, open)) \/ GoTo(w, [u EXCEPT !.pc = "release"])
      BY <3>1 DEF AppendEvidence
    <3>3. After(w, open).pc = "step" /\ [u EXCEPT !.pc = "release"].pc = "release"
      BY <3>1 DEF After, WorkerType
    <3> QED
      BY <1>0, <1>2, <3>2, <3>3 DEF GoTo
  <2> QED
    BY <2>1, <2>2, <2>3, <2>4, <2>5, <2>6, <2>7 DEF Next, Execute
<1>4. PICK u \in WorkerType :
        /\ u = worker[w] /\ u.run \in Runs /\ u.node \in 1 .. Len(Plan)
        /\ u.node <= Len(Plan) /\ Here(w) = Plan[u.node] /\ Plan[u.node] \in Nodes
        /\ u.seen \in StepType /\ u.open \in SUBSET Nodes
        /\ BehindSettled(u) /\ Carries(u)
  BY <1>0, <1>3, AtNodeNow DEF MarkStep
<1>5. /\ step[r][Plan[u.node]] = u.seen /\ u.seen.status \notin Passed
      /\ StepGuard(u.seen.status, "running")
  <2>1. u.pc = "mark" /\ u.run = r
    BY <1>2, <1>3, <1>4 DEF MarkStep
  <2>2. Runnable(Here(w), u.open) /\ CanUpsert(r, Here(w), u.seen, Attempted(u.seen))
    <3>1. ~ GoTo(w, Return(w))
      BY <1>0, <1>2 DEF GoTo, Return, Idle
    <3>2. \A row : ~ GoTo(w, [u EXCEPT !.pc = "evidence", !.seen = row, !.outcome = "skipped"])
      BY <1>0, <1>2 DEF GoTo, WorkerType
    <3> QED
      BY <1>2, <1>3, <1>4, <3>1, <3>2 DEF MarkStep
  <2> QED
    BY <1>4, <2>1, <2>2, AttemptTyped DEF Carries, CanUpsert, StepUnchanged
<1>6. u.seen.status # "failed"
  BY <1>5 DEF StepGuard
<1>7. CASE run[r].status = "completed"
  BY <1>0, <1>4, <1>5, <1>7 DEF FlowInv, EndsWithItsSteps, Passed
<1>8. CASE run[r].status = "failed"
  <2>1. PICK j \in 1 .. Len(Plan) : step[r][Plan[j]].status = "failed"
    <3>1. \E m \in Nodes : step[r][m].status = "failed"
      BY <1>0, <1>8 DEF FlowInv, EndsWithItsSteps
    <3> QED
      BY <3>1 DEF Nodes
  <2>2. j # u.node
    BY <1>5, <1>6, <2>1
  <2>3. ~ (j < u.node)
    BY <1>2, <1>4, <2>1 DEF BehindSettled, Passed
  <2>4. ~ (u.node < j)
    BY <1>0, <1>4, <1>5, <2>1 DEF FailedBehind
  <2> QED
    BY <1>4, <2>2, <2>3, <2>4
<1> QED
  BY <1>7, <1>8

(* EndedRunsRest: whatever workers do late, with old copies or lost        *)
(* leases, a run that ended is not written or begun again, and after a     *)
(* completed or failed one no adapter call begins (workflow_run_guard,     *)
(* workflow_step_guard, ReleaseRun).                                       *)
THEOREM RunsRest == Spec => EndedRunsRest
<1>1. ASSUME RestParts, [Next]_vars
      PROVE  [\A r \in Runs : run[r].status \in TerminalStates =>
                /\ run'[r] = run[r]
                /\ \A w \in Workers : Executing(w, r)' => Executing(w, r)
                /\ run[r].status # "cancelled" =>
                      \A w \in Workers : InCall(w, r)' => InCall(w, r)]_vars
  BY <1>1, EndedRow, EndedUnworked, EndedUncalled DEF TerminalStates
<1> QED
  BY <1>1, RestInductive, PTL DEF Spec, EndedRunsRest

(***************************************************************************)
(* Calls and attempts are counted together with those that are still to    *)
(* come: of the workers that marked a node and have not called it, and of  *)
(* the executions that have not passed it.                                 *)
(***************************************************************************)
ToCall(s, r, n) == s.pc = "act" /\ s.run = r /\ Plan[s.node] = n

ToMark(s, r, n) ==
    /\ s.run = r
    /\ \E i \in 1 .. Len(Plan) : /\ Plan[i] = n
                                 /\ \/ s.pc \in {"step", "mark"} /\ s.node <= i
                                    \/ s.pc \in {"act", "record", "evidence"} /\ s.node < i

Callers(r, n) == {w \in Workers : ToCall(worker[w], r, n)}
Markers(r, n) == {w \in Workers : ToMark(worker[w], r, n)}

CountInv ==
    \A r \in Runs, n \in Nodes :
        /\ calls[r][n] + Cardinality(Callers(r, n)) <= step[r][n].attempts
        /\ step[r][n].status # "skipped" =>
              step[r][n].attempts + Cardinality(Markers(r, n)) <= run[r].attempts

LEMMA Finite ==
    ASSUME NEW S \in SUBSET Workers
    PROVE  IsFiniteSet(S) /\ Cardinality(S) \in Nat
<1>1. IsFiniteSet(Workers)
  BY WorkflowAssumption
<1> QED
  BY <1>1, FS_Subset, FS_CardinalityType

LEMMA Fewer ==
    ASSUME NEW S \in SUBSET Workers, NEW T \in SUBSET S
    PROVE  Cardinality(T) <= Cardinality(S)
BY Finite, FS_Subset

LEMMA OneFewer ==
    ASSUME NEW S \in SUBSET Workers, NEW w \in S, NEW T \in SUBSET (S \ {w})
    PROVE  Cardinality(T) + 1 <= Cardinality(S)
<1>1. Cardinality(S \ {w}) = Cardinality(S) - 1
  BY Finite, FS_RemoveElement
<1>2. Cardinality(T) <= Cardinality(S \ {w})
  BY Fewer
<1> QED
  BY <1>1, <1>2, Finite

LEMMA OneMore ==
    ASSUME NEW S \in SUBSET Workers, NEW w \in Workers, NEW T \in SUBSET (S \cup {w})
    PROVE  Cardinality(T) <= Cardinality(S) + 1
<1>1. Cardinality(S \cup {w}) <= Cardinality(S) + 1
  BY Finite, FS_AddElement
<1>2. S \cup {w} \in SUBSET Workers
  OBVIOUS
<1>3. Cardinality(T) <= Cardinality(S \cup {w})
  BY <1>2, Fewer
<1> QED
  BY <1>1, <1>2, <1>3, Finite

LEMMA Counts ==
    ASSUME TypeInv, NEW r \in Runs, NEW n \in Nodes
    PROVE  /\ calls[r][n] \in Nat /\ step[r][n].attempts \in Nat /\ run[r].attempts \in Nat
           /\ Callers(r, n) \in SUBSET Workers /\ Markers(r, n) \in SUBSET Workers
           /\ Cardinality(Callers(r, n)) \in Nat /\ Cardinality(Markers(r, n)) \in Nat
<1>1. Callers(r, n) \in SUBSET Workers /\ Markers(r, n) \in SUBSET Workers
  BY DEF Callers, Markers
<1>2. step[r][n] \in StepType /\ run[r] \in RunType /\ calls[r][n] \in Nat
  BY DEF TypeInv, TypeOK
<1>3. step[r][n].attempts \in Nat /\ run[r].attempts \in Nat
  BY <1>2, AttemptLimit DEF StepType, RunType
<1> QED
  BY <1>1, <1>2, <1>3, Finite

\* How one worker's move changes who is still to call and to mark.
LEMMA CountersMove ==
    ASSUME TypeInv, NEW w \in Workers, NEW s, GoTo(w, s), NEW r, NEW n
    PROVE  /\ Callers(r, n)' \subseteq Callers(r, n) \cup {w}
           /\ Markers(r, n)' \subseteq Markers(r, n) \cup {w}
           /\ ~ ToCall(s, r, n) => Callers(r, n)' \subseteq Callers(r, n) \ {w}
           /\ ~ ToMark(s, r, n) => Markers(r, n)' \subseteq Markers(r, n) \ {w}
           /\ ToCall(worker[w], r, n) => w \in Callers(r, n)
           /\ ToMark(worker[w], r, n) => w \in Markers(r, n)
<1>1. worker'[w] = s /\ \A v \in Workers \ {w} : worker'[v] = worker[v]
  BY DEF GoTo, TypeInv, TypeOK
<1>2. /\ Callers(r, n)' = {v \in Workers : ToCall(worker'[v], r, n)}
      /\ Markers(r, n)' = {v \in Workers : ToMark(worker'[v], r, n)}
  BY DEF Callers, Markers, ToCall, ToMark
<1> HIDE DEF ToCall, ToMark
<1> QED
  BY <1>1, <1>2 DEF Callers, Markers

\* A row of counts kept: nothing counted, and nobody new to count.
LEMMA CountKept ==
    ASSUME TypeInv, TypeInv', CountInv, NEW r \in Runs, NEW n \in Nodes,
           calls'[r][n] = calls[r][n],
           Callers(r, n)' \subseteq Callers(r, n), Markers(r, n)' \subseteq Markers(r, n),
           \/ step'[r][n] = step[r][n]
           \/ /\ step'[r][n].attempts = step[r][n].attempts /\ step[r][n].status # "skipped"
           \/ /\ step'[r][n].attempts >= step[r][n].attempts
              /\ step'[r][n].status = "skipped",
           run'[r].attempts >= run[r].attempts
    PROVE  /\ calls'[r][n] + Cardinality(Callers(r, n)') <= step'[r][n].attempts
           /\ step'[r][n].status # "skipped" =>
                 step'[r][n].attempts + Cardinality(Markers(r, n)') <= run'[r].attempts
<1>1. /\ calls[r][n] \in Nat /\ step[r][n].attempts \in Nat /\ run[r].attempts \in Nat
      /\ Callers(r, n) \in SUBSET Workers /\ Markers(r, n) \in SUBSET Workers
      /\ Cardinality(Callers(r, n)) \in Nat /\ Cardinality(Markers(r, n)) \in Nat
  BY Counts
<1>2. PICK c, m : c = Callers(r, n)' /\ m = Markers(r, n)'
  OBVIOUS
<1>3. /\ Cardinality(c) <= Cardinality(Callers(r, n))
      /\ Cardinality(m) <= Cardinality(Markers(r, n))
      /\ Cardinality(c) \in Nat /\ Cardinality(m) \in Nat
  BY <1>1, <1>2, Fewer, Finite
<1>4. step'[r][n].attempts \in Nat /\ run'[r].attempts \in Nat
  <2>1. step'[r][n] \in StepType /\ run'[r] \in RunType
    BY DEF TypeInv, TypeOK
  <2> QED
    BY <2>1, AttemptLimit DEF StepType, RunType
<1>5. /\ calls[r][n] + Cardinality(Callers(r, n)) <= step[r][n].attempts
      /\ step[r][n].status # "skipped" =>
            step[r][n].attempts + Cardinality(Markers(r, n)) <= run[r].attempts
  BY DEF CountInv
<1> QED
  BY <1>1, <1>2, <1>3, <1>4, <1>5

\* A move of a worker that counts nothing and leaves no more to count.
LEMMA CountQuiet ==
    ASSUME TypeInv, TypeInv', CountInv, NEW w \in Workers, NEW s, GoTo(w, s),
           UNCHANGED <<step, calls>>,
           \A r \in Runs : run'[r].attempts = run[r].attempts,
           \A r \in Runs, n \in Nodes :
              /\ ToCall(s, r, n) => ToCall(worker[w], r, n)
              /\ ToMark(s, r, n) => ToMark(worker[w], r, n)
    PROVE  CountInv'
<1> SUFFICES ASSUME NEW r \in Runs, NEW n \in Nodes
             PROVE  /\ calls'[r][n] + Cardinality(Callers(r, n)') <= step'[r][n].attempts
                    /\ step'[r][n].status # "skipped" =>
                          step'[r][n].attempts + Cardinality(Markers(r, n)') <= run'[r].attempts
  BY DEF CountInv
<1>1. Callers(r, n)' \subseteq Callers(r, n) /\ Markers(r, n)' \subseteq Markers(r, n)
  BY CountersMove
<1>2. run'[r].attempts >= run[r].attempts
  BY Counts
<1> QED
  BY <1>1, <1>2, CountKept

\* An idle worker, as one whose execution is over, is to count nothing.
LEMMA NothingToCount ==
    ASSUME NEW s, s.pc \in {"idle", "loaded", "release"}, NEW r, NEW n
    PROVE  ~ ToCall(s, r, n) /\ ~ ToMark(s, r, n)
BY DEF ToCall, ToMark

LEMMA CountAway ==
    ASSUME TypeInv, TypeInv', CountInv, NEW w \in Workers,
           GoTo(w, Return(w)) \/ GoTo(w, Idle), UNCHANGED <<step, calls>>,
           \A r \in Runs : run'[r].attempts = run[r].attempts
    PROVE  CountInv'
<1>1. Idle.pc = "idle" /\ Return(w).pc = "idle"
  BY DEF Idle, Return
<1>2. \A r \in Runs, n \in Nodes : /\ ~ ToCall(Idle, r, n) /\ ~ ToMark(Idle, r, n)
                                   /\ ~ ToCall(Return(w), r, n) /\ ~ ToMark(Return(w), r, n)
  BY <1>1, NothingToCount
<1> HIDE DEF Idle, Return
<1> QED
  BY <1>2, CountQuiet

LEMMA CountOfClaim ==
    ASSUME TypeInv, TypeInv', CountInv, NEW w \in Workers, ClaimRuns(w)
    PROVE  CountInv'
<1>0. run \in [Runs -> RunType] /\ worker \in [Workers -> WorkerType] /\ UNCHANGED <<step, calls>>
  BY DEF TypeInv, TypeOK, ClaimRuns
<1>1. PICK batch \in SUBSET Due :
        /\ run' = [r \in Runs |-> IF r \in batch
                                   THEN [run[r] EXCEPT !.lease = w, !.expired = FALSE]
                                   ELSE run[r]]
        /\ worker' = [worker EXCEPT ![w].queue = batch]
  BY DEF ClaimRuns
<1>2. \A r \in Runs : run'[r].attempts = run[r].attempts
  BY <1>0, <1>1 DEF RunType
<1>3. PICK s : s = [worker[w] EXCEPT !.queue = batch]
  OBVIOUS
<1>4. GoTo(w, s) /\ s.pc = "idle"
  <2>1. GoTo(w, s)
    BY <1>1, <1>3 DEF GoTo
  <2>2. worker[w] \in WorkerType /\ worker[w].pc = "idle"
    BY <1>0 DEF ClaimRuns
  <2> QED
    BY <1>3, <2>1, <2>2 DEF WorkerType
<1>5. \A r \in Runs, n \in Nodes : ~ ToCall(s, r, n) /\ ~ ToMark(s, r, n)
  BY <1>4, NothingToCount
<1> QED
  BY <1>0, <1>2, <1>4, <1>5, CountQuiet

LEMMA CountOfLoad ==
    ASSUME TypeInv, TypeInv', CountInv, NEW w \in Workers, LoadRun(w)
    PROVE  CountInv'
<1>1. PICK u, t : \E r \in worker[w].queue :
        /\ u = [Idle EXCEPT !.pc = "loaded", !.run = r, !.queue = worker[w].queue \ {r}]
        /\ t = [Idle EXCEPT !.queue = worker[w].queue \ {r}]
        /\ GoTo(w, u) \/ GoTo(w, t)
  BY DEF LoadRun
<1>2. u.pc = "loaded" /\ t.pc = "idle"
  BY <1>1 DEF Idle
<1>3. \A q \in Runs, n \in Nodes : /\ ~ ToCall(u, q, n) /\ ~ ToMark(u, q, n)
                                   /\ ~ ToCall(t, q, n) /\ ~ ToMark(t, q, n)
  BY <1>2, NothingToCount
<1>4. UNCHANGED <<run, step, calls>>
  BY DEF LoadRun
<1> QED
  BY <1>1, <1>3, <1>4, CountQuiet

LEMMA CountOfRelease ==
    ASSUME TypeInv, TypeInv', CountInv, NEW w \in Workers, ReleaseRun(w) \/ FinishRun(w)
    PROVE  CountInv'
<1>0. run \in [Runs -> RunType] /\ worker[w].run \in Runs
  BY AtWork DEF TypeInv, TypeOK, ReleaseRun, FinishRun
<1>1. PICK status : ReleaseAs(w, status)
  BY DEF ReleaseRun, FinishRun
<1>2. \A r \in Runs : run'[r].attempts = run[r].attempts
  <2>1. PICK q : q = worker[w].run
    OBVIOUS
  <2>2. run' = run \/ run' = [run EXCEPT ![q] = Released(run[q], status)]
    BY <1>1, <2>1 DEF ReleaseAs, WriteRun
  <2>3. run[q] \in RunType
    BY <1>0, <2>1
  <2>4. Released(run[q], status).attempts = run[q].attempts
    BY <2>3 DEF Released, RunType
  <2> QED
    BY <1>0, <2>1, <2>2, <2>4
<1> QED
  BY <1>1, <1>2, CountAway DEF ReleaseAs

\* Actions on one run's row, of nobody at work, that leave its attempts.
LEMMA CountIdle ==
    ASSUME TypeInv, TypeInv', CountInv, UNCHANGED <<worker, step, calls>>,
           \A r \in Runs : run'[r].attempts = run[r].attempts
    PROVE  CountInv'
BY DEF CountInv, Callers, Markers, ToCall, ToMark

LEMMA CountOfRows ==
    ASSUME TypeInv, TypeInv', RowsLeased, CountInv, NEW r \in Runs,
           CreateRun(r) \/ CancelRun(r) \/ BecomeDue(r) \/ ExpireLease(r)
    PROVE  CountInv'
<1>1. run \in [Runs -> RunType] /\ run[r] \in RunType
  BY DEF TypeInv, TypeOK
<1>2. CASE CreateRun(r)
  <2>1. /\ run[r] = NoRun /\ UNCHANGED <<worker, step, calls>>
        /\ run' = [run EXCEPT ![r] = [NoRun EXCEPT !.status = "queued", !.due = TRUE]]
    BY <1>2 DEF CreateRun, RowsLeased
  <2>2. [NoRun EXCEPT !.status = "queued", !.due = TRUE].attempts = NoRun.attempts
    BY DEF NoRun
  <2> QED
    BY <1>1, <2>1, <2>2, CountIdle
<1>3. CASE CancelRun(r) \/ BecomeDue(r) \/ ExpireLease(r)
  <2>1. /\ UNCHANGED <<worker, step, calls>>
        /\ \/ run' = [run EXCEPT ![r] = [run[r] EXCEPT !.status = "cancelled",
                                              !.lease = Nobody, !.expired = FALSE]]
           \/ run' = [run EXCEPT ![r] = [run[r] EXCEPT !.due = TRUE]]
           \/ run' = [run EXCEPT ![r] = [run[r] EXCEPT !.expired = TRUE]]
    BY <1>1, <1>3 DEF CancelRun, BecomeDue, ExpireLease, WriteRun
  <2>2. PICK row : run' = [run EXCEPT ![r] = row] /\ row.attempts = run[r].attempts
    BY <1>1, <2>1 DEF RunType
  <2>3. \A q \in Runs : run'[q].attempts = run[q].attempts
    BY <1>1, <2>2
  <2> QED
    BY <2>1, <2>3, CountIdle
<1> QED
  BY <1>2, <1>3

LEMMA CountOfBegin ==
    ASSUME TypeInv, TypeInv', CountInv, NEW w \in Workers, BeginRun(w)
    PROVE  CountInv'
<1>1. PICK u \in WorkerType, q \in Runs : u = worker[w] /\ q = u.run
  BY WorkerFields, AtWork DEF BeginRun
<1>2. run \in [Runs -> RunType] /\ u.pc = "loaded" /\ UNCHANGED <<step, calls>>
  BY <1>1 DEF BeginRun, TypeInv, TypeOK
<1>3. CASE UNCHANGED run /\ GoTo(w, Return(w))
  BY <1>2, <1>3, CountAway
<1>4. CASE /\ run' = [run EXCEPT ![q] = [run[q] EXCEPT !.status = "running", !.attempts = @ + 1]]
           /\ GoTo(w, [u EXCEPT !.pc = "step"])
  <2>1. PICK s : s = [u EXCEPT !.pc = "step"]
    OBVIOUS
  <2>2. s.pc = "step" /\ s.run = q
    BY <1>1, <2>1 DEF WorkerType
  <2>3. /\ run'[q].attempts = run[q].attempts + 1
        /\ \A r \in Runs \ {q} : run'[r].attempts = run[r].attempts
    BY <1>2, <1>4 DEF RunType
  <2> SUFFICES ASSUME NEW r \in Runs, NEW n \in Nodes
               PROVE  /\ calls'[r][n] + Cardinality(Callers(r, n)') <= step'[r][n].attempts
                      /\ step'[r][n].status # "skipped" =>
                            step'[r][n].attempts + Cardinality(Markers(r, n)') <= run'[r].attempts
    BY DEF CountInv
  <2>4. ~ ToCall(s, r, n) /\ (r # q => ~ ToMark(s, r, n))
    BY <2>2 DEF ToCall, ToMark
  <2>5. PICK c, m : c = Callers(r, n)' /\ m = Markers(r, n)'
    OBVIOUS
  <2>6. /\ c \in SUBSET Callers(r, n) /\ m \in SUBSET (Markers(r, n) \cup {w})
        /\ r # q => m \in SUBSET Markers(r, n)
    BY <1>4, <2>1, <2>4, <2>5, CountersMove
  <2>7. /\ calls[r][n] \in Nat /\ step[r][n].attempts \in Nat /\ run[r].attempts \in Nat
        /\ Callers(r, n) \in SUBSET Workers /\ Markers(r, n) \in SUBSET Workers
        /\ Cardinality(Callers(r, n)) \in Nat /\ Cardinality(Markers(r, n)) \in Nat
    BY Counts
  <2>8. /\ Cardinality(c) <= Cardinality(Callers(r, n))
        /\ Cardinality(m) <= Cardinality(Markers(r, n)) + 1
        /\ r # q => Cardinality(m) <= Cardinality(Markers(r, n))
    BY <2>6, <2>7, Fewer, OneMore
  <2>9. Cardinality(c) \in Nat /\ Cardinality(m) \in Nat
    BY <2>6, <2>7, Finite
  <2>10. /\ calls[r][n] + Cardinality(Callers(r, n)) <= step[r][n].attempts
         /\ step[r][n].status # "skipped" =>
               step[r][n].attempts + Cardinality(Markers(r, n)) <= run[r].attempts
    BY DEF CountInv
  <2>11. CASE r = q
    BY <1>2, <2>3, <2>5, <2>7, <2>8, <2>9, <2>10, <2>11
  <2>12. CASE r # q
    BY <1>2, <2>3, <2>5, <2>7, <2>8, <2>9, <2>10, <2>12
  <2> QED
    BY <2>11, <2>12
<1> QED
  BY <1>1, <1>3, <1>4 DEF BeginRun, WriteRun

\* ToMark for a worker's place, once its node is known.
LEMMA MarkPlaces ==
    ASSUME NEW u, NEW s, s.run = u.run, u.node \in Nat, s.node \in Nat,
           \/ u.pc \in {"step", "mark"} /\ s.pc \in {"step", "mark"} /\ u.node <= s.node
           \/ u.pc \in {"step", "mark"} /\ s.pc \in {"act", "record", "evidence"}
                /\ u.node <= s.node
           \/ u.pc \in {"act", "record", "evidence"} /\ s.pc \in {"act", "record", "evidence"}
                /\ u.node <= s.node
           \/ u.pc \in {"act", "record", "evidence"} /\ s.pc = "step" /\ u.node < s.node,
           NEW r, NEW n, ToMark(s, r, n)
    PROVE  ToMark(u, r, n)
<1>1. PICK i \in 1 .. Len(Plan) :
        /\ Plan[i] = n
        /\ \/ s.pc \in {"step", "mark"} /\ s.node <= i
           \/ s.pc \in {"act", "record", "evidence"} /\ s.node < i
  BY DEF ToMark
<1>2. s.run = r
  BY DEF ToMark
<1>3. \/ u.pc \in {"step", "mark"} /\ u.node <= i
      \/ u.pc \in {"act", "record", "evidence"} /\ u.node < i
  BY <1>1, PlanLength
<1> QED
  BY <1>1, <1>2, <1>3 DEF ToMark

LEMMA CountOfRead ==
    ASSUME TypeInv, TypeInv', CountInv, NEW w \in Workers, ReadStep(w)
    PROVE  CountInv'
<1>1. PICK u \in WorkerType : u = worker[w]
  BY WorkerFields
<1>2. u.pc = "step" /\ u.node <= Len(Plan) /\ u.node \in 1 .. Len(Plan) + 1
      /\ UNCHANGED <<run, step, calls>>
  BY <1>1, WorkerFields DEF ReadStep
<1>3. PICK s : /\ GoTo(w, s) /\ s.run = u.run
               /\ \/ s.pc = "step" /\ s.node = u.node + 1
                  \/ s.pc = "mark" /\ s.node = u.node
  <2>1. PICK open, row : GoTo(w, After(w, open)) \/ GoTo(w, [u EXCEPT !.pc = "mark", !.seen = row])
    BY <1>1 DEF ReadStep
  <2>2. PICK a, b : a = After(w, open) /\ b = [u EXCEPT !.pc = "mark", !.seen = row]
    OBVIOUS
  <2>3. /\ a.pc = "step" /\ a.node = u.node + 1 /\ a.run = u.run
        /\ b.pc = "mark" /\ b.node = u.node /\ b.run = u.run
    BY <1>1, <2>2 DEF After, WorkerType
  <2> QED
    BY <2>1, <2>2, <2>3
<1>4. \A r, n : ToMark(s, r, n) => ToMark(u, r, n)
  BY <1>2, <1>3, MarkPlaces, PlanLength
<1>5. \A r, n : ~ ToCall(s, r, n)
  BY <1>3 DEF ToCall
<1> QED
  BY <1>1, <1>2, <1>3, <1>4, <1>5, CountQuiet

LEMMA CountOfEvidence ==
    ASSUME TypeInv, TypeInv', CountInv, NEW w \in Workers, AppendEvidence(w)
    PROVE  CountInv'
<1>1. PICK u \in WorkerType : u = worker[w]
  BY WorkerFields
<1>2. u.pc = "evidence" /\ u.node \in 1 .. Len(Plan) + 1 /\ UNCHANGED <<run, step, calls>>
  BY <1>1, WorkerFields DEF AppendEvidence
<1>3. PICK s : /\ GoTo(w, s)
               /\ \/ s.run = u.run /\ s.pc = "step" /\ s.node = u.node + 1
                  \/ s.pc = "release"
  <2>1. PICK open : GoTo(w, After(w, open)) \/ GoTo(w, [u EXCEPT !.pc = "release"])
    BY <1>1 DEF AppendEvidence
  <2>2. PICK a, b : a = After(w, open) /\ b = [u EXCEPT !.pc = "release"]
    OBVIOUS
  <2>3. a.pc = "step" /\ a.node = u.node + 1 /\ a.run = u.run /\ b.pc = "release"
    BY <1>1, <2>2 DEF After, WorkerType
  <2> QED
    BY <2>1, <2>2, <2>3
<1>4. \A r, n : ToMark(s, r, n) => ToMark(u, r, n)
  <2>1. CASE s.pc = "release"
    BY <2>1, NothingToCount
  <2>2. CASE s.pc # "release"
    BY <1>2, <1>3, <2>2, MarkPlaces, PlanLength
  <2> QED
    BY <2>1, <2>2
<1>5. \A r, n : ~ ToCall(s, r, n)
  BY <1>3 DEF ToCall
<1> QED
  BY <1>1, <1>2, <1>3, <1>4, <1>5, CountQuiet

LEMMA CountOfCall ==
    ASSUME TypeInv, TypeInv', CountInv, NEW w \in Workers, CallAdapter(w)
    PROVE  CountInv'
<1>1. PICK u \in WorkerType, q \in Runs, m \in Nodes :
        /\ u = worker[w] /\ q = u.run /\ m = Plan[u.node] /\ u.node \in 1 .. Len(Plan)
        /\ Here(w) = m
  BY WorkerFields, AtWork DEF CallAdapter
<1>2. /\ u.pc = "act" /\ UNCHANGED <<run, step>>
      /\ calls' = [calls EXCEPT ![q][m] = @ + 1]
  BY <1>1 DEF CallAdapter
<1>3. PICK s : GoTo(w, s) /\ s.run = u.run /\ s.pc = "record" /\ s.node = u.node
  <2>1. PICK o : GoTo(w, [u EXCEPT !.pc = "record", !.seen = Attempted(u.seen), !.outcome = o])
    BY <1>1 DEF CallAdapter
  <2>2. PICK a : a = [u EXCEPT !.pc = "record", !.seen = Attempted(u.seen), !.outcome = o]
    OBVIOUS
  <2>3. a.pc = "record" /\ a.node = u.node /\ a.run = u.run
    BY <1>1, <2>2 DEF WorkerType
  <2> QED
    BY <2>1, <2>2, <2>3
<1>4. \A r, n : ToMark(s, r, n) => ToMark(u, r, n)
  BY <1>1, <1>2, <1>3, MarkPlaces, PlanLength
<1>5. \A r, n : ~ ToCall(s, r, n)
  BY <1>3 DEF ToCall
<1>6. ToCall(u, q, m)
  BY <1>1, <1>2 DEF ToCall
<1> SUFFICES ASSUME NEW r \in Runs, NEW n \in Nodes
             PROVE  /\ calls'[r][n] + Cardinality(Callers(r, n)') <= step'[r][n].attempts
                    /\ step'[r][n].status # "skipped" =>
                          step'[r][n].attempts + Cardinality(Markers(r, n)') <= run'[r].attempts
  BY DEF CountInv
<1>7. /\ Callers(r, n)' \subseteq Callers(r, n) \ {w} /\ Markers(r, n)' \subseteq Markers(r, n)
      /\ r = q /\ n = m => w \in Callers(r, n)
  BY <1>1, <1>3, <1>4, <1>5, <1>6, CountersMove
<1>8. /\ calls[r][n] \in Nat /\ step[r][n].attempts \in Nat /\ run[r].attempts \in Nat
      /\ Callers(r, n) \in SUBSET Workers /\ Markers(r, n) \in SUBSET Workers
      /\ Cardinality(Callers(r, n)) \in Nat /\ Cardinality(Markers(r, n)) \in Nat
  BY Counts
<1>9. CASE r # q \/ n # m
  <2>1. calls'[r][n] = calls[r][n]
    BY <1>2, <1>9, CallsTyped
  <2> QED
    BY <1>2, <1>7, <1>8, <2>1, CountKept
<1>10. CASE r = q /\ n = m
  <2>1. calls'[r][n] = calls[r][n] + 1
    BY <1>2, <1>10 DEF TypeInv, TypeOK
  <2>2. PICK c, k : c = Callers(r, n)' /\ k = Markers(r, n)'
    OBVIOUS
  <2>3. /\ Cardinality(c) + 1 <= Cardinality(Callers(r, n))
        /\ Cardinality(k) <= Cardinality(Markers(r, n))
        /\ Cardinality(c) \in Nat /\ Cardinality(k) \in Nat
    BY <1>7, <1>8, <1>10, <2>2, OneFewer, Fewer, Finite
  <2>4. /\ calls[r][n] + Cardinality(Callers(r, n)) <= step[r][n].attempts
        /\ step[r][n].status # "skipped" =>
              step[r][n].attempts + Cardinality(Markers(r, n)) <= run[r].attempts
    BY DEF CountInv
  <2> QED
    BY <1>2, <1>8, <2>1, <2>2, <2>3, <2>4
<1> QED
  BY <1>9, <1>10

LEMMA CountOfRecord ==
    ASSUME TypeInv, TypeInv', FlowInv, CountInv, NEW w \in Workers, RecordStep(w)
    PROVE  CountInv'
<1>0. UNCHANGED <<run, calls>> /\ worker[w].pc = "record"
  BY DEF RecordStep
<1>1. PICK u \in WorkerType :
        /\ u = worker[w] /\ u.run \in Runs /\ u.node \in 1 .. Len(Plan)
        /\ u.node <= Len(Plan) /\ Here(w) = Plan[u.node] /\ Plan[u.node] \in Nodes
        /\ u.seen \in StepType /\ u.open \in SUBSET Nodes
        /\ BehindSettled(u) /\ Carries(u)
  BY <1>0, AtNodeNow
<1>2. PICK q \in Runs, m \in Nodes, row \in StepType :
        q = u.run /\ m = Plan[u.node] /\ row = Recorded(m, u.seen, u.outcome)
  BY <1>1, AttemptTyped, WorkerFields
<1>3. CASE UNCHANGED step /\ GoTo(w, Return(w))
  BY <1>0, <1>3, CountAway
<1>4. CASE /\ CanUpsert(q, m, u.seen, row) /\ step' = [step EXCEPT ![q][m] = row]
           /\ GoTo(w, [u EXCEPT !.pc = "evidence", !.seen = row])
  <2>1. PICK s : s = [u EXCEPT !.pc = "evidence", !.seen = row]
    OBVIOUS
  <2>2. s.pc = "evidence" /\ s.run = u.run /\ s.node = u.node
    BY <1>1, <2>1 DEF WorkerType
  <2>3. \A r, n : ToMark(s, r, n) => ToMark(u, r, n)
    BY <1>0, <1>1, <2>2, MarkPlaces, PlanLength
  <2>4. \A r, n : ~ ToCall(s, r, n)
    BY <2>2 DEF ToCall
  <2>5. row.attempts = u.seen.attempts
    BY <1>1, <1>2 DEF Recorded, StepType
  <2>6. step[q][m] = u.seen /\ u.seen.status = "running"
    BY <1>0, <1>1, <1>4 DEF Carries, CanUpsert, StepUnchanged
  <2>7. step'[q][m] = row
        /\ \A r \in Runs, n \in Nodes : r # q \/ n # m => step'[r][n] = step[r][n]
    <3>1. step' = [step EXCEPT ![q][m] = row]
      BY <1>4
    <3>2. \A r \in Runs, n \in Nodes : r # q \/ n # m => step'[r][n] = step[r][n]
      BY <3>1, StepTyped, Zenon
    <3>3. step'[q][m] = row
      BY <3>1, StepTyped, Zenon
    <3> QED
      BY <3>2, <3>3, Zenon
  <2> SUFFICES ASSUME NEW r \in Runs, NEW n \in Nodes
               PROVE  /\ calls'[r][n] + Cardinality(Callers(r, n)') <= step'[r][n].attempts
                      /\ step'[r][n].status # "skipped" =>
                            step'[r][n].attempts + Cardinality(Markers(r, n)') <= run'[r].attempts
    BY DEF CountInv
  <2>8. Callers(r, n)' \subseteq Callers(r, n) /\ Markers(r, n)' \subseteq Markers(r, n)
    BY <1>1, <1>4, <2>1, <2>3, <2>4, CountersMove
  <2>9. \/ step'[r][n] = step[r][n]
        \/ step'[r][n].attempts = step[r][n].attempts /\ step[r][n].status # "skipped"
    BY <2>5, <2>6, <2>7
  <2> QED
    BY <1>0, <2>8, <2>9, Counts, CountKept
<1> QED
  BY <1>1, <1>2, <1>3, <1>4 DEF RecordStep

LEMMA CountOfMark ==
    ASSUME TypeInv, TypeInv', FlowInv, CountInv, NEW w \in Workers, MarkStep(w)
    PROVE  CountInv'
<1>0. UNCHANGED <<run, calls>> /\ worker[w].pc = "mark"
  BY DEF MarkStep
<1>1. PICK u \in WorkerType :
        /\ u = worker[w] /\ u.run \in Runs /\ u.node \in 1 .. Len(Plan)
        /\ u.node <= Len(Plan) /\ Here(w) = Plan[u.node] /\ Plan[u.node] \in Nodes
        /\ u.seen \in StepType /\ u.open \in SUBSET Nodes
        /\ BehindSettled(u) /\ Carries(u)
  BY <1>0, AtNodeNow
<1>2. PICK q \in Runs, m \in Nodes, row \in StepType :
        /\ q = u.run /\ m = Plan[u.node]
        /\ row = IF Runnable(m, u.open) THEN Attempted(u.seen) ELSE Skipped(u.seen)
  BY <1>1, AttemptTyped
<1>3. CASE UNCHANGED step /\ GoTo(w, Return(w))
  BY <1>0, <1>3, CountAway
<1>4. CASE /\ CanUpsert(q, m, u.seen, row) /\ step' = [step EXCEPT ![q][m] = row]
           /\ GoTo(w, IF Runnable(m, u.open)
                        THEN [u EXCEPT !.pc = "act"]
                        ELSE [u EXCEPT !.pc = "evidence", !.seen = row, !.outcome = "skipped"])
  <2>1. PICK s : /\ GoTo(w, s) /\ s.run = u.run /\ s.node = u.node
                 /\ s.pc = IF Runnable(m, u.open) THEN "act" ELSE "evidence"
    <3>1. PICK a, b : /\ a = [u EXCEPT !.pc = "act"]
                      /\ b = [u EXCEPT !.pc = "evidence", !.seen = row, !.outcome = "skipped"]
      OBVIOUS
    <3>2. /\ a.run = u.run /\ a.node = u.node /\ a.pc = "act"
          /\ b.run = u.run /\ b.node = u.node /\ b.pc = "evidence"
      BY <3>1 DEF WorkerType
    <3> QED
      BY <1>4, <3>1, <3>2
  <2>2. \A r, n : ToMark(s, r, n) => ToMark(u, r, n)
    BY <1>0, <1>1, <2>1, MarkPlaces, PlanLength
  <2>3. u.seen.status \notin Passed
    BY <1>0, <1>1 DEF Carries
  <2>4. step[q][m] = u.seen
    BY <1>4 DEF CanUpsert, StepUnchanged
  <2>5. step'[q][m] = row
        /\ \A r \in Runs, n \in Nodes : r # q \/ n # m => step'[r][n] = step[r][n]
    <3>1. step' = [step EXCEPT ![q][m] = row]
      BY <1>4
    <3>2. \A r \in Runs, n \in Nodes : r # q \/ n # m => step'[r][n] = step[r][n]
      BY <3>1, StepTyped, Zenon
    <3>3. step'[q][m] = row
      BY <3>1, StepTyped, Zenon
    <3> QED
      BY <3>2, <3>3, Zenon
  <2>6. ToMark(u, q, m) /\ ~ ToMark(s, q, m)
    <3>1. ToMark(u, q, m)
      BY <1>0, <1>1, <1>2, PlanLength DEF ToMark
    <3>2. ASSUME NEW i \in 1 .. Len(Plan), Plan[i] = m PROVE i = u.node
      BY <1>1, <1>2, <3>2, PlanDistinct
    <3>3. ~ ToMark(s, q, m)
      BY <1>1, <2>1, <3>2, PlanLength DEF ToMark
    <3> QED
      BY <3>1, <3>3
  <2>7. \A r, n : ToCall(s, r, n) => r = q /\ n = m /\ Runnable(m, u.open)
    BY <1>2, <2>1 DEF ToCall
  <2> SUFFICES ASSUME NEW r \in Runs, NEW n \in Nodes
               PROVE  /\ calls'[r][n] + Cardinality(Callers(r, n)') <= step'[r][n].attempts
                      /\ step'[r][n].status # "skipped" =>
                            step'[r][n].attempts + Cardinality(Markers(r, n)') <= run'[r].attempts
    BY DEF CountInv
  <2>8. /\ Markers(r, n)' \subseteq Markers(r, n)
        /\ Callers(r, n)' \subseteq Callers(r, n) \cup {w}
        /\ ~ ToCall(s, r, n) => Callers(r, n)' \subseteq Callers(r, n)
        /\ r = q /\ n = m => w \in Markers(r, n) /\ Markers(r, n)' \subseteq Markers(r, n) \ {w}
    BY <1>1, <2>1, <2>2, <2>6, CountersMove
  <2>9. /\ calls[r][n] \in Nat /\ step[r][n].attempts \in Nat /\ run[r].attempts \in Nat
        /\ Callers(r, n) \in SUBSET Workers /\ Markers(r, n) \in SUBSET Workers
        /\ Cardinality(Callers(r, n)) \in Nat /\ Cardinality(Markers(r, n)) \in Nat
    BY Counts
  <2>10. CASE ~ (r = q /\ n = m)
    <3>1. step'[r][n] = step[r][n] /\ Callers(r, n)' \subseteq Callers(r, n)
      BY <2>5, <2>7, <2>8, <2>10
    <3> QED
      BY <1>0, <2>8, <2>9, <3>1, CountKept
  <2>11. CASE r = q /\ n = m /\ ~ Runnable(m, u.open)
    <3>1. row.status = "skipped" /\ row.attempts >= u.seen.attempts
      BY <1>1, <1>2, <2>11 DEF Skipped, StepType
    <3>2. step'[r][n].status = "skipped" /\ step'[r][n].attempts >= step[r][n].attempts
          /\ Callers(r, n)' \subseteq Callers(r, n)
      BY <2>4, <2>5, <2>7, <2>8, <2>11, <3>1
    <3> QED
      BY <1>0, <2>8, <2>9, <3>2, CountKept
  <2>12. CASE r = q /\ n = m /\ Runnable(m, u.open)
    <3>1. row.attempts = u.seen.attempts + 1
      BY <1>2, <2>12 DEF Attempted
    <3>2. step'[r][n].attempts = step[r][n].attempts + 1
      BY <2>4, <2>5, <2>12, <3>1
    <3>3. PICK c, k : c = Callers(r, n)' /\ k = Markers(r, n)'
      OBVIOUS
    <3>4. /\ Cardinality(c) <= Cardinality(Callers(r, n)) + 1
          /\ Cardinality(k) + 1 <= Cardinality(Markers(r, n))
          /\ Cardinality(c) \in Nat /\ Cardinality(k) \in Nat
      BY <2>8, <2>9, <2>12, <3>3, OneFewer, OneMore, Finite
    <3>5. step[r][n].status # "skipped"
      BY <2>3, <2>4, <2>12 DEF Passed
    <3>6. /\ calls[r][n] + Cardinality(Callers(r, n)) <= step[r][n].attempts
          /\ step[r][n].attempts + Cardinality(Markers(r, n)) <= run[r].attempts
      BY <3>5 DEF CountInv
    <3> QED
      BY <1>0, <2>9, <3>2, <3>3, <3>4, <3>6
  <2> QED
    BY <2>10, <2>11, <2>12
<1> QED
  BY <1>1, <1>2, <1>3, <1>4 DEF MarkStep

LEMMA CountStep ==
    ASSUME TypeInv, TypeInv', FlowInv, RowsLeased, CountInv, [Next]_vars
    PROVE  CountInv'
<1>1. ASSUME NEW w \in Workers, StoreFails(w) \/ Crash(w)
      PROVE  CountInv'
  BY <1>1, CountAway DEF StoreFails, Crash, Faulty
<1>2. CASE List \/ Decide \/ Deadline \/ UNCHANGED vars
  BY <1>2, CountIdle DEF List, Decide, Deadline, vars
<1>3. ASSUME NEW w \in Workers, Execute(w)
      PROVE  CountInv'
  BY <1>3, CountOfLoad, CountOfBegin, CountOfRead, CountOfMark, CountOfCall, CountOfRecord,
     CountOfEvidence, CountOfRelease DEF Execute
<1> QED
  BY <1>1, <1>2, <1>3, CountOfRows, CountOfClaim DEF Next

LEMMA CountInit ==
    ASSUME Init
    PROVE  CountInv
<1> SUFFICES ASSUME NEW r \in Runs, NEW n \in Nodes
             PROVE  /\ calls[r][n] + Cardinality(Callers(r, n)) <= step[r][n].attempts
                    /\ step[r][n].status # "skipped" =>
                          step[r][n].attempts + Cardinality(Markers(r, n)) <= run[r].attempts
  BY DEF CountInv
<1>1. Callers(r, n) = {} /\ Markers(r, n) = {}
  <2>1. Idle.pc = "idle" /\ \A w \in Workers : worker[w] = Idle
    BY DEF Init, Idle
  <2>2. ~ ToCall(Idle, r, n) /\ ~ ToMark(Idle, r, n)
    BY <2>1, NothingToCount
  <2> HIDE DEF ToCall, ToMark, Idle
  <2> QED
    BY <2>1, <2>2 DEF Callers, Markers
<1>2. calls[r][n] = 0 /\ step[r][n].attempts = 0 /\ run[r].attempts = 0
  BY DEF Init, NoStep, NoRun
<1>3. Cardinality({}) = 0
  BY FS_EmptySet
<1> QED
  BY <1>1, <1>2, <1>3

CountParts == TypeInv /\ FlowInv /\ LeaseInv /\ CountInv

LEMMA CountInductive ==
    /\ Init => CountParts
    /\ CountParts /\ [Next]_vars => CountParts'
BY TypeInit, FlowInit, LeaseInit, CountInit, TypeStep, FlowStep, LeaseStep, CountStep
   DEF CountParts, LeaseInv

LEMMA CountImplies ==
    ASSUME TypeInv, CountInv
    PROVE  CallsCounted
<1> SUFFICES ASSUME NEW r \in Runs, NEW n \in Nodes
             PROVE  /\ calls[r][n] <= step[r][n].attempts
                    /\ step[r][n].status # "skipped" => step[r][n].attempts <= run[r].attempts
  BY DEF CallsCounted
<1> QED
  BY Counts DEF CountInv

(* CallsCounted: however often workers crash, overrun leases and start     *)
(* again, the adapter of a node is called at most once per attempt of its  *)
(* step, and a step attempted at most once per execution of its run        *)
(* (UpdateRun and UpsertStep, under their versions).                       *)
THEOREM CallsAreCounted == Spec => []CallsCounted
<1>1. CountParts => CallsCounted
  BY CountImplies DEF CountParts
<1> QED
  BY <1>1, CountInductive, PTL DEF Spec

(***************************************************************************)
(* RunsThePlan: the rows of runs and steps implement PlanExecution.        *)
(* PlanInv says what its guards ask for and FlowInv does not: a worker     *)
(* executes only runs that were created, and no open node is missing from  *)
(* its set, so that it skips a node only when no parent opens it.          *)
(***************************************************************************)
AtPlan == {"step", "mark", "act", "record", "evidence", "release"}

OpenKept(s) ==
    \A i \in 1 .. Len(Plan) : i < s.node /\ Opens(s.run, Plan[i]) => Plan[i] \in s.open

PlanInv ==
    \A w \in Workers :
        /\ worker[w].pc # "idle" => run[worker[w].run].status # "absent"
        /\ worker[w].pc \in AtPlan => OpenKept(worker[w])

\* Every step of the engine only adds to what is settled and approved.
LEMMA StepGrows ==
    ASSUME TypeInv, FlowInv, [Next]_vars
    PROVE  Grows
<1>1. CASE UNCHANGED step
  <2>1. ASSUME NEW w \in Workers, CallAdapter(w)
        PROVE  UNCHANGED request \/ \E q \in Requests : CreateRequest(q)
    <3>1. worker[w].run \in Runs /\ Here(w) \in Nodes
      BY <2>1, AtWork DEF CallAdapter
    <3>2. PICK r \in Runs, n \in Nodes : r = worker[w].run /\ n = Here(w)
      BY <3>1
    <3>3. PICK o \in Outcomes : Perform(r, n, worker[w].seen, o)
      BY <2>1, <3>2 DEF CallAdapter
    <3>4. CreateRequest(<<r, n>>) \/ UNCHANGED request
      BY <3>3, PerformCases
    <3> QED
      BY <3>4, RequestOf
  <2>2. \/ UNCHANGED request
        \/ Decision
        \/ \E q \in Requests : CreateRequest(q) \/ PassDeadline(q)
    BY <2>1 DEF Next, vars, CreateRun, CancelRun, BecomeDue, ExpireLease, ClaimRuns, Execute,
       LoadRun, BeginRun, ReadStep, MarkStep, RecordStep, AppendEvidence, ReleaseRun, FinishRun,
       ReleaseAs, StoreFails, Crash, Faulty, List, Decide, Deadline
  <2> QED
    BY <1>1, <2>2, RequestGrows DEF TypeInv, TypeOK
<1>2. CASE step' # step
  <2>1. PICK u \in WorkerType, row \in StepType :
          /\ u.run \in Runs /\ u.node \in 1 .. Len(Plan) /\ Plan[u.node] \in Nodes
          /\ BehindSettled(u)
          /\ step' = [step EXCEPT ![u.run][Plan[u.node]] = row]
          /\ step[u.run][Plan[u.node]].status \notin Settled
    BY <1>2, OneRowWritten
  <2>2. \A q \in Runs, m \in Nodes : q # u.run \/ m # Plan[u.node] => step'[q][m] = step[q][m]
    BY <2>1, StepTyped
  <2>3. UNCHANGED request
    BY <1>2 DEF Next, vars, CreateRun, CancelRun, BecomeDue, ExpireLease, ClaimRuns, Execute,
       LoadRun, BeginRun, ReadStep, MarkStep, CallAdapter, RecordStep, AppendEvidence,
       ReleaseRun, FinishRun, ReleaseAs, StoreFails, Crash, Faulty, List, Decide, Deadline
  <2> QED
    BY <2>1, <2>2, <2>3 DEF Grows
<1> QED
  BY <1>1, <1>2

\* What opened behind a worker was open already.
LEMMA OpenStaysKept ==
    ASSUME Grows, NEW u \in WorkerType, u.run \in Runs, BehindSettled(u), OpenKept(u),
           NEW s, s.run = u.run, s.node = u.node, s.open = u.open
    PROVE  OpenKept(s)'
<1> SUFFICES ASSUME NEW i \in 1 .. Len(Plan), i < u.node, Opens(u.run, Plan[i])'
             PROVE  Plan[i] \in u.open
  BY DEF OpenKept
<1>1. step'[u.run][Plan[i]] = step[u.run][Plan[i]]
  BY NodeAt DEF Grows, BehindSettled, Passed, Settled
<1> QED
  BY <1>1 DEF OpenKept, Opens

LEMMA OpenGoesOn ==
    ASSUME NEW u \in WorkerType, OpenKept(u), UNCHANGED step, NEW s, s.run = u.run,
           s.node = u.node + 1, u.open \subseteq s.open,
           Opens(u.run, Plan[u.node]) => Plan[u.node] \in s.open
    PROVE  OpenKept(s)'
<1> SUFFICES ASSUME NEW i \in 1 .. Len(Plan), i < u.node + 1, Opens(u.run, Plan[i])
             PROVE  Plan[i] \in s.open
  BY DEF OpenKept, Opens
<1>1. i = u.node \/ i < u.node
  BY PlanLength DEF WorkerType
<1> QED
  BY <1>1 DEF OpenKept

\* The worker at work, in constants.
LEMMA AtPlanNow ==
    ASSUME TypeInv, FlowInv, PlanInv, NEW w \in Workers, worker[w].pc \in AtPlan
    PROVE  \E u \in WorkerType : /\ u = worker[w] /\ u.run \in Runs
                                 /\ BehindSettled(u) /\ Carries(u) /\ OpenKept(u)
<1>1. PICK u \in WorkerType : u = worker[w]
  BY WorkerFields
<1>2. WorkerOK(u) /\ OpenKept(u) /\ u.run \in Runs
  BY <1>1, AtWork DEF FlowInv, PlanInv, AtPlan
<1>3. BehindSettled(u) /\ Carries(u)
  BY <1>1, <1>2 DEF WorkerOK, AtPlan
<1> QED
  BY <1>1, <1>2, <1>3

\* Once created a run is never absent again.
LEMMA CreatedStays ==
    ASSUME TypeInv, [Next]_vars, NEW r \in Runs, run[r].status # "absent"
    PROVE  run'[r].status # "absent"
<1>0. run \in [Runs -> RunType]
  BY DEF TypeInv, TypeOK
<1>1. ASSUME NEW q \in Runs, CreateRun(q) \/ CancelRun(q) \/ BecomeDue(q) \/ ExpireLease(q)
      PROVE  run'[r].status # "absent"
  <2>0. run[r] \in RunType
    BY <1>0
  <2>1. CASE CreateRun(q)
    BY <1>0, <2>0, <2>1 DEF CreateRun, NoRun
  <2>2. CASE CancelRun(q)
    BY <1>0, <2>0, <2>2 DEF CancelRun, WriteRun, RunType
  <2>3. CASE BecomeDue(q)
    BY <1>0, <2>0, <2>3 DEF BecomeDue, RunType
  <2>4. CASE ExpireLease(q)
    BY <1>0, <2>0, <2>4 DEF ExpireLease, RunType
  <2> QED
    BY <1>1, <2>1, <2>2, <2>3, <2>4
<1>2. ASSUME NEW w \in Workers, ClaimRuns(w)
      PROVE  run'[r].status # "absent"
  <2>1. run[r] \in RunType
    BY <1>0
  <2>2. run'[r] = run[r] \/ run'[r] = [run[r] EXCEPT !.lease = w, !.expired = FALSE]
    BY <1>2 DEF ClaimRuns
  <2> QED
    BY <2>1, <2>2 DEF RunType
<1>3. ASSUME NEW w \in Workers, BeginRun(w)
      PROVE  run'[r].status # "absent"
  <2>1. CASE UNCHANGED run
    BY <2>1
  <2>2. CASE WriteRun(worker[w].run, [run[worker[w].run] EXCEPT !.status = "running", !.attempts = @ + 1])
    BY <1>0, <2>2 DEF WriteRun, RunType
  <2> QED
    BY <1>3, <2>1, <2>2 DEF BeginRun
<1>4. ASSUME NEW w \in Workers, NEW status, status # "absent", ReleaseAs(w, status)
      PROVE  run'[r].status # "absent"
  BY <1>0, <1>4 DEF ReleaseAs, WriteRun, Released, RunType
<1>5. ASSUME NEW w \in Workers, ReleaseRun(w) \/ FinishRun(w)
      PROVE  run'[r].status # "absent"
  <2>1. worker[w].outcome # "absent"
    BY WorkerFields DEF Outcomes
  <2> QED
    BY <1>4, <1>5, <2>1 DEF ReleaseRun, FinishRun
<1>6. ASSUME UNCHANGED run
      PROVE  run'[r].status # "absent"
  BY <1>6
<1> QED
  BY <1>1, <1>2, <1>3, <1>5, <1>6 DEF Next, Execute, LoadRun, ReadStep, MarkStep, CallAdapter,
     RecordStep, AppendEvidence, StoreFails, Crash, Faulty, List, Decide, Deadline, vars

\* What moves a worker, other than to idle.
LEMMA WorkerStep ==
    ASSUME TypeInv, [Next]_vars, NEW w \in Workers, worker'[w] # worker[w],
           worker'[w].pc # "idle"
    PROVE  \/ LoadRun(w) \/ BeginRun(w)
           \/ ReadStep(w) \/ MarkStep(w) \/ CallAdapter(w) \/ RecordStep(w) \/ AppendEvidence(w)
<1>0. worker \in [Workers -> WorkerType]
  BY DEF TypeInv, TypeOK
<1>1. ASSUME NEW v \in Workers, ClaimRuns(v)
      PROVE  FALSE
  <2>1. /\ worker[v].pc = "idle"
        /\ \E batch \in SUBSET Due : worker' = [worker EXCEPT ![v].queue = batch]
    BY <1>1 DEF ClaimRuns
  <2> QED
    BY <1>0, <2>1 DEF WorkerType
<1>2. ASSUME NEW v \in Workers, ReleaseRun(v) \/ FinishRun(v) \/ StoreFails(v) \/ Crash(v)
      PROVE  FALSE
  BY <1>0, <1>2 DEF ReleaseRun, FinishRun, ReleaseAs, StoreFails, Crash, Faulty, GoTo, Return, Idle
<1>3. ASSUME NEW v \in Workers,
             \/ LoadRun(v) \/ BeginRun(v)
             \/ ReadStep(v) \/ MarkStep(v) \/ CallAdapter(v) \/ RecordStep(v) \/ AppendEvidence(v)
      PROVE  v = w
  BY <1>0, <1>3 DEF LoadRun, BeginRun, ReadStep, MarkStep, CallAdapter, RecordStep,
     AppendEvidence, GoTo
<1>4. ASSUME NEW q \in Runs
      PROVE  ~ (CreateRun(q) \/ CancelRun(q) \/ BecomeDue(q) \/ ExpireLease(q))
  BY DEF CreateRun, CancelRun, BecomeDue, ExpireLease
<1>5. ~ (List \/ Decide \/ Deadline \/ UNCHANGED vars)
  BY DEF List, Decide, Deadline, vars
<1> QED
  BY <1>1, <1>2, <1>3, <1>4, <1>5 DEF Next, Execute

\* The nodes that open behind a worker are in its set.
LEMMA OpenOfWork ==
    ASSUME TypeInv, FlowInv, PlanInv, Grows, NEW w \in Workers,
           ReadStep(w) \/ MarkStep(w) \/ CallAdapter(w) \/ RecordStep(w) \/ AppendEvidence(w),
           worker'[w].pc # "idle"
    PROVE  worker'[w].run = worker[w].run /\ OpenKept(worker[w])'
<1>1. worker[w].pc \in AtPlan /\ worker \in [Workers -> WorkerType]
  BY DEF ReadStep, MarkStep, CallAdapter, RecordStep, AppendEvidence, AtPlan, TypeInv, TypeOK
<1>2. PICK u \in WorkerType : /\ u = worker[w] /\ u.run \in Runs
                              /\ BehindSettled(u) /\ Carries(u) /\ OpenKept(u)
  BY <1>1, AtPlanNow
<1>3. PICK n : n = Plan[u.node]
  OBVIOUS
<1>4. ASSUME NEW s, worker'[w] = s, s.run = u.run, s.node = u.node, s.open = u.open
      PROVE  worker'[w].run = worker[w].run /\ OpenKept(worker[w])'
  <2>1. OpenKept(s)'
    BY <1>2, <1>4, OpenStaysKept
  <2> QED
    BY <1>2, <1>4, <2>1 DEF OpenKept, Opens
<1>5. ASSUME NEW more, worker'[w] = After(w, more), UNCHANGED step, u.open \subseteq more,
             Opens(u.run, n) => n \in more
      PROVE  worker'[w].run = worker[w].run /\ OpenKept(worker[w])'
  <2>1. PICK s : s = After(w, more)
    OBVIOUS
  <2>2. s.run = u.run /\ s.node = u.node + 1 /\ s.open = more
    BY <1>2, <2>1 DEF After, WorkerType
  <2>3. OpenKept(s)'
    BY <1>2, <1>3, <1>5, <2>2, OpenGoesOn
  <2> QED
    BY <1>2, <1>5, <2>1, <2>2, <2>3 DEF OpenKept, Opens
<1>6. CASE ReadStep(w)
  <2>1. UNCHANGED step
    BY <1>6 DEF ReadStep
  <2>2. CASE step[u.run][n].status \in {"completed", "skipped"}
    <3>1. PICK more : more = IF step[u.run][n].result THEN u.open \cup {n} ELSE u.open
      OBVIOUS
    <3>2. worker'[w] = After(w, more)
      BY <1>1, <1>2, <1>3, <1>6, <2>2, <3>1 DEF ReadStep, Here, GoTo
    <3> QED
      BY <1>5, <2>1, <3>1, <3>2 DEF Opens
  <2>3. CASE step[u.run][n].status \notin {"completed", "skipped"}
    <3>1. worker'[w] = [u EXCEPT !.pc = "mark", !.seen = step[u.run][n]]
      BY <1>1, <1>2, <1>3, <1>6, <2>3 DEF ReadStep, Here, GoTo
    <3> QED
      BY <1>4, <3>1 DEF WorkerType
  <2> QED
    BY <2>2, <2>3
<1>7. CASE MarkStep(w)
  <2>1. PICK row :
          \/ GoTo(w, Return(w))
          \/ GoTo(w, [u EXCEPT !.pc = "act"])
          \/ GoTo(w, [u EXCEPT !.pc = "evidence", !.seen = row, !.outcome = "skipped"])
    BY <1>2, <1>7 DEF MarkStep
  <2>2. PICK s :
          /\ worker'[w] = s
          /\ \/ s = [u EXCEPT !.pc = "act"]
             \/ s = [u EXCEPT !.pc = "evidence", !.seen = row, !.outcome = "skipped"]
    BY <1>1, <2>1 DEF GoTo, Return, Idle
  <2> QED
    BY <1>4, <2>2 DEF WorkerType
<1>8. CASE CallAdapter(w)
  <2>1. PICK o \in Outcomes :
          GoTo(w, [u EXCEPT !.pc = "record", !.seen = Attempted(u.seen), !.outcome = o])
    BY <1>2, <1>8 DEF CallAdapter
  <2>2. worker'[w] = [u EXCEPT !.pc = "record", !.seen = Attempted(u.seen), !.outcome = o]
    BY <1>1, <2>1 DEF GoTo
  <2> QED
    BY <1>4, <2>2 DEF WorkerType
<1>9. CASE RecordStep(w)
  <2>1. PICK row :
          GoTo(w, Return(w)) \/ GoTo(w, [u EXCEPT !.pc = "evidence", !.seen = row])
    BY <1>2, <1>9 DEF RecordStep
  <2>2. worker'[w] = [u EXCEPT !.pc = "evidence", !.seen = row]
    BY <1>1, <2>1 DEF GoTo, Return, Idle
  <2> QED
    BY <1>4, <2>2 DEF WorkerType
<1>10. CASE AppendEvidence(w)
  <2>1. UNCHANGED step /\ u.pc = "evidence"
    BY <1>2, <1>10 DEF AppendEvidence
  <2>2. CASE Proceeds(w)
    <3>1. PICK more : more = IF u.seen.result THEN u.open \cup {n} ELSE u.open
      OBVIOUS
    <3>2. worker'[w] = After(w, more)
      BY <1>1, <1>2, <1>3, <1>10, <2>2, <3>1 DEF AppendEvidence, Here, GoTo
    <3>3. step[u.run][n] = u.seen
      BY <1>2, <1>3, <2>1, <2>2 DEF Carries, Proceeds, Settled
    <3> QED
      BY <1>5, <2>1, <3>1, <3>2, <3>3 DEF Opens
  <2>3. CASE ~ Proceeds(w)
    <3>1. worker'[w] = [u EXCEPT !.pc = "release"]
      BY <1>1, <1>2, <1>10, <2>3 DEF AppendEvidence, GoTo
    <3> QED
      BY <1>4, <3>1 DEF WorkerType
  <2> QED
    BY <2>2, <2>3
<1> QED
  BY <1>6, <1>7, <1>8, <1>9, <1>10

LEMMA PlanStep ==
    ASSUME TypeInv, FlowInv, PlanInv, [Next]_vars
    PROVE  PlanInv'
<1>0. Grows /\ worker \in [Workers -> WorkerType]
  BY StepGrows DEF TypeInv, TypeOK
<1> SUFFICES ASSUME NEW w \in Workers, worker'[w].pc # "idle"
             PROVE  /\ run'[worker'[w].run].status # "absent"
                    /\ worker'[w].pc \in AtPlan => OpenKept(worker[w])'
  BY DEF PlanInv, AtPlan
<1>1. ASSUME worker[w].pc # "idle", worker'[w].run = worker[w].run
      PROVE  run'[worker'[w].run].status # "absent"
  BY <1>1, AtWork, CreatedStays DEF PlanInv
<1>2. CASE worker'[w] = worker[w]
  <2>1. ASSUME worker[w].pc \in AtPlan PROVE OpenKept(worker[w])'
    <3>1. PICK u \in WorkerType : /\ u = worker[w] /\ u.run \in Runs
                                  /\ BehindSettled(u) /\ Carries(u) /\ OpenKept(u)
      BY <2>1, AtPlanNow
    <3>2. OpenKept(u)'
      BY <1>0, <3>1, OpenStaysKept
    <3> QED
      BY <1>2, <3>1, <3>2 DEF OpenKept, Opens
  <2> QED
    BY <1>1, <1>2, <2>1
<1>3. CASE LoadRun(w)
  <2>1. PICK r \in worker[w].queue :
          IF run[r].status \in ActiveStates
            THEN GoTo(w, [Idle EXCEPT !.pc = "loaded", !.run = r,
                                      !.queue = worker[w].queue \ {r}])
            ELSE GoTo(w, [Idle EXCEPT !.queue = worker[w].queue \ {r}])
    BY <1>3 DEF LoadRun
  <2>2. worker'[w].pc = "loaded" /\ worker'[w].run = r /\ run[r].status \in ActiveStates
    BY <1>0, <2>1 DEF GoTo, Idle
  <2>3. UNCHANGED run
    BY <1>3 DEF LoadRun
  <2> QED
    BY <2>2, <2>3 DEF AtPlan, ActiveStates
<1>4. CASE BeginRun(w)
  <2>1. worker[w].pc = "loaded" /\ worker'[w] = [worker[w] EXCEPT !.pc = "step"]
    BY <1>0, <1>4 DEF BeginRun, GoTo, Return, Idle
  <2>2. worker'[w].run = worker[w].run /\ worker'[w].node = 1
    <3>1. worker[w].node = 1
      BY <2>1 DEF FlowInv, WorkerOK
    <3> QED
      BY <1>0, <2>1, <3>1 DEF WorkerType
  <2>3. OpenKept(worker[w])'
    BY <2>2, PlanLength DEF OpenKept
  <2> QED
    BY <1>1, <2>1, <2>2, <2>3
<1>5. CASE ReadStep(w) \/ MarkStep(w) \/ CallAdapter(w) \/ RecordStep(w) \/ AppendEvidence(w)
  <2>1. worker[w].pc # "idle"
    BY <1>5 DEF ReadStep, MarkStep, CallAdapter, RecordStep, AppendEvidence
  <2> QED
    BY <1>0, <1>1, <1>5, <2>1, OpenOfWork
<1> QED
  BY <1>2, <1>3, <1>4, <1>5, WorkerStep

LEMMA PlanStart ==
    ASSUME Init
    PROVE  PlanInv
BY DEF Init, PlanInv, Idle, AtPlan

PlanParts == TypeInv /\ FlowInv /\ LeaseInv /\ PlanInv

LEMMA PlanInductive ==
    /\ Init => PlanParts
    /\ PlanParts /\ [Next]_vars => PlanParts'
BY TypeInit, FlowInit, LeaseInit, PlanStart, TypeStep, FlowStep, LeaseStep, PlanStep
   DEF PlanParts

(***************************************************************************)
(* The refinement.  A step of the engine writes one run's row, or one      *)
(* step's row, or neither.                                                 *)
(***************************************************************************)
PromiseStep == [Promise!Next]_<<[r \in Runs |-> StateOf(run[r])],
                                [r \in Runs |-> [n \in Nodes |-> OutcomeOf(step[r][n])]]>>

LEMMA PromiseStutters ==
    ASSUME UNCHANGED step, \A r \in Runs : StateOf(run'[r]) = StateOf(run[r])
    PROVE  PromiseStep
BY DEF PromiseStep

LEMMA PromiseMoves ==
    ASSUME UNCHANGED step, NEW r \in Runs,
           \A q \in Runs \ {r} : StateOf(run'[q]) = StateOf(run[q]),
           NEW from, NEW to, StateOf(run[r]) = from, StateOf(run'[r]) = to,
           \/ from = to
           \/ from = "absent" /\ to = "going"
           \/ from = "going" /\ to = "cancelled"
           \/ /\ from = "going" /\ to = "completed"
              /\ \A n \in Nodes : step[r][n].status \in Passed
           \/ /\ from = "going" /\ to = "failed"
              /\ \E n \in Nodes : step[r][n].status = "failed"
    PROVE  PromiseStep
<1>1. CASE from = to
  BY <1>1, PromiseStutters
<1>2. [q \in Runs |-> StateOf(run'[q])] = [[q \in Runs |-> StateOf(run[q])] EXCEPT ![r] = to]
  OBVIOUS
<1>3. Promise!Move(r, from, to)
  BY <1>2 DEF Promise!Move
<1>4. ASSUME NEW n \in Nodes, step[r][n].status \in Passed
      PROVE  OutcomeOf(step[r][n]) \in Promise!Done
  BY <1>4 DEF Passed, OutcomeOf, Promise!Done
<1>5. ASSUME NEW n \in Nodes, step[r][n].status = "failed"
      PROVE  OutcomeOf(step[r][n]) = "failed"
  BY <1>5 DEF OutcomeOf
<1>6. Promise!Nodes = Nodes
  BY DEF Promise!Nodes, Nodes
<1>7. CASE from = "going" /\ to = "completed" /\ \A n \in Nodes : step[r][n].status \in Passed
  <2>1. Promise!Complete(r)
    BY <1>3, <1>4, <1>6, <1>7 DEF Promise!Complete
  <2> QED
    BY <2>1 DEF PromiseStep, Promise!Next
<1>8. CASE from = "going" /\ to = "failed" /\ \E n \in Nodes : step[r][n].status = "failed"
  <2>1. Promise!Fail(r)
    BY <1>3, <1>5, <1>6, <1>8 DEF Promise!Fail
  <2> QED
    BY <2>1 DEF PromiseStep, Promise!Next
<1>9. CASE (from = "absent" /\ to = "going") \/ (from = "going" /\ to = "cancelled")
  BY <1>3, <1>9 DEF PromiseStep, Promise!Next, Promise!Create, Promise!Cancel
<1> QED
  BY <1>1, <1>7, <1>8, <1>9

LEMMA PromiseKeepsRow ==
    ASSUME TypeInv, UNCHANGED run, NEW r \in Runs, NEW n \in Nodes, NEW row,
           step' = [step EXCEPT ![r][n] = row], OutcomeOf(row) = OutcomeOf(step[r][n])
    PROVE  PromiseStep
<1>1. step \in [Runs -> [Nodes -> StepType]]
  BY DEF TypeInv, TypeOK
<1>2. \A q \in Runs, m \in Nodes : OutcomeOf(step'[q][m]) = OutcomeOf(step[q][m])
  BY <1>1
<1> QED
  BY <1>2 DEF PromiseStep

LEMMA PromiseSettles ==
    ASSUME TypeInv, UNCHANGED run, NEW r \in Runs, NEW i \in 1 .. Len(Plan), NEW row,
           step' = [step EXCEPT ![r][Plan[i]] = row],
           run[r].status # "absent", step[r][Plan[i]].status \notin Settled,
           \A j \in 1 .. Len(Plan) : j < i => step[r][Plan[j]].status \in Passed,
           \/ Opened(r, Plan[i]) /\ row.status \in {"completed", "failed"}
           \/ ~ Opened(r, Plan[i]) /\ row.status = "skipped"
    PROVE  PromiseStep
<1> DEFINE before == [q \in Runs |-> [m \in Nodes |-> OutcomeOf(step[q][m])]]
           n      == Plan[i]
<1>0. n \in Nodes /\ step \in [Runs -> [Nodes -> StepType]]
  BY NodeAt DEF TypeInv, TypeOK
<1>1. before[r][n] = "todo"
  BY <1>0 DEF OutcomeOf, Settled
<1>2. \A m \in Nodes : before[r][m] = "opens" <=> Opens(r, m)
  BY DEF OutcomeOf, Opens
<1>3. Promise!Opened(r, n) <=> Opened(r, n)
  <2>1. \A e \in Edges : e[2] = n => e[1] \in Nodes
    BY EdgeNodes DEF Parents
  <2> QED
    BY <1>2, <2>1 DEF Promise!Opened, Opened, Parents
<1>4. Promise!Reached(r, i)
  <2>1. ASSUME NEW j \in 1 .. i - 1
        PROVE  before[r][Plan[j]] \in Promise!Done
    <3>1. j \in 1 .. Len(Plan) /\ j < i
      BY PlanLength
    <3>2. Plan[j] \in Nodes /\ step[r][Plan[j]].status \in Passed
      BY <3>1, NodeAt
    <3> QED
      BY <3>2 DEF OutcomeOf, Passed, Promise!Done
  <2> QED
    BY <2>1 DEF Promise!Reached
<1>5. [q \in Runs |-> [m \in Nodes |-> OutcomeOf(step'[q][m])]]
        = [before EXCEPT ![r][n] = OutcomeOf(row)]
  <2>1. \A q \in Runs, m \in Nodes :
           step'[q][m] = IF q = r /\ m = n THEN row ELSE step[q][m]
    BY <1>0
  <2> DEFINE after == [q \in Runs |-> [m \in Nodes |-> OutcomeOf(step'[q][m])]]
  <2>2. \A q \in Runs, m \in Nodes :
           after[q][m] = IF q = r /\ m = n THEN OutcomeOf(row) ELSE before[q][m]
    BY <2>1
  <2>3. /\ after = [q \in Runs |-> after[q]] /\ before = [q \in Runs |-> before[q]]
        /\ \A q \in Runs : /\ after[q] = [m \in Nodes |-> after[q][m]]
                           /\ before[q] = [m \in Nodes |-> before[q][m]]
    OBVIOUS
  <2> HIDE DEF after, before, n
  <2>4. ASSUME NEW q \in Runs
        PROVE  after[q] = [before EXCEPT ![r][n] = OutcomeOf(row)][q]
    <3>1. CASE q # r
      BY <2>2, <2>3, <3>1
    <3>2. CASE q = r
      <4>1. after[q] = [before[q] EXCEPT ![n] = OutcomeOf(row)]
        BY <1>0, <2>2, <2>3, <3>2
      <4> QED
        BY <2>3, <3>2, <4>1
    <3> QED
      BY <3>1, <3>2
  <2> QED
    BY <2>3, <2>4 DEF after
<1>6. OutcomeOf(row) \in IF Opened(r, n) THEN {"opens", "shut", "failed"} ELSE {"skipped"}
  BY DEF OutcomeOf
<1>7. StateOf(run[r]) # "absent"
  BY DEF StateOf
<1>8. Promise!Settle(r, i)
  BY <1>1, <1>3, <1>4, <1>5, <1>6, <1>7 DEF Promise!Settle
<1> QED
  BY <1>8 DEF PromiseStep, Promise!Next

\* A worker's set of open nodes tells what is open to the node it is at.
LEMMA OpenedRunnable ==
    ASSUME NEW u \in WorkerType, u.node \in 1 .. Len(Plan), OpenKept(u),
           Opened(u.run, Plan[u.node])
    PROVE  Runnable(Plan[u.node], u.open)
<1> SUFFICES ASSUME Parents(Plan[u.node]) # {}
             PROVE  \E e \in Parents(Plan[u.node]) : e[1] \in u.open /\ e[3] # "false"
  BY DEF Runnable
<1>1. PICK e \in Parents(Plan[u.node]) : e[3] # "false" /\ Opens(u.run, e[1])
  BY DEF Opened
<1>2. PICK i \in 1 .. Len(Plan), j \in 1 .. Len(Plan) : i < j /\ e[1] = Plan[i] /\ e[2] = Plan[j]
  BY WorkflowAssumption DEF Parents
<1>3. j = u.node
  BY <1>2, PlanDistinct DEF Parents
<1> QED
  BY <1>1, <1>2, <1>3 DEF OpenKept

LEMMA PromiseOfMark ==
    ASSUME PlanParts, NEW w \in Workers, MarkStep(w)
    PROVE  PromiseStep
<1>0. TypeInv /\ FlowInv /\ PlanInv
  BY DEF PlanParts
<1>1. worker[w].pc = "mark" /\ UNCHANGED run
  BY DEF MarkStep
<1>2. PICK u \in WorkerType :
        /\ u = worker[w] /\ u.run \in Runs /\ u.node \in 1 .. Len(Plan)
        /\ u.node <= Len(Plan) /\ Here(w) = Plan[u.node] /\ Plan[u.node] \in Nodes
        /\ u.seen \in StepType /\ u.open \in SUBSET Nodes
        /\ BehindSettled(u) /\ Carries(u)
  BY <1>0, <1>1, AtNodeNow
<1>3. PICK n \in Nodes : n = Plan[u.node]
  BY <1>2
<1>4. PICK row \in StepType :
        row = IF Runnable(n, u.open) THEN Attempted(u.seen) ELSE Skipped(u.seen)
  BY <1>2, AttemptTyped
<1>5. /\ Runnable(n, u.open) => row.status = "running"
      /\ ~ Runnable(n, u.open) => row.status = "skipped"
  BY <1>2, <1>4, AttemptTyped
<1>6. OpenKept(u) /\ run[u.run].status # "absent" /\ u.seen.status \notin Passed
  BY <1>0, <1>1, <1>2 DEF PlanInv, AtPlan, Carries
<1>7. CASE ~ CanUpsert(u.run, n, u.seen, row)
  BY <1>1, <1>2, <1>3, <1>4, <1>7, PromiseStutters DEF MarkStep
<1>8. CASE CanUpsert(u.run, n, u.seen, row)
  <2>1. step' = [step EXCEPT ![u.run][n] = row]
    BY <1>2, <1>3, <1>4, <1>8 DEF MarkStep
  <2>2. step[u.run][n].status \notin Settled
    BY <1>2, <1>5, <1>6, <1>8, MayWrite
  <2>3. CASE Runnable(n, u.open)
    <3>1. OutcomeOf(row) = OutcomeOf(step[u.run][n])
      BY <1>5, <2>2, <2>3 DEF OutcomeOf, Settled
    <3> QED
      BY <1>0, <1>1, <1>2, <2>1, <3>1, PromiseKeepsRow
  <2>4. CASE ~ Runnable(n, u.open)
    <3>1. ~ Opened(u.run, n)
      BY <1>2, <1>3, <1>6, <2>4, OpenedRunnable
    <3>2. \A j \in 1 .. Len(Plan) : j < u.node => step[u.run][Plan[j]].status \in Passed
      BY <1>2 DEF BehindSettled
    <3> QED
      BY <1>0, <1>1, <1>2, <1>3, <1>5, <1>6, <2>1, <2>2, <2>4, <3>1, <3>2, PromiseSettles
  <2> QED
    BY <2>3, <2>4
<1> QED
  BY <1>7, <1>8

LEMMA PromiseOfRecord ==
    ASSUME PlanParts, NEW w \in Workers, RecordStep(w)
    PROVE  PromiseStep
<1>0. TypeInv /\ FlowInv /\ PlanInv
  BY DEF PlanParts
<1>1. worker[w].pc = "record" /\ UNCHANGED run
  BY DEF RecordStep
<1>2. PICK u \in WorkerType :
        /\ u = worker[w] /\ u.run \in Runs /\ u.node \in 1 .. Len(Plan)
        /\ u.node <= Len(Plan) /\ Here(w) = Plan[u.node] /\ Plan[u.node] \in Nodes
        /\ u.seen \in StepType /\ u.open \in SUBSET Nodes
        /\ BehindSettled(u) /\ Carries(u)
  BY <1>0, <1>1, AtNodeNow
<1>3. PICK n \in Nodes : n = Plan[u.node]
  BY <1>2
<1>4. /\ u.seen.status = "running" /\ u.outcome \in Outcomes /\ Opened(u.run, n)
      /\ run[u.run].status # "absent"
  BY <1>0, <1>1, <1>2, <1>3 DEF PlanInv, AtPlan, Carries
<1>5. PICK row : row = Recorded(n, u.seen, u.outcome)
  OBVIOUS
<1>6. row.status = u.outcome
  BY <1>2, <1>5 DEF Recorded, StepType
<1>7. CASE ~ CanUpsert(u.run, n, u.seen, row)
  BY <1>1, <1>2, <1>3, <1>5, <1>7, PromiseStutters DEF RecordStep
<1>8. CASE CanUpsert(u.run, n, u.seen, row)
  <2>1. step' = [step EXCEPT ![u.run][n] = row]
    BY <1>2, <1>3, <1>5, <1>8 DEF RecordStep
  <2>2. step[u.run][n].status = "running"
    BY <1>4, <1>8 DEF CanUpsert, StepUnchanged
  <2>3. CASE u.outcome \in {"waiting_approval", "waiting_retry"}
    <3>1. OutcomeOf(row) = OutcomeOf(step[u.run][n])
      BY <1>6, <2>2, <2>3 DEF OutcomeOf
    <3> QED
      BY <1>0, <1>1, <1>2, <2>1, <3>1, PromiseKeepsRow
  <2>4. CASE u.outcome \in {"completed", "failed"}
    <3>1. \A j \in 1 .. Len(Plan) : j < u.node => step[u.run][Plan[j]].status \in Passed
      BY <1>2 DEF BehindSettled
    <3>2. step[u.run][n].status \notin Settled
      BY <2>2 DEF Settled
    <3> QED
      BY <1>0, <1>1, <1>2, <1>3, <1>4, <1>6, <2>1, <2>4, <3>1, <3>2, PromiseSettles
  <2> QED
    BY <1>4, <2>3, <2>4 DEF Outcomes
<1> QED
  BY <1>7, <1>8

LEMMA PromiseOfRelease ==
    ASSUME PlanParts, NEW w \in Workers, NEW status, ReleaseAs(w, status),
           NEW r \in Runs, r = worker[w].run,
           status \in {"completed", "failed", "waiting_approval", "waiting_retry"},
           status = "completed" => \A n \in Nodes : step[r][n].status \in Passed,
           status = "failed" => \E n \in Nodes : step[r][n].status = "failed"
    PROVE  PromiseStep
<1>1. /\ UNCHANGED step
      /\ \/ UNCHANGED run
         \/ /\ RunGuard(run[r].status, status)
            /\ run' = [run EXCEPT ![r] = Released(run[r], status)]
  BY DEF ReleaseAs, WriteRun
<1>2. CASE UNCHANGED run
  BY <1>1, <1>2, PromiseStutters
<1>3. CASE /\ RunGuard(run[r].status, status)
           /\ run' = [run EXCEPT ![r] = Released(run[r], status)]
  <2>1. run \in [Runs -> RunType] /\ run[r] \in RunType
    BY DEF PlanParts, TypeInv, TypeOK
  <2>2. run'[r].status = status /\ \A q \in Runs \ {r} : run'[q] = run[q]
    BY <1>3, <2>1 DEF Released, RunType
  <2>3. CASE run[r].status = status
    <3>1. ASSUME NEW q \in Runs PROVE StateOf(run'[q]) = StateOf(run[q])
      BY <2>2, <2>3 DEF StateOf
    <3> QED
      BY <1>1, <3>1, PromiseStutters
  <2>4. CASE run[r].status # status
    <3>1. StateOf(run[r]) = "going"
      BY <1>3, <2>4 DEF RunGuard, StateOf, ActiveStates
    <3>2. \/ StateOf(run'[r]) = "going"
          \/ StateOf(run'[r]) = status /\ status \in {"completed", "failed"}
      BY <2>2 DEF StateOf, ActiveStates
    <3>3. PICK from, to : from = StateOf(run[r]) /\ to = StateOf(run'[r])
      OBVIOUS
    <3>4. \A q \in Runs \ {r} : StateOf(run'[q]) = StateOf(run[q])
      BY <2>2
    <3> QED
      BY <1>1, <2>2, <3>1, <3>2, <3>3, <3>4, PromiseMoves
  <2> QED
    BY <2>3, <2>4
<1> QED
  BY <1>1, <1>2, <1>3

LEMMA PromiseOfRows ==
    ASSUME PlanParts, NEW r \in Runs,
           CreateRun(r) \/ CancelRun(r) \/ BecomeDue(r) \/ ExpireLease(r)
    PROVE  PromiseStep
<1>1. /\ run \in [Runs -> RunType] /\ run[r] \in RunType /\ UNCHANGED step
      /\ \A q \in Runs \ {r} : run'[q] = run[q]
  BY DEF PlanParts, TypeInv, TypeOK, CreateRun, CancelRun, BecomeDue, ExpireLease, WriteRun
<1>2. PICK from, to : from = StateOf(run[r]) /\ to = StateOf(run'[r])
  OBVIOUS
<1>3. CASE CreateRun(r)
  <2>1. from = "absent" /\ to = "going"
    BY <1>1, <1>2, <1>3 DEF CreateRun, NoRun, StateOf, ActiveStates
  <2> QED
    BY <1>1, <1>2, <2>1, PromiseMoves
<1>4. CASE CancelRun(r)
  <2>1. from = "going" /\ to = "cancelled"
    BY <1>1, <1>2, <1>4 DEF CancelRun, WriteRun, RunType, Active, StateOf, ActiveStates
  <2> QED
    BY <1>1, <1>2, <2>1, PromiseMoves
<1>5. CASE BecomeDue(r) \/ ExpireLease(r)
  <2>1. run'[r].status = run[r].status
    BY <1>1, <1>5 DEF BecomeDue, ExpireLease, RunType
  <2>2. from = to
    BY <1>2, <2>1 DEF StateOf
  <2> QED
    BY <1>1, <1>2, <2>2, PromiseMoves
<1> QED
  BY <1>3, <1>4, <1>5

LEMMA PromiseKept ==
    ASSUME PlanParts, [Next]_vars
    PROVE  PromiseStep
<1>0. TypeInv /\ FlowInv /\ run \in [Runs -> RunType]
  BY DEF PlanParts, TypeInv, TypeOK
<1>1. ASSUME NEW w \in Workers, ClaimRuns(w)
      PROVE  PromiseStep
  <2>1. ASSUME NEW r \in Runs PROVE run'[r].status = run[r].status
    <3>1. run[r] \in RunType
      BY <1>0
    <3>2. run'[r] = run[r] \/ run'[r] = [run[r] EXCEPT !.lease = w, !.expired = FALSE]
      BY <1>1 DEF ClaimRuns
    <3> QED
      BY <3>1, <3>2 DEF RunType
  <2>2. UNCHANGED step
    BY <1>1 DEF ClaimRuns
  <2> QED
    BY <2>1, <2>2, PromiseStutters DEF StateOf
<1>2. ASSUME NEW w \in Workers, BeginRun(w)
      PROVE  PromiseStep
  <2>1. UNCHANGED step /\ worker[w].run \in Runs
    BY <1>0, <1>2, AtWork DEF BeginRun
  <2>2. PICK r \in Runs : r = worker[w].run
    BY <2>1
  <2>3. CASE UNCHANGED run
    BY <2>1, <2>3, PromiseStutters
  <2>4. CASE /\ RunGuard(run[r].status, "running")
             /\ run' = [run EXCEPT ![r] = [run[r] EXCEPT !.status = "running", !.attempts = @ + 1]]
    <3>1. /\ \A q \in Runs \ {r} : run'[q] = run[q]
          /\ run'[r].status = "running" /\ run[r].status \in ActiveStates
      BY <1>0, <2>4 DEF RunType, RunGuard, ActiveStates
    <3> QED
      BY <2>1, <3>1, PromiseStutters DEF StateOf, ActiveStates
  <2> QED
    BY <1>2, <2>2, <2>3, <2>4 DEF BeginRun, MayBegin, WriteRun
<1>3. ASSUME NEW w \in Workers, ReleaseRun(w)
      PROVE  PromiseStep
  <2>1. worker[w].pc = "release" /\ ReleaseAs(w, worker[w].outcome)
    BY <1>3 DEF ReleaseRun
  <2>2. PICK u \in WorkerType :
          /\ u = worker[w] /\ u.run \in Runs /\ u.node \in 1 .. Len(Plan)
          /\ u.node <= Len(Plan) /\ Here(w) = Plan[u.node] /\ Plan[u.node] \in Nodes
          /\ u.seen \in StepType /\ u.open \in SUBSET Nodes
          /\ BehindSettled(u) /\ Carries(u)
    BY <1>0, <2>1, AtNodeNow
  <2>3. /\ u.outcome \notin Passed
        /\ u.outcome = "failed" => step[u.run][Plan[u.node]].status = "failed"
    BY <2>1, <2>2 DEF Carries
  <2>4. u.outcome \in {"failed", "waiting_approval", "waiting_retry"}
    BY <2>3 DEF WorkerType, Outcomes, Passed
  <2> QED
    BY <2>1, <2>2, <2>3, <2>4, PromiseOfRelease
<1>4. ASSUME NEW w \in Workers, FinishRun(w)
      PROVE  PromiseStep
  <2>1. worker[w].pc = "step" /\ worker[w].node > Len(Plan) /\ ReleaseAs(w, "completed")
    BY <1>4 DEF FinishRun
  <2>2. PICK u \in WorkerType : u = worker[w] /\ u.run \in Runs /\ WorkerOK(u)
    BY <1>0, <2>1, AtWork, WorkerFields DEF FlowInv
  <2>3. \A i \in 1 .. Len(Plan) : step[u.run][Plan[i]].status \in Passed
    BY <2>1, <2>2, PlanLength DEF WorkerOK, BehindSettled, WorkerType
  <2>4. \A n \in Nodes : step[u.run][n].status \in Passed
    BY <2>3 DEF Nodes
  <2> QED
    BY <2>1, <2>2, <2>4, PromiseOfRelease
<1>5. ASSUME UNCHANGED <<run, step>>
      PROVE  PromiseStep
  BY <1>5, PromiseStutters
<1> QED
  BY <1>1, <1>2, <1>3, <1>4, <1>5, PromiseOfRows, PromiseOfMark, PromiseOfRecord
     DEF Next, Execute, LoadRun, ReadStep, CallAdapter, AppendEvidence, StoreFails, Crash,
         Faulty, List, Decide, Deadline, vars

LEMMA PromiseStart ==
    ASSUME Init
    PROVE  Promise!Init
<1>1. \A r \in Runs : StateOf(run[r]) = "absent"
  BY DEF Init, NoRun, StateOf, ActiveStates
<1>2. \A r \in Runs, n \in Nodes : OutcomeOf(step[r][n]) = "todo"
  BY DEF Init, NoStep, OutcomeOf
<1> QED
  BY <1>1, <1>2 DEF Promise!Init, Promise!Nodes, Nodes

(* RunsThePlan, of any plan, runs and workers: leases, versions, retries,  *)
(* crashes, cancels and workers that overlap are invisible to whoever sees *)
(* only how the runs and their nodes come out (Engine.Execute).            *)
THEOREM ImplementsPlan == Spec => RunsThePlan
<1>1. PlanParts /\ [Next]_vars => PromiseStep
  BY PromiseKept
<1> QED
  BY <1>1, PromiseStart, PlanInductive, PTL DEF Spec, RunsThePlan, Promise!Spec, PromiseStep

(***************************************************************************)
(* OpenedByParents.  What a node's parents say of it goes on to all that   *)
(* is behind it because what is completed was called: a worker records a   *)
(* step only after its call.                                               *)
(***************************************************************************)
GateInv ==
    /\ \A w \in Workers : worker[w].pc = "record" => calls[worker[w].run][Here(w)] > 0
    /\ \A r \in Runs, n \in Nodes : step[r][n].status = "completed" => calls[r][n] > 0
    /\ \A r \in Runs, a \in Nodes : \A n \in Behind[a] :
           Kind[a] = "approval" /\ calls[r][n] > 0 => Approved(r, a)

\* What is behind a gate has parents, and they are the gate or behind it too.
LEMMA BehindClosed ==
    ASSUME NEW a \in Nodes, NEW n \in Behind[a]
    PROVE  n \in Nodes /\ Parents(n) # {} /\ \A e \in Parents(n) : e[1] \in Behind[a] \cup {a}
<1>1. PICK D \in SUBSET Nodes :
        /\ n \in D
        /\ \A m \in D : Parents(m) # {} /\ \A e \in Parents(m) : e[1] \in D \cup {a}
  BY DEF Behind
<1>2. D \subseteq Behind[a]
  BY <1>1 DEF Behind
<1> QED
  BY <1>1, <1>2

\* The counts of calls move only with a call, at its node.
LEMMA CallsMove ==
    ASSUME TypeInv, [Next]_vars
    PROVE  /\ \A r \in Runs, n \in Nodes : calls'[r][n] >= calls[r][n]
           /\ \A r \in Runs, n \in Nodes : calls'[r][n] # calls[r][n] =>
                 \E w \in Workers : CallAdapter(w) /\ worker[w].run = r /\ Here(w) = n
<1>0. calls \in [Runs -> [Nodes -> Nat]]
  BY DEF TypeInv, TypeOK
<1>1. CASE UNCHANGED calls
  BY <1>0, <1>1
<1>2. ASSUME NEW w \in Workers, CallAdapter(w)
      PROVE  /\ \A r \in Runs, n \in Nodes : calls'[r][n] >= calls[r][n]
             /\ \A r \in Runs, n \in Nodes : calls'[r][n] # calls[r][n] =>
                   worker[w].run = r /\ Here(w) = n
  <2>1. PICK r \in Runs, n \in Nodes : r = worker[w].run /\ n = Here(w)
    BY <1>2, AtWork DEF CallAdapter
  <2>2. calls' = [calls EXCEPT ![r][n] = @ + 1]
    BY <1>2, <2>1 DEF CallAdapter
  <2>3. \A q \in Runs, m \in Nodes :
           calls'[q][m] = IF q = r /\ m = n THEN calls[q][m] + 1 ELSE calls[q][m]
    BY <1>0, <2>2
  <2>4. \A q \in Runs, m \in Nodes : calls[q][m] \in Nat
    BY <1>0
  <2> QED
    BY <2>1, <2>3, <2>4
<1>3. UNCHANGED calls \/ \E w \in Workers : CallAdapter(w)
  BY DEF Next, vars, CreateRun, CancelRun, BecomeDue, ExpireLease, ClaimRuns, Execute,
     LoadRun, BeginRun, ReadStep, MarkStep, RecordStep, AppendEvidence, ReleaseRun, FinishRun,
     ReleaseAs, StoreFails, Crash, Faulty, List, Decide, Deadline
<1> QED
  BY <1>1, <1>2, <1>3

\* Only a worker that made the call completes a step.
LEMMA CompletedByRecord ==
    ASSUME TypeInv, FlowInv, [Next]_vars, NEW r \in Runs, NEW n \in Nodes,
           step[r][n].status # "completed", step'[r][n].status = "completed"
    PROVE  \E w \in Workers : worker[w].pc = "record" /\ worker[w].run = r /\ Here(w) = n
<1>0. step \in [Runs -> [Nodes -> StepType]]
  BY DEF TypeInv, TypeOK
<1>1. PICK w \in Workers : MarkStep(w) \/ RecordStep(w)
  BY DEF Next, vars, CreateRun, CancelRun, BecomeDue, ExpireLease, ClaimRuns, Execute,
     LoadRun, BeginRun, ReadStep, CallAdapter, AppendEvidence, ReleaseRun, FinishRun,
     ReleaseAs, StoreFails, Crash, Faulty, List, Decide, Deadline
<1>2. worker[w].pc \in {"mark", "record"} /\ step' # step
  BY <1>1 DEF MarkStep, RecordStep
<1>3. PICK u \in WorkerType :
        /\ u = worker[w] /\ u.run \in Runs /\ u.node \in 1 .. Len(Plan)
        /\ u.node <= Len(Plan) /\ Here(w) = Plan[u.node] /\ Plan[u.node] \in Nodes
        /\ u.seen \in StepType /\ u.open \in SUBSET Nodes
        /\ BehindSettled(u) /\ Carries(u)
  BY <1>2, AtNodeNow
<1>4. PICK m \in Nodes : m = Here(w)
  BY <1>3
<1>5. ASSUME NEW row, step' = [step EXCEPT ![u.run][m] = row]
      PROVE  u.run = r /\ m = n /\ row.status = "completed"
  <2>1. u.run = r
    BY <1>0, <1>3, <1>5
  <2>2. m = n
    BY <1>0, <1>3, <1>5, <2>1
  <2> QED
    BY <1>0, <1>3, <1>5, <2>1, <2>2
<1>6. CASE MarkStep(w)
  <2>1. PICK row :
          /\ step' = [step EXCEPT ![u.run][m] = row]
          /\ row = Attempted(u.seen) \/ row = Skipped(u.seen)
    BY <1>2, <1>3, <1>4, <1>6 DEF MarkStep
  <2>2. row.status # "completed"
    BY <2>1 DEF Attempted, Skipped
  <2> QED
    BY <1>5, <2>1, <2>2
<1>7. CASE RecordStep(w)
  <2>1. PICK row : step' = [step EXCEPT ![u.run][m] = row]
    BY <1>2, <1>3, <1>4, <1>7 DEF RecordStep
  <2> QED
    BY <1>3, <1>4, <1>5, <1>7, <2>1 DEF RecordStep
<1> QED
  BY <1>1, <1>6, <1>7

\* A worker comes to record a step only by its call.
LEMMA RecordAfterCall ==
    ASSUME TypeInv, GateInv, [Next]_vars, NEW w \in Workers, worker'[w].pc = "record"
    PROVE  calls'[worker'[w].run][Plan[worker'[w].node]] > 0
<1>0. worker \in [Workers -> WorkerType] /\ calls \in [Runs -> [Nodes -> Nat]]
  BY DEF TypeInv, TypeOK
<1>1. CASE worker'[w] = worker[w]
  <2>1. worker[w].run \in Runs /\ Here(w) \in Nodes /\ calls[worker[w].run][Here(w)] > 0
    BY <1>1, AtWork DEF GateInv
  <2>2. PICK r \in Runs, n \in Nodes : r = worker[w].run /\ n = Here(w)
    BY <2>1
  <2>3. calls'[r][n] >= calls[r][n] /\ calls[r][n] > 0
    BY <2>1, <2>2, CallsMove
  <2>4. calls[r][n] \in Nat
    BY <1>0
  <2>5. calls'[r][n] \in Nat
    BY TypeStep DEF TypeInv, TypeOK
  <2> QED
    BY <1>1, <2>2, <2>3, <2>4, <2>5 DEF Here
<1>2. CASE worker'[w] # worker[w]
  <2>1. CASE LoadRun(w)
    BY <1>0, <2>1 DEF LoadRun, GoTo, Idle
  <2>2. CASE BeginRun(w)
    BY <1>0, <2>2 DEF BeginRun, GoTo, Return, Idle, WorkerType
  <2>3. CASE ReadStep(w)
    <3>1. \/ \E more : worker'[w] = After(w, more)
          \/ worker'[w] = [worker[w] EXCEPT !.pc = "mark", !.seen = step[worker[w].run][Here(w)]]
      BY <1>0, <2>3 DEF ReadStep, GoTo
    <3> QED
      BY <1>0, <3>1 DEF After, WorkerType
  <2>4. CASE MarkStep(w)
    <3>1. \E row :
            \/ worker'[w] = Return(w)
            \/ worker'[w] = [worker[w] EXCEPT !.pc = "act"]
            \/ worker'[w] = [worker[w] EXCEPT !.pc = "evidence", !.seen = row, !.outcome = "skipped"]
      BY <1>0, <2>4 DEF MarkStep, GoTo
    <3> QED
      BY <1>0, <3>1 DEF Return, Idle, WorkerType
  <2>5. CASE RecordStep(w)
    <3>1. \E row :
            \/ worker'[w] = Return(w)
            \/ worker'[w] = [worker[w] EXCEPT !.pc = "evidence", !.seen = row]
      BY <1>0, <2>5 DEF RecordStep, GoTo
    <3> QED
      BY <1>0, <3>1 DEF Return, Idle, WorkerType
  <2>6. CASE AppendEvidence(w)
    <3>1. \/ \E more : worker'[w] = After(w, more)
          \/ worker'[w] = [worker[w] EXCEPT !.pc = "release"]
      BY <1>0, <2>6 DEF AppendEvidence, GoTo
    <3> QED
      BY <1>0, <3>1 DEF After, WorkerType
  <2>7. CASE CallAdapter(w)
    <3>1. PICK r \in Runs, n \in Nodes : r = worker[w].run /\ n = Here(w)
      BY <2>7, AtWork DEF CallAdapter
    <3>2. PICK o : worker'[w] = [worker[w] EXCEPT !.pc = "record",
                                   !.seen = Attempted(worker[w].seen), !.outcome = o]
      BY <1>0, <2>7 DEF CallAdapter, GoTo
    <3>3. worker'[w].run = r /\ Plan[worker'[w].node] = n
      BY <1>0, <3>1, <3>2 DEF WorkerType, Here
    <3>4. calls' = [calls EXCEPT ![r][n] = @ + 1]
      BY <2>7, <3>1 DEF CallAdapter
    <3> QED
      BY <1>0, <3>3, <3>4
  <2> QED
    BY <1>2, <2>1, <2>2, <2>3, <2>4, <2>5, <2>6, <2>7, WorkerStep
<1> QED
  BY <1>1, <1>2

LEMMA GateStep ==
    ASSUME TypeInv, FlowInv, GateInv, [Next]_vars
    PROVE  GateInv'
<1>0. Grows /\ TypeInv'
  BY StepGrows, TypeStep
<1>1. ASSUME NEW r \in Runs, NEW n \in Nodes
      PROVE  calls[r][n] \in Nat /\ calls'[r][n] \in Nat /\ calls'[r][n] >= calls[r][n]
  BY <1>0, CallsMove DEF TypeInv, TypeOK
<1>2. \A w \in Workers : worker'[w].pc = "record" => calls'[worker'[w].run][Here(w)'] > 0
  BY RecordAfterCall DEF Here
<1>3. ASSUME NEW r \in Runs, NEW n \in Nodes, step'[r][n].status = "completed"
      PROVE  calls'[r][n] > 0
  <2>1. calls[r][n] > 0
    BY <1>3, CompletedByRecord DEF GateInv
  <2> QED
    BY <1>1, <2>1
<1>4. ASSUME NEW r \in Runs, NEW a \in Nodes, NEW n \in Behind[a],
             Kind[a] = "approval", calls'[r][n] > 0
      PROVE  Approved(r, a)'
  <2>1. n \in Nodes /\ Parents(n) # {} /\ \A e \in Parents(n) : e[1] \in Behind[a] \cup {a}
    BY BehindClosed
  <2>2. CASE calls[r][n] > 0
    BY <1>0, <1>4, <2>2, ApprovedStays DEF GateInv
  <2>3. CASE ~ (calls[r][n] > 0)
    <3>1. PICK w \in Workers : CallAdapter(w) /\ worker[w].run = r /\ Here(w) = n
      BY <1>1, <1>4, <2>1, <2>3, CallsMove
    <3>2. worker[w].pc = "act"
      BY <3>1 DEF CallAdapter
    <3>3. Opened(r, n)
      BY <3>1, <3>2, AtNodeNow DEF Carries
    <3>4. PICK e \in Parents(n) : Opens(r, e[1])
      BY <2>1, <3>3 DEF Opened
    <3>5. e[1] \in Nodes /\ step[r][e[1]].status = "completed"
      BY <3>4, EdgeNodes DEF Opens
    <3>6. Approved(r, a)
      BY <1>4, <2>1, <3>5 DEF GateInv, FlowInv, RowsOK
    <3> QED
      BY <1>0, <3>6, ApprovedStays
  <2> QED
    BY <2>2, <2>3
<1> QED
  BY <1>2, <1>3, <1>4 DEF GateInv

LEMMA GateInit ==
    ASSUME Init
    PROVE  GateInv
<1>1. \A a \in Nodes : Behind[a] \subseteq Nodes
  BY BehindClosed
<1> QED
  BY <1>1 DEF Init, Idle, NoStep, GateInv

GateParts == TypeInv /\ FlowInv /\ GateInv

LEMMA GateInductive ==
    /\ Init => GateParts
    /\ GateParts /\ [Next]_vars => GateParts'
BY TypeInit, FlowInit, GateInit, TypeStep, FlowStep, GateStep DEF GateParts

(* OpenedByParents, of any plan, in any interleaving of any number of      *)
(* workers, stale ones included: a node runs only behind a parent whose    *)
(* recorded result opens it, an approval node completes only approved, and *)
(* of all that is behind it nothing runs before.                           *)
THEOREM NothingRunsUnapproved == Spec => []OpenedByParents
<1>1. ASSUME GateParts PROVE OpenedByParents
  <2>1. ASSUME NEW r \in Runs, NEW n \in Nodes, Kind[n] = "approval", ~ Approved(r, n),
               NEW m \in Behind[n]
        PROVE  calls[r][m] = 0
    <3>1. m \in Nodes /\ ~ (calls[r][m] > 0)
      BY <1>1, <2>1, BehindClosed DEF GateParts, GateInv
    <3>2. calls[r][m] \in Nat
      BY <1>1, <3>1 DEF GateParts, TypeInv, TypeOK
    <3> QED
      BY <3>1, <3>2
  <2> QED
    BY <1>1, <2>1 DEF GateParts, FlowInv, RowsOK, OpenedByParents, Opened, Opens, Approved
<1> QED
  BY <1>1, GateInductive, PTL DEF Spec
===============================================================================
