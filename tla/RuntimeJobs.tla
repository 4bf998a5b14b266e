----------------------------- MODULE RuntimeJobs -----------------------------
(***************************************************************************)
(* worker_runtime_jobs: the queue that hands the items of one kind to the  *)
(* fleet of workers.  Nobody enqueues: a claim first makes the queue agree *)
(* with the items that are eligible now, then leases the due rows.  Each   *)
(* function is one SQL statement, so one step.                             *)
(*                                                                         *)
(* A lease token is the worker's name: a worker claims again only when it  *)
(* is through with its last claim, or has forgotten it.                    *)
(***************************************************************************)
EXTENDS Integers, FiniteSets

CONSTANTS
    JobItems,           \* items of the kind that may become eligible
    Workers,            \* worker processes
    Nobody              \* no lease

VARIABLE job            \* worker_runtime_jobs: listed, due, lease, expired

NoJob == [listed |-> FALSE, due |-> FALSE, lease |-> Nobody, expired |-> FALSE]

InitJobs == job = [x \in JobItems |-> NoJob]

JobsOK ==
    job \in [JobItems -> [listed : BOOLEAN, due : BOOLEAN,
                          lease : Workers \cup {Nobody}, expired : BOOLEAN]]

\* The rows a claim leases: eligible, and new or due and not under a lease.
ClaimableFree(eligible) ==
    {x \in eligible : ~job[x].listed \/ (job[x].due /\ job[x].lease = Nobody)}

ClaimableLeased(eligible) == {x \in eligible : ~job[x].listed \/ job[x].due}

Claimable(eligible) ==
    {x \in eligible : \/ ~job[x].listed
                      \/ job[x].due /\ (job[x].lease = Nobody \/ job[x].expired)}

\* The row of an item that is no longer eligible goes, leased or not.
ClaimJobs(w, eligible) ==
    job' = [x \in JobItems |->
              IF x \notin eligible THEN NoJob
              ELSE IF x \in Claimable(eligible)
                   THEN [listed |-> TRUE, due |-> TRUE, lease |-> w, expired |-> FALSE]
                   ELSE job[x]]

HoldsJob(w, x) == job[x].lease = w

ReleaseJob(w, x, now) ==
    /\ HoldsJob(w, x)
    /\ job' = [job EXCEPT ![x] = [NoJob EXCEPT !.listed = TRUE, !.due = now]]

CompleteJob(w, x) ==
    /\ HoldsJob(w, x)
    /\ job' = [job EXCEPT ![x] = NoJob]

\* Clocks: available_at and lease_until pass.
ComesDue(x) ==
    /\ job[x].listed /\ ~job[x].due
    /\ job' = [job EXCEPT ![x].due = TRUE]

LeaseRunsOut(x) ==
    /\ job[x].lease # Nobody /\ ~job[x].expired
    /\ job' = [job EXCEPT ![x].expired = TRUE]
=============================================================================
