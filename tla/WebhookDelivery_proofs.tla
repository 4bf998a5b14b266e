------------------------ MODULE WebhookDelivery_proofs ------------------------
(***************************************************************************)
(* Proofs about the durable webhook deliveries.                            *)
(***************************************************************************)
EXTENDS WebhookDelivery, FiniteSetTheorems, TLAPS

-----------------------------------------------------------------------------
(* Types *)

\* A worker works on a delivery there is, at an attempt it had.
JobInv ==
    \A w \in Workers : jobs[w] # None =>
        /\ jobs[w].row \in 1..Len(rows)
        /\ jobs[w].attempt <= rows[jobs[w].row].attempt

Shape == TypeOK /\ JobInv

LEMMA JobType ==
    ASSUME Shape, NEW w \in Workers, jobs[w] # None
    PROVE  /\ jobs[w] \in Jobs
           /\ jobs[w].row \in 1..Len(rows)
           /\ jobs[w].attempt <= rows[jobs[w].row].attempt
  BY DEF Shape, JobInv, TypeOK, JobsOK

LEMMA CallType ==
    ASSUME CallsOK, NEW c \in Callers, calls[c] # None
    PROVE  calls[c] \in Calls
  BY DEF CallsOK

LEMMA RowType ==
    ASSUME RowsOK, NEW d \in 1..Len(rows)
    PROVE  rows[d] \in Rows /\ d \in 1..MaxRows
  BY WebhookAssumption DEF RowsOK

\* A step that changes no row and no job, or only adds a row, keeps JobInv.
LEMMA Added ==
    ASSUME Shape, Len(rows) < MaxRows, NEW r \in Rows, rows' = Append(rows, r), UNCHANGED jobs
    PROVE  /\ RowsOK' /\ JobInv'
           /\ Len(rows') = Len(rows) + 1
           /\ rows'[Len(rows) + 1] = r
           /\ \A d \in 1..Len(rows) : rows'[d] = rows[d]
<1>1. /\ rows' \in Seq(Rows)
      /\ Len(rows') = Len(rows) + 1
      /\ rows'[Len(rows) + 1] = r
      /\ \A d \in 1..Len(rows) : rows'[d] = rows[d]
  BY DEF Shape, TypeOK, RowsOK
<1>2. RowsOK'
  BY <1>1, WebhookAssumption DEF Shape, TypeOK, RowsOK
<1>3. JobInv'
  <2> SUFFICES ASSUME NEW w \in Workers, jobs'[w] # None
               PROVE  jobs'[w].row \in 1..Len(rows') /\ jobs'[w].attempt <= rows'[jobs'[w].row].attempt
    BY DEF JobInv
  <2>1. jobs'[w] = jobs[w] /\ jobs[w].row \in 1..Len(rows)
        /\ jobs[w].attempt <= rows[jobs[w].row].attempt /\ Len(rows) \in Nat
    BY JobType DEF Shape, TypeOK, RowsOK
  <2> QED  BY <1>1, <2>1
<1> QED  BY <1>1, <1>2, <1>3

LEMMA NewRowType ==
    ASSUME NEW e \in Events, NEW o \in 1..MaxRows \cup {None}, NEW k \in Secrets
    PROVE  NewRow(e, o, k) \in Rows
  BY WebhookAssumption DEF NewRow, Rows

\* Changing one row of the table.
LEMMA Updated ==
    ASSUME RowsOK, NEW d \in 1..Len(rows), NEW r \in Rows, rows' = [rows EXCEPT ![d] = r]
    PROVE  /\ RowsOK' /\ Len(rows') = Len(rows)
           /\ rows'[d] = r
           /\ \A e \in 1..Len(rows) : e # d => rows'[e] = rows[e]
  BY DEF RowsOK

LEMMA FaultOK == ASSUME FaultsOK, faults' = faults \/ Fault PROVE FaultsOK' /\ faults' \in {faults, faults + 1}
  BY WebhookAssumption DEF FaultsOK, Fault

LEMMA InitShape == Init => Shape
<1> SUFFICES ASSUME Init PROVE Shape
  OBVIOUS
<1>1. 1 \in Secrets /\ None \notin Secrets
  BY WebhookAssumption DEF Secrets
<1>2. SubOK
  BY <1>1 DEF Init, SubOK
<1>3. RowsOK /\ HistoryOK
  BY WebhookAssumption DEF Init, RowsOK, HistoryOK
<1>4. AcceptedOK /\ FaultsOK
  BY WebhookAssumption DEF Init, AcceptedOK, FaultsOK
<1>5. JobsOK /\ CallsOK /\ IntakeOK /\ JobInv
  BY DEF Init, JobsOK, CallsOK, IntakeOK, JobInv
<1> QED  BY <1>1, <1>2, <1>3, <1>4, <1>5 DEF Init, Shape, TypeOK, KeysOK

LEMMA IntakeShape == ASSUME Shape, Intake PROVE Shape'
<1>0. TypeOK /\ JobInv
  BY DEF Shape
<1>1. ASSUME NEW e \in Events, ReadSubscription(e) PROVE Shape'
  <2>1. UNCHANGED <<sub, rows, history, jobs, accepted, calls, created, revoked, deleted, faults>>
    BY <1>1 DEF ReadSubscription, work, keys
  <2>2. IntakeOK'
    BY <1>0, <1>1 DEF TypeOK, SubOK, IntakeOK, ReadSubscription
  <2> QED
    BY <1>0, <2>1, <2>2 DEF Shape, TypeOK, SubOK, RowsOK, HistoryOK, JobsOK, AcceptedOK, CallsOK, KeysOK,
        FaultsOK, JobInv
<1>2. ASSUME CommitProjection PROVE Shape'
  <2>0. projecting \in [event : Events, secret : Secrets \cup {None}]
    BY <1>0, <1>2 DEF TypeOK, IntakeOK, CommitProjection
  <2>1. UNCHANGED <<sub, history, jobs, accepted, calls, created, revoked, deleted, faults>>
    BY <1>2 DEF CommitProjection, keys
  <2>2. IntakeOK'
    BY <1>0, <1>2, <2>0 DEF TypeOK, IntakeOK, CommitProjection
  <2>3. RowsOK' /\ JobInv'
    <3>1. CASE rows' = rows
      BY <1>0, <2>1, <3>1 DEF TypeOK, RowsOK, JobInv
    <3>2. CASE /\ projecting.secret # None /\ Len(rows) < MaxRows
               /\ rows' = Append(rows, NewRow(projecting.event, None, projecting.secret))
      <4>1. NewRow(projecting.event, None, projecting.secret) \in Rows
        BY <2>0, <3>2, NewRowType
      <4> QED  BY <2>1, <3>2, <4>1, Added
    <3> QED  BY <1>2, <3>1, <3>2 DEF CommitProjection
  <2> QED
    BY <1>0, <2>1, <2>2, <2>3 DEF Shape, TypeOK, SubOK, HistoryOK, JobsOK, AcceptedOK, CallsOK, KeysOK, FaultsOK
<1>3. ASSUME AbortProjection PROVE Shape'
  <2>1. UNCHANGED <<sub, rows, history, jobs, accepted, projected, calls, created, revoked, deleted>>
        /\ projecting' = None
    BY <1>3 DEF AbortProjection, ReceiptRolledBack, work, keys
  <2>2. FaultsOK'
    BY <1>0, <1>3, FaultOK DEF TypeOK, AbortProjection
  <2> QED
    BY <1>0, <2>1, <2>2 DEF Shape, TypeOK, SubOK, RowsOK, HistoryOK, JobsOK, AcceptedOK, IntakeOK, CallsOK,
        KeysOK, JobInv
<1>4. ASSUME NEW d \in 1..Len(rows), Replay(d) PROVE Shape'
  <2>1. NewRow(rows[d].event, d, sub.secret) \in Rows
    BY <1>0, NewRowType, RowType DEF Rows, TypeOK, SubOK
  <2>2. UNCHANGED <<sub, history, jobs, accepted, projecting, projected, calls, created, revoked, deleted, faults>>
    BY <1>4 DEF Replay, intake, keys
  <2>3. RowsOK' /\ JobInv'
    BY <1>4, <2>1, <2>2, Added DEF Replay
  <2> QED
    BY <1>0, <2>2, <2>3 DEF Shape, TypeOK, SubOK, HistoryOK, JobsOK, AcceptedOK, IntakeOK, CallsOK, KeysOK, FaultsOK
<1> QED  BY <1>1, <1>2, <1>3, <1>4 DEF Intake

\* Attempts only grow, so whoever keeps a job, or drops it, keeps JobInv.
LEMMA JobsFollow ==
    ASSUME Shape, RowsOK', Len(rows') = Len(rows),
           \A d \in 1..Len(rows) : rows'[d].attempt >= rows[d].attempt,
           \A v \in Workers : jobs'[v] # None =>
               \/ /\ jobs[v] # None
                  /\ jobs'[v].row = jobs[v].row /\ jobs'[v].attempt = jobs[v].attempt
               \/ /\ jobs'[v].row \in 1..Len(rows)
                  /\ jobs'[v].attempt <= rows'[jobs'[v].row].attempt
    PROVE  JobInv'
<1> SUFFICES ASSUME NEW v \in Workers, jobs'[v] # None
             PROVE  /\ jobs'[v].row \in 1..Len(rows')
                    /\ jobs'[v].attempt <= rows'[jobs'[v].row].attempt
  BY DEF JobInv
<1>1. CASE /\ jobs[v] # None
           /\ jobs'[v].row = jobs[v].row /\ jobs'[v].attempt = jobs[v].attempt
  <2>1. /\ jobs[v].row \in 1..Len(rows) /\ jobs[v].attempt \in Nat
        /\ jobs[v].attempt <= rows[jobs[v].row].attempt
    BY <1>1, JobType DEF Jobs
  <2>2. rows[jobs[v].row] \in Rows /\ rows'[jobs[v].row] \in Rows
    BY <2>1 DEF Shape, TypeOK, RowsOK
  <2> QED  BY <1>1, <2>1, <2>2 DEF Rows
<1> QED  BY <1>1

\* The row a claim, and a completed attempt, leave.
LEMMA ClaimedRow ==
    ASSUME NEW q \in Rows, NEW n \in 0..AttemptLimit
    PROVE  LET r == [q EXCEPT !.status = "inflight", !.attempt = n, !.ready = FALSE, !.lapsed = FALSE]
           IN  /\ r \in Rows
               /\ r.status = "inflight" /\ r.attempt = n /\ r.lapsed = FALSE /\ r.secret = q.secret
  BY DEF Rows

LEMMA CompletedRow ==
    ASSUME NEW q \in Rows, NEW st \in Terminal \cup {"pending"}
    PROVE  LET r == [q EXCEPT !.status = st, !.lapsed = FALSE]
           IN  /\ r \in Rows
               /\ r.status = st /\ r.attempt = q.attempt /\ r.lapsed = FALSE /\ r.secret = q.secret
  BY DEF Rows

\* What a claim does to the row and gives to the worker.
LEMMA ClaimEffect ==
    ASSUME Shape, NEW w \in Workers, NEW d \in 1..Len(rows), Claim(w, d)
    PROVE  /\ RowsOK' /\ Len(rows') = Len(rows)
           /\ rows[d] \in Rows /\ rows'[d] \in Rows
           /\ rows'[d].status = "inflight" /\ rows'[d].attempt = rows[d].attempt + 1
           /\ rows'[d].lapsed = FALSE /\ rows'[d].secret = rows[d].secret
           /\ \A e \in 1..Len(rows) : e # d => rows'[e] = rows[e]
           /\ jobs'[w] = [row |-> d, attempt |-> rows[d].attempt + 1,
                          failures |-> sub.failures, answer |-> None]
           /\ jobs'[w] \in Jobs
           /\ \A v \in Workers : v # w => jobs'[v] = jobs[v]
           /\ JobsOK'
<1> DEFINE n == rows[d].attempt + 1
           r == [rows[d] EXCEPT !.status = "inflight", !.attempt = n, !.ready = FALSE, !.lapsed = FALSE]
           j == [row |-> d, attempt |-> rows[d].attempt + 1,
                 failures |-> sub.failures, answer |-> None]
<1>0. RowsOK /\ JobsOK /\ SubOK
  BY DEF Shape, TypeOK
<1>1. rows[d] \in Rows /\ d \in 1..MaxRows
  BY <1>0, RowType
<1>2. n \in 1..AttemptLimit /\ n \in 0..AttemptLimit
  BY <1>1, WebhookAssumption DEF Claim, Rows
<1>3. /\ r \in Rows /\ r.status = "inflight" /\ r.attempt = n /\ r.lapsed = FALSE
      /\ r.secret = rows[d].secret
  <2> HIDE DEF n
  <2> QED  BY <1>1, <1>2, ClaimedRow
<1>4. rows' = [rows EXCEPT ![d] = r]
  <2>1. rows' = [rows EXCEPT ![d].status = "inflight", ![d].attempt = @ + 1,
                             ![d].ready = FALSE, ![d].lapsed = FALSE]
    BY DEF Claim
  <2>2. rows \in [1..Len(rows) -> Rows]
    BY <1>0 DEF RowsOK
  <2> QED  BY <1>1, <2>1, <2>2 DEF Rows
<1>5. j \in Jobs
  BY <1>0, <1>1, <1>2 DEF Jobs, SubOK
<1>6. jobs' = [jobs EXCEPT ![w] = j]
  BY DEF Claim
<1> HIDE DEF r, j
<1>7. /\ rows'[d] \in Rows /\ RowsOK' /\ Len(rows') = Len(rows) /\ rows'[d] = r
      /\ \A e \in 1..Len(rows) : e # d => rows'[e] = rows[e]
  BY <1>0, <1>3, <1>4, Updated
<1>8. /\ jobs'[w] = j /\ \A v \in Workers : v # w => jobs'[v] = jobs[v]
      /\ JobsOK'
  BY <1>0, <1>5, <1>6 DEF JobsOK
<1> QED  BY <1>1, <1>3, <1>5, <1>7, <1>8 DEF j, n

\* What a completed attempt does to the row.
LEMMA CompleteEffect ==
    ASSUME Shape, NEW w \in Workers, Complete(w)
    PROVE  LET d == jobs[w].row
               o == Outcome(jobs[w])
           IN  /\ jobs[w] \in Jobs /\ d \in 1..Len(rows) /\ rows[d] \in Rows
               /\ o \in Terminal \cup {"retry"}
               /\ RowsOK' /\ Len(rows') = Len(rows)
               /\ rows'[d] \in Rows
               /\ rows'[d].status = (IF o = "retry" THEN "pending" ELSE o)
               /\ rows'[d].attempt = rows[d].attempt /\ rows'[d].secret = rows[d].secret
               /\ \A e \in 1..Len(rows) : e # d => rows'[e] = rows[e]
               /\ jobs'[w] = None
               /\ \A v \in Workers : v # w => jobs'[v] = jobs[v]
               /\ JobsOK'
<1> DEFINE d == jobs[w].row
           o == Outcome(jobs[w])
           st == IF o = "retry" THEN "pending" ELSE o
           r == [rows[d] EXCEPT !.status = st, !.lapsed = FALSE]
<1>0. RowsOK /\ JobsOK
  BY DEF Shape, TypeOK
<1>1. jobs[w] \in Jobs /\ d \in 1..Len(rows)
  BY JobType DEF Complete, Answered
<1>2. rows[d] \in Rows
  BY <1>0, <1>1, RowType
<1>3. o \in Terminal \cup {"retry"}
  BY DEF Outcome, Terminal
<1>4. /\ r \in Rows /\ r.status = st /\ r.attempt = rows[d].attempt
      /\ r.secret = rows[d].secret
  <2>1. st \in Terminal \cup {"pending"}
    BY <1>3
  <2> HIDE DEF st, d
  <2> QED  BY <1>2, <2>1, CompletedRow
<1>5. rows' = [rows EXCEPT ![d] = r] /\ jobs' = [jobs EXCEPT ![w] = None]
  BY <1>2 DEF Complete, Rows
<1> HIDE DEF r, d, o
<1>6. /\ RowsOK' /\ Len(rows') = Len(rows) /\ rows'[d] = r
      /\ \A e \in 1..Len(rows) : e # d => rows'[e] = rows[e]
  BY <1>0, <1>1, <1>4, <1>5, Updated
<1>7. /\ jobs'[w] = None /\ \A v \in Workers : v # w => jobs'[v] = jobs[v]
      /\ JobsOK'
  BY <1>0, <1>5 DEF JobsOK
<1> QED  BY <1>1, <1>2, <1>3, <1>4, <1>6, <1>7 DEF d, o, st

\* What the answer of an attempt leaves in the worker's hands.
LEMMA SendEffect ==
    ASSUME Shape, NEW w \in Workers, Send(w)
    PROVE  /\ jobs[w] \in Jobs /\ jobs[w].row \in 1..Len(rows)
           /\ JobsOK' /\ AcceptedOK'
           /\ \E met \in Answers \cup {"unsigned"} :
                /\ jobs'[w] = [jobs[w] EXCEPT !.answer = met]
                /\ accepted' = [accepted EXCEPT ![jobs[w].row] = IF met = "ok" THEN @ + 1 ELSE @]
           /\ \A v \in Workers : v # w => jobs'[v] = jobs[v]
<1>0. JobsOK /\ AcceptedOK
  BY DEF Shape, TypeOK
<1>1. jobs[w] \in Jobs /\ jobs[w].row \in 1..Len(rows)
  BY JobType DEF Send
<1>2. PICK met \in Answers \cup {"unsigned"} :
        /\ jobs' = [jobs EXCEPT ![w].answer = met]
        /\ accepted' = [accepted EXCEPT ![jobs[w].row] = IF met = "ok" THEN @ + 1 ELSE @]
  <2>1. PICK a \in Answers :
          LET met == IF a \notin Unresolved /\ rows[jobs[w].row].secret \in revoked
                     THEN "unsigned" ELSE a
          IN  /\ jobs' = [jobs EXCEPT ![w].answer = met]
              /\ accepted' = [accepted EXCEPT ![jobs[w].row] = IF met = "ok" THEN @ + 1 ELSE @]
    BY DEF Send
  <2> DEFINE met == IF a \notin Unresolved /\ rows[jobs[w].row].secret \in revoked
                    THEN "unsigned" ELSE a
  <2>2. met \in Answers \cup {"unsigned"}
    OBVIOUS
  <2> QED  BY <2>1, <2>2
<1>3. /\ jobs'[w] = [jobs[w] EXCEPT !.answer = met] /\ jobs'[w] \in Jobs
      /\ \A v \in Workers : v # w => jobs'[v] = jobs[v]
  BY <1>0, <1>1, <1>2 DEF JobsOK, Jobs
<1>4. JobsOK'
  BY <1>0, <1>1, <1>2, <1>3 DEF JobsOK
<1>5. AcceptedOK'
  BY <1>0, <1>1, <1>2 DEF AcceptedOK, Jobs
<1> QED  BY <1>1, <1>2, <1>3, <1>4, <1>5

LEMMA WorkShape == ASSUME Shape, NEW w \in Workers, Work(w) \/ Crash(w) PROVE Shape'
<1>0. TypeOK /\ JobInv
  BY DEF Shape
<1>1. ASSUME NEW d \in 1..Len(rows), Claim(w, d) PROVE Shape'
  <2>1. UNCHANGED <<sub, history, accepted, projecting, projected, calls, created, revoked, deleted, faults>>
    BY <1>1 DEF Claim, intake, keys
  <2>2. RowsOK' /\ JobsOK'
    BY <1>1, ClaimEffect
  <2>3. JobInv'
    <3>0. \A e \in 1..Len(rows) : rows[e] \in Rows
      BY <1>0, RowType DEF TypeOK
    <3>1. /\ Len(rows') = Len(rows)
          /\ rows[d] \in Rows /\ rows'[d].attempt = rows[d].attempt + 1
          /\ \A e \in 1..Len(rows) : rows[e] \in Rows /\ (e # d => rows'[e] = rows[e])
      BY <1>1, <3>0, ClaimEffect
    <3>2. \A e \in 1..Len(rows) : rows'[e].attempt >= rows[e].attempt
      BY <3>1 DEF Rows
    <3>3. /\ jobs'[w] = [row |-> d, attempt |-> rows[d].attempt + 1,
                         failures |-> sub.failures, answer |-> None]
          /\ \A v \in Workers : v # w => jobs'[v] = jobs[v]
      BY <1>1, ClaimEffect
    <3>4. rows'[d].attempt \in Nat
      BY <3>1 DEF Rows
    <3> QED  BY <2>2, <3>1, <3>2, <3>3, <3>4, JobsFollow
  <2> QED
    BY <1>0, <2>1, <2>2, <2>3 DEF Shape, TypeOK, SubOK, HistoryOK, AcceptedOK, IntakeOK, CallsOK, KeysOK, FaultsOK
<1>2. ASSUME Send(w) PROVE Shape'
  <2>1. UNCHANGED <<sub, rows, history, projecting, projected, calls, created, revoked, deleted, faults>>
    BY <1>2 DEF Send, intake, keys
  <2>2. JobsOK' /\ AcceptedOK'
    BY <1>2, SendEffect
  <2>3. JobInv'
    <3>1. /\ jobs[w] # None /\ jobs[w] \in Jobs
          /\ \E met : jobs'[w] = [jobs[w] EXCEPT !.answer = met]
          /\ \A v \in Workers : v # w => jobs'[v] = jobs[v]
      BY <1>2, SendEffect DEF Send
    <3>2. jobs'[w].row = jobs[w].row /\ jobs'[w].attempt = jobs[w].attempt
      BY <3>1 DEF Jobs
    <3> QED  BY <1>0, <2>1, <3>1, <3>2 DEF JobInv
  <2> QED
    BY <1>0, <2>1, <2>2, <2>3 DEF Shape, TypeOK, SubOK, RowsOK, HistoryOK, IntakeOK, CallsOK, KeysOK, FaultsOK
<1>3. ASSUME Complete(w) PROVE Shape'
  <2>0. /\ jobs[w] \in Jobs /\ jobs[w].row \in 1..Len(rows) /\ rows[jobs[w].row] \in Rows
        /\ Outcome(jobs[w]) \in Terminal \cup {"retry"}
    BY <1>3, CompleteEffect
  <2>1. UNCHANGED <<accepted, projecting, projected, calls, created, revoked, deleted, faults>>
    BY <1>3 DEF Complete, intake, keys
  <2>2. RowsOK' /\ JobsOK'
    BY <1>3, CompleteEffect
  <2>3. HistoryOK'
    BY <1>0, <1>3, <2>0 DEF Complete, TypeOK, HistoryOK, Jobs
  <2>4. SubOK'
    <3>1. sub.failures + 1 \in Nat
      BY <1>0 DEF TypeOK, SubOK
    <3>2. FailuresAfter(jobs[w]) \in Nat
      BY <3>1 DEF FailuresAfter
    <3> QED  BY <1>0, <1>3, <3>2 DEF Complete, TypeOK, SubOK, Touch
  <2>5. JobInv'
    <3>1. /\ Len(rows') = Len(rows)
          /\ \A e \in 1..Len(rows) : rows'[e].attempt = rows[e].attempt /\ rows[e] \in Rows
          /\ jobs'[w] = None /\ \A v \in Workers : v # w => jobs'[v] = jobs[v]
      <4>1. \A e \in 1..Len(rows) : rows[e] \in Rows
        BY <1>0, RowType DEF TypeOK
      <4> QED  BY <1>3, <4>1, CompleteEffect
    <3>2. \A e \in 1..Len(rows) : rows'[e].attempt >= rows[e].attempt
      BY <3>1 DEF Rows
    <3> QED  BY <2>2, <3>1, <3>2, JobsFollow
  <2> QED
    BY <1>0, <2>1, <2>2, <2>3, <2>4, <2>5 DEF Shape, TypeOK, AcceptedOK, IntakeOK, CallsOK, KeysOK, FaultsOK
<1>4. ASSUME CompleteRefused(w) \/ Crash(w) PROVE Shape'
  <2>1. UNCHANGED <<sub, rows, history, accepted, projecting, projected, calls, created, revoked, deleted>>
        /\ jobs' = [jobs EXCEPT ![w] = None]
    BY <1>4 DEF CompleteRefused, Crash, intake, keys
  <2>2. FaultsOK'
    BY <1>0, <1>4, FaultOK DEF TypeOK, CompleteRefused, Crash
  <2>3. JobsOK' /\ JobInv'
    BY <1>0, <2>1 DEF TypeOK, JobsOK, JobInv
  <2> QED
    BY <1>0, <2>1, <2>2, <2>3 DEF Shape, TypeOK, SubOK, RowsOK, HistoryOK, AcceptedOK, IntakeOK, CallsOK, KeysOK
<1> QED  BY <1>1, <1>2, <1>3, <1>4 DEF Work

LEMMA TimeShape ==
    ASSUME Shape, OverlapEnds \/ \E d \in 1..Len(rows) : TimePasses(d) PROVE Shape'
<1>0. TypeOK /\ JobInv
  BY DEF Shape
<1>1. ASSUME NEW d \in 1..Len(rows), TimePasses(d) PROVE Shape'
  <2>1. UNCHANGED <<sub, history, jobs, accepted, projecting, projected, calls, created, revoked, deleted>>
    BY <1>1 DEF TimePasses, LeaseLapses, BecomesAvailable, intake, keys
  <2>2. FaultsOK'
    BY <1>0, <1>1, FaultOK DEF TypeOK, TimePasses, LeaseLapses, BecomesAvailable
  <2>3. rows[d] \in Rows
    BY <1>0, RowType DEF TypeOK
  <2>4. \/ rows' = [rows EXCEPT ![d] = [rows[d] EXCEPT !.lapsed = TRUE]]
        \/ rows' = [rows EXCEPT ![d] = [rows[d] EXCEPT !.ready = TRUE]]
    BY <1>1 DEF TimePasses, LeaseLapses, BecomesAvailable
  <2>5. PICK r \in Rows : rows' = [rows EXCEPT ![d] = r] /\ r.attempt = rows[d].attempt
    BY <2>3, <2>4 DEF Rows
  <2>6. /\ RowsOK' /\ Len(rows') = Len(rows)
        /\ \A e \in 1..Len(rows) : rows'[e].attempt = rows[e].attempt
    BY <1>0, <2>5, Updated DEF TypeOK
  <2>7. JobInv'
    BY <1>0, <2>1, <2>6 DEF JobInv
  <2> QED
    BY <1>0, <2>1, <2>2, <2>6, <2>7 DEF Shape, TypeOK, SubOK, HistoryOK, JobsOK, AcceptedOK, IntakeOK, CallsOK, KeysOK
<1>2. ASSUME OverlapEnds PROVE Shape'
  <2>1. UNCHANGED <<rows, history, jobs, accepted, projecting, projected, calls, created, revoked, deleted, faults>>
    BY <1>2 DEF OverlapEnds, work, intake, keys
  <2>2. SubOK'
    BY <1>0, <1>2 DEF OverlapEnds, TypeOK, SubOK
  <2> QED
    BY <1>0, <2>1, <2>2 DEF Shape, TypeOK, RowsOK, HistoryOK, JobsOK, AcceptedOK, IntakeOK, CallsOK, KeysOK,
        FaultsOK, JobInv
<1> QED  BY <1>1, <1>2

LEMMA ManageShape == ASSUME Shape, NEW c \in Callers, Manage(c) PROVE Shape'
<1>0. TypeOK /\ JobInv /\ CallsOK
  BY DEF Shape, TypeOK
<1>1. UNCHANGED <<rows, history, jobs, accepted, projecting, projected>>
  BY DEF Manage, Disable, RevokeKey, AnswerDisable, BeginRotation, Rotate, RotationRefused,
         RotationUnanswered, BeginFinalize, RevokePrevious, ClearPrevious, CallLost, work, intake
<1>2. ASSUME SubOK', CallsOK', KeysOK', FaultsOK' PROVE Shape'
  BY <1>0, <1>1, <1>2 DEF Shape, TypeOK, RowsOK, HistoryOK, JobsOK, AcceptedOK, IntakeOK, JobInv
<1>3. /\ sub.secret \in Secrets /\ sub.previous \in Secrets \cup {None}
      /\ SigningKeys \in SUBSET Secrets /\ None \notin Secrets
  BY <1>0, WebhookAssumption DEF TypeOK, SubOK, SigningKeys, Secrets
<1>4. CASE Disable(c)
  <2>1. CallsOK'
    BY <1>0, <1>3, <1>4 DEF Disable, Begin, CallsOK, Calls
  <2>2. SubOK'
    BY <1>0, <1>4 DEF Disable, TypeOK, SubOK, Touch
  <2> QED  BY <1>0, <1>2, <1>4, <2>1, <2>2 DEF Disable, TypeOK, KeysOK, FaultsOK
<1>5. CASE RevokeKey(c)
  <2>1. PICK k \in calls[c].left, f \in BOOLEAN :
          /\ calls' = [calls EXCEPT ![c] = [op |-> "revoke", left |-> calls[c].left \ {k}, failed |-> f]]
          /\ revoked' \in {revoked, revoked \cup {k}}
    <3>1. calls[c].failed \in BOOLEAN
      BY <1>5, <1>0, CallType DEF RevokeKey, Calls
    <3> QED  BY <1>5, <3>1 DEF RevokeKey
  <2>2. calls[c].left \subseteq Secrets
    BY <1>0, <1>5, CallType DEF RevokeKey, Calls
  <2>3. CallsOK'
    BY <1>0, <2>1, <2>2 DEF CallsOK, Calls
  <2>4. KeysOK'
    BY <1>0, <1>5, <2>1, <2>2 DEF RevokeKey, TypeOK, KeysOK
  <2>5. FaultsOK'
    BY <1>0, <1>5, FaultOK DEF RevokeKey, TypeOK
  <2> QED  BY <1>0, <1>2, <1>5, <2>3, <2>4, <2>5 DEF RevokeKey, TypeOK, SubOK
<1>6. CASE AnswerDisable(c)
  BY <1>0, <1>2, <1>6 DEF AnswerDisable, End, TypeOK, SubOK, CallsOK, KeysOK, FaultsOK
<1>7. CASE BeginRotation(c)
  <2>1. created + 1 \in Secrets
    BY <1>0, <1>7, WebhookAssumption DEF BeginRotation, TypeOK, KeysOK, Secrets
  <2>2. CallsOK'
    BY <1>0, <1>3, <1>7, <2>1 DEF BeginRotation, Begin, CallsOK, Calls
  <2> QED  BY <1>0, <1>2, <1>7, <2>1, <2>2 DEF BeginRotation, TypeOK, SubOK, KeysOK, FaultsOK
<1>8. CASE Rotate(c) \/ RotationUnanswered(c) \/ RotationRefused(c)
  <2>1. calls[c].old \in Secrets /\ calls[c].new \in Secrets
    BY <1>0, <1>8, CallType DEF Rotate, RotationUnanswered, RotationRefused, Calls
  <2>2. SubOK'
    BY <1>0, <1>3, <1>8, <2>1 DEF Rotate, RotationUnanswered, RotationRefused, InstallSecret, TypeOK, SubOK
  <2>3. CallsOK'
    BY <1>0, <1>8 DEF Rotate, RotationUnanswered, RotationRefused, End, CallsOK
  <2>4. KeysOK'
    BY <1>0, <1>8, <2>1 DEF Rotate, RotationUnanswered, RotationRefused, TypeOK, KeysOK
  <2>5. FaultsOK'
    BY <1>0, <1>8, FaultOK DEF Rotate, RotationUnanswered, RotationRefused, TypeOK
  <2> QED  BY <1>2, <2>2, <2>3, <2>4, <2>5
<1>9. CASE BeginFinalize(c)
  <2>1. CallsOK'
    BY <1>0, <1>3, <1>9 DEF BeginFinalize, Begin, CallsOK, Calls
  <2> QED  BY <1>0, <1>2, <1>9, <2>1 DEF BeginFinalize, TypeOK, SubOK, KeysOK, FaultsOK
<1>10. CASE RevokePrevious(c)
  <2>1. calls[c] \in [op : {"finalize", "clear"}, old : Secrets]
    BY <1>0, <1>10, CallType DEF RevokePrevious, Calls
  <2>2. CallsOK'
    BY <1>0, <1>10, <2>1 DEF RevokePrevious, CallsOK, Calls
  <2>3. KeysOK'
    BY <1>0, <1>10, <2>1 DEF RevokePrevious, TypeOK, KeysOK
  <2> QED  BY <1>0, <1>2, <1>10, <2>2, <2>3 DEF RevokePrevious, TypeOK, SubOK, FaultsOK
<1>11. CASE ClearPrevious(c)
  <2>1. SubOK'
    BY <1>0, <1>11 DEF ClearPrevious, TypeOK, SubOK
  <2> QED  BY <1>0, <1>2, <1>11, <2>1 DEF ClearPrevious, End, TypeOK, CallsOK, KeysOK, FaultsOK
<1>12. CASE CallLost(c)
  <2>1. FaultsOK'
    BY <1>0, <1>12, FaultOK DEF CallLost, TypeOK
  <2> QED  BY <1>0, <1>2, <1>12, <2>1 DEF CallLost, End, TypeOK, SubOK, CallsOK, KeysOK
<1> QED
  BY <1>4, <1>5, <1>6, <1>7, <1>8, <1>9, <1>10, <1>11, <1>12 DEF Manage

LEMMA StepShape == Shape /\ [Next]_vars => Shape'
<1> SUFFICES ASSUME Shape, [Next]_vars PROVE Shape'
  OBVIOUS
<1>1. CASE UNCHANGED vars
  BY <1>1 DEF vars, work, intake, keys, Shape, TypeOK, SubOK, RowsOK, HistoryOK, JobsOK, AcceptedOK,
              IntakeOK, CallsOK, KeysOK, FaultsOK, JobInv
<1> QED
  BY <1>1, IntakeShape, WorkShape, TimeShape, ManageShape DEF Next

LEMMA ShapeInvariant == Spec => []Shape
  BY InitShape, StepShape, PTL DEF Spec

\* Every row, attempt, job, request and key keeps its type.
THEOREM TypeCorrect == Spec => []TypeOK
<1>1. Shape => TypeOK
  BY DEF Shape
<1> QED  BY <1>1, ShapeInvariant, PTL

-----------------------------------------------------------------------------
(* What a worker's step, and the passing of time, do to the rows *)

\* The rows a step of a worker or of time leaves: none is added, an attempt only
\* grows, the secret of the snapshot stays, and so does a row that is settled.
RowsAdvance ==
    /\ Len(rows') = Len(rows)
    /\ \A d \in 1..Len(rows) :
         /\ rows'[d].attempt >= rows[d].attempt
         /\ rows'[d].secret = rows[d].secret
         /\ rows[d].status \in Terminal => rows'[d] = rows[d]

\* Time passes over one row, and changes neither its state nor its attempt.
LEMMA TimeEffect ==
    ASSUME Shape, NEW e \in 1..Len(rows), TimePasses(e)
    PROVE  /\ jobs' = jobs /\ Len(rows') = Len(rows)
           /\ rows[e].status \notin Terminal
           /\ \A d \in 1..Len(rows) : /\ rows'[d].attempt = rows[d].attempt
                                      /\ rows'[d].status = rows[d].status
                                      /\ rows'[d].secret = rows[d].secret
                                      /\ d # e => rows'[d] = rows[d]
<1>0. RowsOK /\ rows[e] \in Rows
  BY RowType DEF Shape, TypeOK
<1>1. /\ jobs' = jobs /\ rows[e].status \notin Terminal
      /\ \/ rows' = [rows EXCEPT ![e] = [rows[e] EXCEPT !.lapsed = TRUE]]
         \/ rows' = [rows EXCEPT ![e] = [rows[e] EXCEPT !.ready = TRUE]]
  BY DEF TimePasses, LeaseLapses, BecomesAvailable, Terminal
<1>2. PICK q \in Rows : /\ rows' = [rows EXCEPT ![e] = q] /\ q.attempt = rows[e].attempt
                        /\ q.status = rows[e].status /\ q.secret = rows[e].secret
  <2> DEFINE lapsed == [rows[e] EXCEPT !.lapsed = TRUE]
             ready  == [rows[e] EXCEPT !.ready = TRUE]
  <2>1. /\ lapsed \in Rows /\ lapsed.attempt = rows[e].attempt
        /\ lapsed.status = rows[e].status /\ lapsed.secret = rows[e].secret
        /\ ready \in Rows /\ ready.attempt = rows[e].attempt
        /\ ready.status = rows[e].status /\ ready.secret = rows[e].secret
    BY <1>0 DEF Rows
  <2>2. rows' = [rows EXCEPT ![e] = lapsed] \/ rows' = [rows EXCEPT ![e] = ready]
    BY <1>1
  <2> HIDE DEF lapsed, ready
  <2> QED  BY <2>1, <2>2
<1>3. /\ Len(rows') = Len(rows) /\ rows'[e] = q
      /\ \A d \in 1..Len(rows) : d # e => rows'[d] = rows[d]
  BY <1>0, <1>2, Updated
<1> QED  BY <1>1, <1>2, <1>3

LEMMA Advance ==
    ASSUME Shape,
           \/ \E w \in Workers : Work(w) \/ Crash(w)
           \/ \E d \in 1..Len(rows) : TimePasses(d)
    PROVE  RowsAdvance
<1>0. RowsOK /\ Len(rows) \in Nat /\ \A d \in 1..Len(rows) : rows[d] \in Rows /\ rows[d].attempt \in Nat
  BY RowType DEF Shape, TypeOK, RowsOK, Rows
<1>1. CASE rows' = rows
  BY <1>0, <1>1 DEF RowsAdvance
<1>2. ASSUME NEW w \in Workers, NEW d \in 1..Len(rows), Claim(w, d) PROVE RowsAdvance
  <2>1. rows[d].status \notin Terminal
    BY <1>2 DEF Claim, Claimable, Terminal
  <2>2. /\ Len(rows') = Len(rows)
        /\ rows'[d].attempt = rows[d].attempt + 1 /\ rows'[d].secret = rows[d].secret
        /\ \A e \in 1..Len(rows) : e # d => rows'[e] = rows[e]
    BY <1>2, ClaimEffect
  <2> QED  BY <1>0, <2>1, <2>2 DEF RowsAdvance
<1>3. ASSUME NEW w \in Workers, Complete(w) PROVE RowsAdvance
  <2>1. rows[jobs[w].row].status \notin Terminal
    BY <1>3 DEF Complete, OwnAttempt, Terminal
  <2>2. /\ Len(rows') = Len(rows)
        /\ rows'[jobs[w].row].attempt = rows[jobs[w].row].attempt
        /\ rows'[jobs[w].row].secret = rows[jobs[w].row].secret
        /\ \A e \in 1..Len(rows) : e # jobs[w].row => rows'[e] = rows[e]
    BY <1>3, CompleteEffect
  <2> QED  BY <1>0, <2>1, <2>2 DEF RowsAdvance
<1>4. ASSUME NEW d \in 1..Len(rows), TimePasses(d) PROVE RowsAdvance
  BY <1>0, <1>4, TimeEffect DEF RowsAdvance
<1> QED
  BY <1>1, <1>2, <1>3, <1>4 DEF Work, Send, CompleteRefused, Crash

\* What intake does to the rows: nothing, or one more.
LEMMA IntakeRows ==
    ASSUME Shape, Intake
    PROVE  \/ rows' = rows
           \/ \E r \in Rows : /\ Len(rows) < MaxRows /\ rows' = Append(rows, r)
                              /\ \/ CommitProjection /\ r.secret = projecting.secret
                                 \/ r.secret = sub.secret
<1>1. CASE CommitProjection
  <2>1. projecting \in [event : Events, secret : Secrets \cup {None}]
    BY <1>1 DEF Shape, TypeOK, IntakeOK, CommitProjection
  <2>2. CASE rows' # rows
    <3> DEFINE r == NewRow(projecting.event, None, projecting.secret)
    <3>1. r \in Rows /\ Len(rows) < MaxRows /\ rows' = Append(rows, r)
      BY <1>1, <2>1, <2>2, NewRowType DEF CommitProjection
    <3>2. r.secret = projecting.secret
      BY DEF NewRow
    <3> QED  BY <1>1, <3>1, <3>2
  <2> QED  BY <2>2
<1>2. ASSUME NEW d \in 1..Len(rows), Replay(d) PROVE \E r \in Rows :
          Len(rows) < MaxRows /\ rows' = Append(rows, r) /\ r.secret = sub.secret
  <2> DEFINE r == NewRow(rows[d].event, d, sub.secret)
  <2>1. r \in Rows
    BY NewRowType, RowType DEF Rows, Shape, TypeOK, SubOK
  <2>2. r.secret = sub.secret
    BY DEF NewRow
  <2> QED  BY <1>2, <2>1, <2>2 DEF Replay
<1> QED  BY <1>1, <1>2 DEF Intake, ReadSubscription, AbortProjection, work

-----------------------------------------------------------------------------
(* The history agrees with the deliveries *)

\* The attempt under way is not in the history yet.
HistoryInv ==
    /\ HistoryAgrees
    /\ \A h \in history : rows[h.row].status = "inflight" => h.attempt < rows[h.row].attempt

\* Nothing happens to the history while rows keep state and attempt.
LEMMA HistoryFrame ==
    ASSUME Shape, HistoryInv, history' = history, Len(rows') \in Nat, Len(rows') >= Len(rows),
           \A d \in 1..Len(rows) : /\ rows'[d].status = rows[d].status
                                   /\ rows'[d].attempt = rows[d].attempt,
           \A d \in 1..Len(rows') : d > Len(rows) => rows'[d].status = "pending"
    PROVE  HistoryInv'
<1>0. /\ Len(rows) \in Nat
      /\ history \subseteq [row : 1..MaxRows, attempt : 1..AttemptLimit, outcome : Terminal \cup {"retry"}]
  BY DEF Shape, TypeOK, RowsOK, HistoryOK
<1>1. \A h \in history : h.row \in 1..Len(rows)
  BY <1>0 DEF HistoryInv, HistoryAgrees
<1>2. \A d \in 1..Len(rows') : rows'[d].status \in Terminal => d \in 1..Len(rows)
  BY <1>0 DEF Terminal
<1> QED  BY <1>0, <1>1, <1>2 DEF HistoryInv, HistoryAgrees

LEMMA StepHistory == Shape /\ HistoryInv /\ [Next]_vars => HistoryInv'
<1> SUFFICES ASSUME Shape, HistoryInv, [Next]_vars PROVE HistoryInv'
  OBVIOUS
<1>0. /\ RowsOK /\ Len(rows) \in Nat
      /\ \A h \in history : /\ h.row \in 1..Len(rows) /\ h.attempt \in Nat /\ rows[h.row] \in Rows
                            /\ h.outcome \in Terminal \cup {"retry"}
  <2>1. RowsOK /\ HistoryOK
    BY DEF Shape, TypeOK
  <2>2. \A h \in history : /\ h.row \in 1..Len(rows) /\ h.attempt \in Nat
                           /\ h.outcome \in Terminal \cup {"retry"}
    BY <2>1 DEF HistoryOK, HistoryInv, HistoryAgrees, RowsOK
  <2> QED  BY <2>1, <2>2, RowType DEF RowsOK
<1>1. CASE UNCHANGED <<rows, history>>
  BY <1>0, <1>1, HistoryFrame DEF Rows
<1>2. ASSUME NEW q \in Rows, q.status = "pending", Len(rows) < MaxRows, rows' = Append(rows, q),
             UNCHANGED <<history, jobs>>
      PROVE  HistoryInv'
  BY <1>0, <1>2, Added, HistoryFrame
<1>3. ASSUME NEW w \in Workers, NEW d \in 1..Len(rows), Claim(w, d) PROVE HistoryInv'
  <2>1. /\ Len(rows') = Len(rows) /\ history' = history
        /\ rows[d] \in Rows
        /\ rows'[d].status = "inflight" /\ rows'[d].attempt = rows[d].attempt + 1
        /\ \A e \in 1..Len(rows) : e # d => rows'[e] = rows[e]
    BY <1>3, ClaimEffect DEF Claim
  <2>2. rows[d].status \notin Terminal /\ rows[d].attempt \in Nat
    BY <1>3, <2>1 DEF Claim, Claimable, Terminal, Rows
  <2>3. \A h \in history : h.row = d => h.outcome = "retry" /\ h.attempt < rows[d].attempt + 1
    BY <1>0, <2>2 DEF HistoryInv, HistoryAgrees
  <2>4. \A h \in history' :
           /\ h.row <= Len(rows') /\ h.attempt <= rows'[h.row].attempt
           /\ h.outcome \in Terminal =>
                rows'[h.row].status = h.outcome /\ rows'[h.row].attempt = h.attempt
           /\ rows'[h.row].status = "inflight" => h.attempt < rows'[h.row].attempt
    <3> SUFFICES ASSUME NEW h \in history
                 PROVE  /\ h.row <= Len(rows') /\ h.attempt <= rows'[h.row].attempt
                        /\ h.outcome \in Terminal =>
                             rows'[h.row].status = h.outcome /\ rows'[h.row].attempt = h.attempt
                        /\ rows'[h.row].status = "inflight" => h.attempt < rows'[h.row].attempt
      BY <2>1
    <3>1. CASE h.row = d
      BY <1>0, <2>1, <2>2, <2>3, <3>1 DEF Terminal
    <3>2. CASE h.row # d
      BY <1>0, <2>1, <3>2 DEF HistoryInv, HistoryAgrees
    <3> QED  BY <3>1, <3>2
  <2>5. \A e \in 1..Len(rows') : rows'[e].status \in Terminal =>
           [row |-> e, attempt |-> rows'[e].attempt, outcome |-> rows'[e].status] \in history'
    BY <2>1 DEF HistoryInv, HistoryAgrees, Terminal
  <2> QED  BY <2>1, <2>4, <2>5 DEF HistoryInv, HistoryAgrees
<1>4. ASSUME NEW w \in Workers, Complete(w) PROVE HistoryInv'
  <2> DEFINE d == jobs[w].row
             o == Outcome(jobs[w])
             n == [row |-> d, attempt |-> jobs[w].attempt, outcome |-> o]
  <2>1. /\ Len(rows') = Len(rows) /\ history' = history \cup {n}
        /\ d \in 1..Len(rows) /\ rows[d] \in Rows
        /\ rows'[d].status = (IF o = "retry" THEN "pending" ELSE o)
        /\ rows'[d].attempt = rows[d].attempt
        /\ \A e \in 1..Len(rows) : e # d => rows'[e] = rows[e]
    BY <1>4, CompleteEffect DEF Complete
  <2>2. rows[d].status = "inflight" /\ rows[d].attempt = jobs[w].attempt /\ rows[d].attempt \in Nat
    BY <1>4, <2>1 DEF Complete, OwnAttempt, Rows
  <2>3. \A h \in history : h.row = d => h.outcome = "retry" /\ h.attempt < rows[d].attempt
    BY <1>0, <2>2 DEF HistoryInv, HistoryAgrees, Terminal
  <2>4. o \in Terminal \cup {"retry"}
    BY <1>4, CompleteEffect
  <2>5. rows'[d].status # "inflight" /\ (o \in Terminal => rows'[d].status = o)
        /\ (o = "retry" => rows'[d].status = "pending")
    BY <2>1, <2>4 DEF Terminal
  <2>6. n.row = d /\ n.attempt = rows[d].attempt /\ n.outcome = o
    BY <2>2
  <2> HIDE DEF n, d, o
  <2>7. \A h \in history' : \A g \in history' : h.row = g.row /\ h.attempt = g.attempt => h = g
    BY <1>0, <2>1, <2>2, <2>3, <2>6 DEF HistoryInv, HistoryAgrees
  <2>8. \A h \in history' :
           /\ h.row <= Len(rows') /\ h.attempt <= rows'[h.row].attempt
           /\ h.outcome \in Terminal =>
                rows'[h.row].status = h.outcome /\ rows'[h.row].attempt = h.attempt
           /\ rows'[h.row].status = "inflight" => h.attempt < rows'[h.row].attempt
    <3> SUFFICES ASSUME NEW h \in history'
                 PROVE  /\ h.row <= Len(rows') /\ h.attempt <= rows'[h.row].attempt
                        /\ h.outcome \in Terminal =>
                             rows'[h.row].status = h.outcome /\ rows'[h.row].attempt = h.attempt
                        /\ rows'[h.row].status = "inflight" => h.attempt < rows'[h.row].attempt
      OBVIOUS
    <3>1. CASE h = n
      BY <1>0, <2>1, <2>2, <2>5, <2>6, <3>1
    <3>2. CASE h \in history /\ h.row = d
      BY <1>0, <2>1, <2>2, <2>3, <2>5, <3>2 DEF Terminal
    <3>3. CASE h \in history /\ h.row # d
      BY <1>0, <2>1, <3>3 DEF HistoryInv, HistoryAgrees
    <3> QED  BY <2>1, <3>1, <3>2, <3>3
  <2>9. \A e \in 1..Len(rows') : rows'[e].status \in Terminal =>
           [row |-> e, attempt |-> rows'[e].attempt, outcome |-> rows'[e].status] \in history'
    <3> SUFFICES ASSUME NEW e \in 1..Len(rows'), rows'[e].status \in Terminal
                 PROVE  [row |-> e, attempt |-> rows'[e].attempt, outcome |-> rows'[e].status] \in history'
      OBVIOUS
    <3>1. CASE e = d
      <4>1. o \in Terminal /\ rows'[d].status = o
        BY <2>4, <2>5, <3>1 DEF Terminal
      <4> QED  BY <2>1, <2>2, <3>1, <4>1 DEF n, d, o
    <3>2. CASE e # d
      BY <2>1, <3>2 DEF HistoryInv, HistoryAgrees
    <3> QED  BY <3>1, <3>2
  <2> QED  BY <2>7, <2>8, <2>9 DEF HistoryInv, HistoryAgrees
<1>5. ASSUME NEW d \in 1..Len(rows), TimePasses(d) PROVE HistoryInv'
  <2>1. history' = history
    BY <1>5 DEF TimePasses, LeaseLapses, BecomesAvailable
  <2> QED  BY <1>0, <1>5, <2>1, TimeEffect, HistoryFrame
<1>6. ASSUME Intake PROVE HistoryInv'
  <2>1. CASE rows' = rows
    BY <1>1, <1>6, <2>1 DEF Intake, ReadSubscription, CommitProjection, AbortProjection, Replay, work
  <2>2. ASSUME NEW e, NEW o, NEW k, NewRow(e, o, k) \in Rows, Len(rows) < MaxRows,
               rows' = Append(rows, NewRow(e, o, k))
        PROVE  HistoryInv'
    <3>1. NewRow(e, o, k).status = "pending"
      BY DEF NewRow
    <3>2. UNCHANGED <<history, jobs>>
      BY <1>6 DEF Intake, ReadSubscription, CommitProjection, AbortProjection, Replay, work
    <3> QED  BY <1>2, <2>2, <3>1, <3>2
  <2>3. CASE CommitProjection
    <3>1. projecting \in [event : Events, secret : Secrets \cup {None}]
      BY <2>3 DEF Shape, TypeOK, IntakeOK, CommitProjection
    <3>2. projecting.secret # None => NewRow(projecting.event, None, projecting.secret) \in Rows
      BY <3>1, NewRowType
    <3> QED  BY <2>1, <2>2, <2>3, <3>2 DEF CommitProjection
  <2>4. ASSUME NEW d \in 1..Len(rows), Replay(d) PROVE HistoryInv'
    <3>1. NewRow(rows[d].event, d, sub.secret) \in Rows
      BY <1>0, NewRowType, RowType DEF Rows, Shape, TypeOK, SubOK
    <3> QED  BY <2>2, <2>4, <3>1 DEF Replay
  <2> QED
    BY <1>6, <2>1, <2>3, <2>4 DEF Intake, ReadSubscription, AbortProjection, work
<1>7. ASSUME NEW w \in Workers, Send(w) \/ CompleteRefused(w) \/ Crash(w) PROVE HistoryInv'
  BY <1>1, <1>7 DEF Send, CompleteRefused, Crash
<1>8. ASSUME NEW c \in Callers, Manage(c) PROVE HistoryInv'
  BY <1>1, <1>8 DEF Manage, Disable, RevokeKey, AnswerDisable, BeginRotation, Rotate, RotationRefused,
         RotationUnanswered, BeginFinalize, RevokePrevious, ClearPrevious, CallLost, work
<1>9. CASE OverlapEnds \/ UNCHANGED vars
  BY <1>1, <1>9 DEF OverlapEnds, vars, work
<1> QED
  BY <1>3, <1>4, <1>5, <1>6, <1>7, <1>8, <1>9 DEF Next, Work

\* The history and the deliveries tell one story.
THEOREM HistoryConsistent == Spec => []HistoryAgrees
<1>1. Init => HistoryInv
  BY DEF Init, HistoryInv, HistoryAgrees
<1>2. HistoryInv => HistoryAgrees
  BY DEF HistoryInv
<1> QED  BY <1>1, <1>2, StepHistory, ShapeInvariant, PTL DEF Spec

\* A settled delivery never changes, an attempt is never taken back, and the
\* secret of the snapshot stays.
THEOREM SettledForGood == Spec => SettledOnce
<1> DEFINE Same == \A d \in 1..Len(rows) :
                     /\ rows[d].status \in Terminal => rows'[d] = rows[d]
                     /\ rows'[d].attempt >= rows[d].attempt
                     /\ rows'[d].secret = rows[d].secret
<1>1. Shape /\ [Next]_vars => [Same]_vars
  <2> SUFFICES ASSUME Shape, Next PROVE Same
    OBVIOUS
  <2>0. Len(rows) \in Nat /\ \A d \in 1..Len(rows) : rows[d].attempt \in Nat
    BY RowType DEF Shape, TypeOK, RowsOK, Rows
  <2>1. CASE rows' = rows
    BY <2>0, <2>1
  <2>2. CASE Intake
    <3>1. ASSUME NEW r \in Rows, Len(rows) < MaxRows, rows' = Append(rows, r) PROVE Same
      BY <2>0, <3>1 DEF Shape, TypeOK, RowsOK
    <3> QED  BY <2>1, <2>2, <3>1, IntakeRows
  <2>3. CASE \/ \E w \in Workers : Work(w) \/ Crash(w)
             \/ \E d \in 1..Len(rows) : TimePasses(d)
    BY <2>3, Advance DEF RowsAdvance
  <2>4. CASE OverlapEnds \/ \E c \in Callers : Manage(c)
    BY <2>1, <2>4 DEF OverlapEnds, Manage, Disable, RevokeKey, AnswerDisable, BeginRotation, Rotate,
       RotationRefused, RotationUnanswered, BeginFinalize, RevokePrevious, ClearPrevious, CallLost, work
  <2> QED  BY <2>2, <2>3, <2>4 DEF Next
<1> HIDE DEF Same
<1>2. Spec => [][Same]_vars
  BY <1>1, ShapeInvariant, PTL DEF Spec
<1> QED  BY <1>2 DEF SettledOnce, Same

-----------------------------------------------------------------------------
(* Signing secrets stay within reach of a DELETE *)

OnRecord == revoked \cup SigningKeys

\* The projection in progress read a secret that is still on record.
IntakeKey == projecting # None => projecting.secret \in OnRecord \cup {None}

\* A secret about to be cleared is revoked.  A DELETE has disabled the
\* subscription, and while nothing failed its list and the revoked secrets cover
\* the row's.
CallKey(c) ==
    /\ calls[c].op = "clear" => calls[c].old \in revoked
    /\ calls[c].op = "revoke" =>
         /\ sub.status = "disabled"
         /\ ~calls[c].failed => SigningKeys \subseteq calls[c].left \cup revoked

DeletedKeys == deleted => sub.status = "disabled" /\ SigningKeys \subseteq revoked

KeysInv ==
    /\ KeysOnRecord
    /\ IntakeKey
    /\ \A c \in Callers : calls[c] # None => CallKey(c)
    /\ DeletedKeys

\* A step keeps KeysInv if no secret leaves the record, no revocation is undone,
\* a disabled subscription stays so and gets no new secret, and what the step
\* adds is on record.
LEMMA KeysFrame ==
    ASSUME KeysInv,
           revoked \subseteq revoked', SigningKeys \subseteq OnRecord',
           sub.status = "disabled" => sub'.status = "disabled" /\ SigningKeys' \subseteq SigningKeys,
           \A d \in 1..Len(rows') : \/ d \in 1..Len(rows) /\ rows'[d].secret = rows[d].secret
                                    \/ rows'[d].secret \in OnRecord,
           projecting' # None => projecting' = projecting \/ projecting'.secret \in OnRecord \cup {None},
           \A c \in Callers : calls'[c] # None => calls'[c] = calls[c] \/ CallKey(c)',
           deleted' => deleted \/ (sub.status = "disabled" /\ SigningKeys \subseteq revoked)
    PROVE  KeysInv'
<1>1. OnRecord \subseteq OnRecord'
  BY DEF OnRecord
<1>2. KeysOnRecord'
  BY <1>1 DEF KeysInv, KeysOnRecord, OnRecord
<1>3. IntakeKey'
  BY <1>1 DEF KeysInv, IntakeKey
<1>4. \A c \in Callers : calls'[c] # None => CallKey(c)'
  BY DEF KeysInv, CallKey
<1>5. DeletedKeys'
  BY DEF KeysInv, DeletedKeys
<1> QED  BY <1>2, <1>3, <1>4, <1>5 DEF KeysInv

LEMMA StepKeys == Shape /\ KeysInv /\ [Next]_vars => KeysInv'
<1> SUFFICES ASSUME Shape, KeysInv, [Next]_vars PROVE KeysInv'
  OBVIOUS
<1>0. /\ Len(rows) \in Nat /\ None \notin Secrets
      /\ sub.secret \in Secrets /\ sub.secret \in SigningKeys /\ CallsOK /\ SubOK
  BY WebhookAssumption DEF Shape, TypeOK, SubOK, RowsOK, Secrets, SigningKeys
<1>1. CASE Intake
  <2>1. /\ UNCHANGED <<sub, revoked, calls, deleted>> /\ SigningKeys' = SigningKeys
        /\ projecting' # None => projecting' = projecting \/ projecting'.secret \in OnRecord \cup {None}
    BY <1>0, <1>1 DEF Intake, ReadSubscription, CommitProjection, AbortProjection, Replay, keys, intake,
       SigningKeys, OnRecord
  <2>2. \A d \in 1..Len(rows') : \/ d \in 1..Len(rows) /\ rows'[d].secret = rows[d].secret
                                 \/ rows'[d].secret \in OnRecord
    <3>1. CASE rows' = rows
      BY <3>1
    <3>2. ASSUME NEW r \in Rows, Len(rows) < MaxRows, rows' = Append(rows, r), r.secret \in OnRecord
          PROVE  \A d \in 1..Len(rows') : \/ d \in 1..Len(rows) /\ rows'[d].secret = rows[d].secret
                                          \/ rows'[d].secret \in OnRecord
      <4>1. /\ Len(rows') = Len(rows) + 1 /\ rows'[Len(rows) + 1] = r
            /\ \A d \in 1..Len(rows) : rows'[d] = rows[d]
        BY <3>2 DEF Shape, TypeOK, RowsOK
      <4>2. \A d \in 1..(Len(rows) + 1) : d \in 1..Len(rows) \/ d = Len(rows) + 1
        BY <1>0
      <4> QED  BY <3>2, <4>1, <4>2
    <3>3. ASSUME CommitProjection, NEW r \in Rows, r.secret = projecting.secret PROVE r.secret \in OnRecord
      BY <1>0, <3>3 DEF CommitProjection, KeysInv, IntakeKey, Rows
    <3>4. sub.secret \in OnRecord
      BY <1>0 DEF OnRecord
    <3> QED  BY <1>1, <3>1, <3>2, <3>3, <3>4, IntakeRows
  <2>3. SigningKeys \subseteq OnRecord'
    BY <2>1 DEF OnRecord
  <2> QED  BY <2>1, <2>2, <2>3, KeysFrame
<1>2. CASE \/ \E w \in Workers : Work(w) \/ Crash(w)
           \/ \E d \in 1..Len(rows) : TimePasses(d)
  <2>1. UNCHANGED <<revoked, calls, deleted, projecting>> /\ SigningKeys' = SigningKeys
        /\ (sub.status = "disabled" => sub'.status = "disabled")
    <3>1. UNCHANGED <<revoked, calls, deleted, projecting>>
      BY <1>2 DEF Work, Claim, Send, Complete, CompleteRefused, Crash, TimePasses, LeaseLapses,
         BecomesAvailable, keys, intake
    <3>2. \/ sub' = sub
          \/ \E w \in Workers : Complete(w)
      BY <1>2 DEF Work, Claim, Send, CompleteRefused, Crash, TimePasses, LeaseLapses, BecomesAvailable
    <3>3. ASSUME NEW w \in Workers, Complete(w)
          PROVE  /\ sub'.secret = sub.secret /\ sub'.previous = sub.previous
                 /\ sub.status = "disabled" => sub'.status = "disabled"
      BY <1>0, <3>3 DEF Complete, Touch, SubOK
    <3> QED  BY <3>1, <3>2, <3>3 DEF SigningKeys
  <2>2. Len(rows') = Len(rows) /\ \A d \in 1..Len(rows) : rows'[d].secret = rows[d].secret
    BY <1>2, Advance DEF RowsAdvance
  <2>3. SigningKeys \subseteq OnRecord'
    BY <2>1 DEF OnRecord
  <2> QED  BY <2>1, <2>2, <2>3, KeysFrame
<1>3. ASSUME NEW c \in Callers, Manage(c) PROVE KeysInv'
  <2>0. UNCHANGED <<rows, projecting>>
    BY <1>3 DEF Manage, Disable, RevokeKey, AnswerDisable, BeginRotation, Rotate, RotationRefused,
       RotationUnanswered, BeginFinalize, RevokePrevious, ClearPrevious, CallLost, work, intake
  <2>1. ASSUME revoked \subseteq revoked', SigningKeys \subseteq OnRecord',
               sub.status = "disabled" => sub'.status = "disabled" /\ SigningKeys' \subseteq SigningKeys,
               \A b \in Callers : b # c => calls'[b] = calls[b],
               calls'[c] # None => CallKey(c)',
               deleted' => deleted \/ (sub.status = "disabled" /\ SigningKeys \subseteq revoked)
        PROVE  KeysInv'
    BY <2>0, <2>1, KeysFrame
  <2>2. CASE Disable(c)
    <3>1. /\ UNCHANGED <<revoked, deleted>> /\ SigningKeys' = SigningKeys /\ sub'.status = "disabled"
      BY <1>0, <2>2 DEF Disable, Touch, SigningKeys, SubOK
    <3>2. /\ calls'[c] = [op |-> "revoke", left |-> SigningKeys, failed |-> FALSE]
          /\ \A b \in Callers : b # c => calls'[b] = calls[b]
      BY <1>0, <2>2 DEF Disable, Begin, CallsOK
    <3>3. CallKey(c)'
      BY <3>1, <3>2 DEF CallKey
    <3> QED  BY <2>1, <3>1, <3>2, <3>3 DEF OnRecord
  <2>3. CASE RevokeKey(c)
    <3>1. UNCHANGED <<sub, deleted>> /\ SigningKeys' = SigningKeys
      BY <2>3 DEF RevokeKey, SigningKeys
    <3>2. PICK k \in calls[c].left, f \in {calls[c].failed, TRUE} :
            /\ calls' = [calls EXCEPT ![c] = [op |-> "revoke", left |-> calls[c].left \ {k}, failed |-> f]]
            /\ revoked \subseteq revoked' /\ (f \/ k \in revoked')
      BY <2>3 DEF RevokeKey
    <3>3. /\ calls'[c] = [op |-> "revoke", left |-> calls[c].left \ {k}, failed |-> f]
          /\ \A b \in Callers : b # c => calls'[b] = calls[b]
      BY <1>0, <3>2 DEF CallsOK
    <3>4. CallKey(c) /\ calls[c].failed \in BOOLEAN
      BY <1>0, <2>3, CallType DEF RevokeKey, KeysInv, Calls
    <3>5. calls'[c].op = "revoke" /\ calls'[c].left = calls[c].left \ {k} /\ calls'[c].failed = f
      BY <3>3
    <3>6. calls[c].op = "revoke" /\ f \in BOOLEAN /\ (~f => ~calls[c].failed)
      BY <2>3, <3>4, <3>2 DEF RevokeKey
    <3>7. CallKey(c)'
      BY <3>1, <3>2, <3>4, <3>5, <3>6 DEF CallKey
    <3> QED  BY <2>1, <3>1, <3>2, <3>3, <3>7 DEF OnRecord
  <2>4. CASE AnswerDisable(c)
    <3>1. UNCHANGED <<sub, revoked>> /\ SigningKeys' = SigningKeys /\ calls'[c] = None
          /\ \A b \in Callers : b # c => calls'[b] = calls[b]
      BY <1>0, <2>4 DEF AnswerDisable, End, SigningKeys, CallsOK
    <3>2. deleted' => deleted \/ (sub.status = "disabled" /\ SigningKeys \subseteq revoked)
      BY <2>4 DEF AnswerDisable, KeysInv, CallKey
    <3> QED  BY <2>1, <3>1, <3>2 DEF OnRecord
  <2>5. CASE BeginRotation(c) \/ BeginFinalize(c)
    <3>1. UNCHANGED <<sub, revoked, deleted>> /\ SigningKeys' = SigningKeys
      BY <2>5 DEF BeginRotation, BeginFinalize, SigningKeys
    <3>2. /\ calls'[c].op \in {"rotate", "finalize"}
          /\ \A b \in Callers : b # c => calls'[b] = calls[b]
      BY <1>0, <2>5 DEF BeginRotation, BeginFinalize, Begin, CallsOK
    <3> QED  BY <2>1, <3>1, <3>2 DEF OnRecord, CallKey
  <2>6. CASE Rotate(c) \/ RotationUnanswered(c)
    <3>1. /\ revoked \subseteq revoked' /\ deleted' = deleted /\ sub.status = "active"
          /\ sub.previous = None /\ sub.secret = calls[c].old /\ sub'.previous = calls[c].old
      BY <1>0, <2>6 DEF Rotate, RotationUnanswered, Rotatable, InstallSecret, SubOK
    <3>2. calls'[c] = None /\ \A b \in Callers : b # c => calls'[b] = calls[b]
      BY <1>0, <2>6 DEF Rotate, RotationUnanswered, End, CallsOK
    <3>3. SigningKeys \subseteq SigningKeys'
      BY <1>0, <3>1 DEF SigningKeys
    <3> QED  BY <2>1, <3>1, <3>2, <3>3 DEF OnRecord
  <2>7. CASE RotationRefused(c) \/ CallLost(c)
    <3>1. /\ UNCHANGED <<sub, deleted>> /\ revoked \subseteq revoked' /\ SigningKeys' = SigningKeys
      BY <2>7 DEF RotationRefused, CallLost, SigningKeys
    <3>2. calls'[c] = None /\ \A b \in Callers : b # c => calls'[b] = calls[b]
      BY <1>0, <2>7 DEF RotationRefused, CallLost, End, CallsOK
    <3> QED  BY <2>1, <3>1, <3>2 DEF OnRecord
  <2>8. CASE RevokePrevious(c)
    <3>1. UNCHANGED <<sub, deleted>> /\ revoked' = revoked \cup {calls[c].old} /\ SigningKeys' = SigningKeys
      BY <2>8 DEF RevokePrevious, SigningKeys
    <3>2. calls[c] \in Calls /\ calls[c].op = "finalize"
      BY <1>0, <2>8, CallType DEF RevokePrevious
    <3>3. /\ calls'[c] = [calls[c] EXCEPT !.op = "clear"]
          /\ \A b \in Callers : b # c => calls'[b] = calls[b]
      BY <1>0, <2>8 DEF RevokePrevious, CallsOK
    <3>4. calls'[c].op = "clear" /\ calls'[c].old = calls[c].old
      BY <3>2, <3>3 DEF Calls
    <3> QED  BY <2>1, <3>1, <3>3, <3>4 DEF OnRecord, CallKey
  <2>9. CASE ClearPrevious(c)
    <3>1. /\ UNCHANGED <<revoked, deleted>> /\ calls[c].old \in revoked
          /\ sub'.status = sub.status /\ sub'.secret = sub.secret
          /\ sub'.previous = sub.previous \/ (sub.previous = calls[c].old /\ sub'.previous = None)
      BY <1>0, <2>9 DEF ClearPrevious, KeysInv, CallKey, SubOK
    <3>2. calls'[c] = None /\ \A b \in Callers : b # c => calls'[b] = calls[b]
      BY <1>0, <2>9 DEF ClearPrevious, End, CallsOK
    <3>3. SigningKeys' \subseteq SigningKeys /\ SigningKeys \subseteq OnRecord'
      BY <3>1 DEF SigningKeys, OnRecord
    <3> QED  BY <2>1, <3>1, <3>2, <3>3
  <2> QED
    BY <1>3, <2>2, <2>3, <2>4, <2>5, <2>6, <2>7, <2>8, <2>9 DEF Manage
<1>4. CASE OverlapEnds \/ UNCHANGED vars
  <2>1. UNCHANGED <<rows, projecting, calls, revoked, deleted>> /\ SigningKeys' = SigningKeys
        /\ sub'.status = sub.status
    BY <1>0, <1>4 DEF OverlapEnds, vars, work, intake, keys, SigningKeys, SubOK
  <2> QED  BY <2>1, KeysFrame DEF OnRecord
<1> QED
  BY <1>1, <1>2, <1>3, <1>4 DEF Next

LEMMA KeysInvariant == Spec => []KeysInv
<1>1. Init => KeysInv
  BY DEF Init, KeysInv, KeysOnRecord, IntakeKey, DeletedKeys
<1> QED  BY <1>1, StepKeys, ShapeInvariant, PTL DEF Spec

\* Every secret a delivery carries is revoked or still on the subscription.
THEOREM KeysStayOnRecord == Spec => []KeysOnRecord
<1>1. KeysInv => KeysOnRecord
  BY DEF KeysInv
<1> QED  BY <1>1, KeysInvariant, PTL

\* After a DELETE that answered with success no delivery can be signed.
THEOREM DeleteSilences == Spec => []SilentAfterDelete
<1>1. KeysInv => SilentAfterDelete
  BY DEF KeysInv, KeysOnRecord, DeletedKeys, SilentAfterDelete
<1> QED  BY <1>1, KeysInvariant, PTL

-----------------------------------------------------------------------------
(* The attempt budget *)

\* A delivery that can be claimed again without a further fault: it is queued,
\* or its lease has run out, or nobody holds it.
Loose(d) ==
    \/ rows[d].status = "pending"
    \/ rows[d].status = "inflight" /\ (rows[d].lapsed \/ ~Held(d))

\* Its holder met something other than a 2xx.
Failed(d) ==
    /\ rows[d].status = "inflight"
    /\ \E w \in Workers : /\ jobs[w] # None /\ jobs[w].row = d /\ jobs[w].attempt = rows[d].attempt
                          /\ jobs[w].answer \notin {None, "ok"}

\* What a worker's refused completion leaves: with an answer that can be stored,
\* only a job that is out of date is refused.
LEMMA RefusedIsStale ==
    ASSUME Shape, "unstorable" \notin Answers, NEW w \in Workers, CompleteRefused(w)
    PROVE  ~OwnAttempt(jobs[w])
<1>1. jobs[w] \in Jobs /\ jobs[w].answer # None
  BY JobType DEF CompleteRefused, Answered
<1>2. jobs[w].answer # "unstorable"
  BY <1>1 DEF Jobs
<1> QED  BY <1>2 DEF CompleteRefused

\* A delivery comes loose by a fault, or by its holder putting it back.
LEMMA ComesLoose ==
    ASSUME Shape, "unstorable" \notin Answers, [Next]_vars, NEW d \in 1..Len(rows), Loose(d)'
    PROVE  \/ faults' = faults + 1 /\ rows'[d].attempt = rows[d].attempt
              /\ (rows'[d].status = "pending" => rows[d].status = "pending")
           \/ faults' = faults /\ Loose(d) /\ rows'[d].attempt = rows[d].attempt
              /\ (rows'[d].status = "pending" => rows[d].status = "pending")
           \/ faults' = faults /\ \E w \in Workers :
                /\ Complete(w) /\ jobs[w].row = d /\ Outcome(jobs[w]) = "retry"
                /\ rows'[d].attempt = rows[d].attempt
<1>0. /\ RowsOK /\ JobsOK /\ FaultsOK /\ Len(rows) \in Nat
      /\ \A e \in 1..Len(rows) : rows[e] \in Rows
  BY RowType DEF Shape, TypeOK, RowsOK
<1>1. CASE rows'[d] = rows[d] /\ jobs' = jobs /\ faults' \in {faults, faults + 1}
  BY <1>1 DEF Loose, Held
<1>2. CASE Intake
  <2>1. jobs' = jobs /\ faults' \in {faults, faults + 1}
    BY <1>0, <1>2, FaultOK DEF Intake, ReadSubscription, CommitProjection, AbortProjection, Replay, work
  <2>2. rows'[d] = rows[d]
    <3>1. ASSUME NEW r \in Rows, rows' = Append(rows, r) PROVE rows'[d] = rows[d]
      BY <1>0, <3>1 DEF RowsOK
    <3> QED  BY <1>2, <3>1, IntakeRows
  <2> QED  BY <1>1, <2>1, <2>2
<1>3. ASSUME NEW w \in Workers, NEW e \in 1..Len(rows), Claim(w, e)
      PROVE  faults' = faults /\ Loose(d) /\ rows'[d].attempt = rows[d].attempt
             /\ rows'[d].status = rows[d].status
  <2>1. /\ rows'[e].status = "inflight" /\ rows'[e].lapsed = FALSE
        /\ rows'[e].attempt = rows[e].attempt + 1
        /\ \A b \in 1..Len(rows) : b # e => rows'[b] = rows[b]
    BY <1>3, ClaimEffect
  <2>2. /\ faults' = faults /\ jobs[w] = None
        /\ \A v \in Workers : v # w => jobs'[v] = jobs[v]
    BY <1>3, ClaimEffect DEF Claim
  <2>3. jobs'[w] # None /\ jobs'[w].row = e /\ jobs'[w].attempt = rows[e].attempt + 1
    <3>1. jobs'[w] \in Jobs /\ jobs'[w] = [row |-> e, attempt |-> rows[e].attempt + 1,
                                           failures |-> sub.failures, answer |-> None]
      BY <1>3, ClaimEffect
    <3> QED  BY <3>1, NoneIsNoJob
  <2>4. d # e
    BY <2>1, <2>3 DEF Loose, Held
  <2>5. Held(d) => Held(d)'
    BY <2>1, <2>2, <2>4 DEF Held
  <2> QED  BY <2>1, <2>2, <2>4, <2>5 DEF Loose
<1>4. ASSUME NEW w \in Workers, Send(w)
      PROVE  faults' = faults /\ Loose(d) /\ rows'[d] = rows[d]
  <2>1. jobs[w] # None /\ jobs[w] \in Jobs /\ rows' = rows /\ faults' = faults
    BY <1>4, SendEffect DEF Send
  <2>2. PICK met \in Answers \cup {"unsigned"} :
          /\ jobs'[w] = [jobs[w] EXCEPT !.answer = met]
          /\ \A v \in Workers : v # w => jobs'[v] = jobs[v]
    BY <1>4, SendEffect
  <2>3. [jobs[w] EXCEPT !.answer = met] \in Jobs /\ jobs'[w].row = jobs[w].row
        /\ jobs'[w].attempt = jobs[w].attempt
    BY <2>1, <2>2 DEF Jobs
  <2>4. jobs'[w] # None
    BY <2>2, <2>3, NoneIsNoJob
  <2>5. Held(d) => Held(d)'
    BY <2>1, <2>2, <2>3, <2>4 DEF Held
  <2> QED  BY <2>1, <2>5 DEF Loose
<1>5. ASSUME NEW w \in Workers, Complete(w)
      PROVE  /\ faults' = faults /\ rows'[d].attempt = rows[d].attempt
             /\ \/ Loose(d) /\ rows'[d] = rows[d]
                \/ jobs[w].row = d /\ Outcome(jobs[w]) = "retry"
  <2>1. /\ faults' = faults
        /\ Outcome(jobs[w]) \in Terminal \cup {"retry"}
        /\ rows'[jobs[w].row].attempt = rows[jobs[w].row].attempt
        /\ rows'[jobs[w].row].status =
             (IF Outcome(jobs[w]) = "retry" THEN "pending" ELSE Outcome(jobs[w]))
        /\ \A e \in 1..Len(rows) : e # jobs[w].row => rows'[e] = rows[e]
        /\ \A v \in Workers : v # w => jobs'[v] = jobs[v]
    BY <1>5, CompleteEffect DEF Complete
  <2>2. CASE jobs[w].row = d
    BY <2>1, <2>2 DEF Loose, Terminal
  <2>3. CASE jobs[w].row # d
    <3>1. Held(d) => Held(d)'
      BY <2>1, <2>3 DEF Held
    <3> QED  BY <2>1, <2>3, <3>1 DEF Loose
  <2> QED  BY <2>2, <2>3
<1>6. ASSUME NEW w \in Workers, CompleteRefused(w)
      PROVE  faults' = faults /\ Loose(d) /\ rows'[d] = rows[d]
  <2>1. /\ rows' = rows /\ faults' = faults
        /\ \A v \in Workers : v # w => jobs'[v] = jobs[v]
    BY <1>0, <1>6 DEF CompleteRefused, JobsOK
  <2>2. ~OwnAttempt(jobs[w])
    BY <1>6, RefusedIsStale
  <2>3. rows[d].status = "inflight" /\ Held(d) => Held(d)'
    BY <2>1, <2>2 DEF Held, OwnAttempt
  <2> QED  BY <2>1, <2>3 DEF Loose
<1>7. ASSUME NEW w \in Workers, Crash(w) PROVE faults' = faults + 1 /\ rows'[d] = rows[d]
  BY <1>7 DEF Crash, Fault
<1>8. ASSUME NEW e \in 1..Len(rows), TimePasses(e)
      PROVE  /\ rows'[d].attempt = rows[d].attempt /\ rows'[d].status = rows[d].status
             /\ faults' = faults + 1 \/ (faults' = faults /\ Loose(d))
  <2>1. /\ jobs' = jobs /\ faults' \in {faults, faults + 1}
        /\ \/ rows[e].status = "inflight" /\ ~Held(e)
              /\ rows' = [rows EXCEPT ![e] = [rows[e] EXCEPT !.lapsed = TRUE]]
           \/ faults' = faults + 1
              /\ rows' = [rows EXCEPT ![e] = [rows[e] EXCEPT !.lapsed = TRUE]]
           \/ rows[e].status = "pending"
              /\ rows' = [rows EXCEPT ![e] = [rows[e] EXCEPT !.ready = TRUE]]
    BY <1>8 DEF TimePasses, LeaseLapses, BecomesAvailable, Fault
  <2>2. /\ rows'[d].attempt = rows[d].attempt /\ rows'[d].status = rows[d].status
        /\ d # e => rows'[d] = rows[d]
    BY <1>8, TimeEffect
  <2>3. d = e => faults' = faults + 1 \/ (faults' = faults /\ Loose(d))
    BY <2>1 DEF Loose
  <2>4. d # e => (Loose(d)' => Loose(d))
    BY <2>1, <2>2 DEF Loose, Held
  <2> QED  BY <2>1, <2>2, <2>3, <2>4
<1>9. CASE OverlapEnds \/ UNCHANGED vars \/ \E c \in Callers : Manage(c)
  <2>1. UNCHANGED <<rows, jobs>> /\ faults' \in {faults, faults + 1}
    BY <1>0, <1>9, FaultOK DEF OverlapEnds, vars, Manage, Disable, RevokeKey, AnswerDisable, BeginRotation,
       Rotate, RotationRefused, RotationUnanswered, BeginFinalize, RevokePrevious, ClearPrevious, CallLost,
       work, Fault
  <2> QED  BY <1>1, <2>1
<1> QED
  BY <1>2, <1>3, <1>4, <1>5, <1>6, <1>7, <1>8, <1>9 DEF Next, Work

\* Only a claim, of a delivery that is loose, raises an attempt.
LEMMA AttemptRises ==
    ASSUME Shape, [Next]_vars, NEW d \in 1..Len(rows)
    PROVE  /\ faults' \in {faults, faults + 1}
           /\ \/ rows'[d].attempt = rows[d].attempt
              \/ /\ rows'[d].attempt = rows[d].attempt + 1 /\ faults' = faults
                 /\ Loose(d) /\ ~Loose(d)' /\ \E w \in Workers : Claim(w, d)
<1>0. /\ RowsOK /\ FaultsOK /\ Len(rows) \in Nat /\ rows[d] \in Rows
  BY RowType DEF Shape, TypeOK, RowsOK
<1>1. CASE Intake
  <2>1. ASSUME NEW r \in Rows, rows' = Append(rows, r) PROVE rows'[d] = rows[d]
    BY <1>0, <2>1 DEF RowsOK
  <2>2. faults' \in {faults, faults + 1}
    BY <1>0, <1>1, FaultOK DEF Intake, ReadSubscription, CommitProjection, AbortProjection, Replay
  <2> QED  BY <1>1, <2>1, <2>2, IntakeRows
<1>2. ASSUME NEW w \in Workers, NEW e \in 1..Len(rows), Claim(w, e)
      PROVE  /\ faults' = faults
             /\ \/ rows'[d].attempt = rows[d].attempt
                \/ /\ rows'[d].attempt = rows[d].attempt + 1 /\ d = e
                   /\ Loose(d) /\ ~Loose(d)'
  <2>1. /\ rows'[e].attempt = rows[e].attempt + 1
        /\ rows'[e].status = "inflight" /\ rows'[e].lapsed = FALSE
        /\ \A b \in 1..Len(rows) : b # e => rows'[b] = rows[b]
    BY <1>2, ClaimEffect
  <2>2. jobs'[w] # None /\ jobs'[w].row = e /\ jobs'[w].attempt = rows[e].attempt + 1
    <3>1. jobs'[w] \in Jobs /\ jobs'[w] = [row |-> e, attempt |-> rows[e].attempt + 1,
                                           failures |-> sub.failures, answer |-> None]
      BY <1>2, ClaimEffect
    <3> QED  BY <3>1, NoneIsNoJob
  <2>3. Loose(e) /\ ~Loose(e)'
    BY <1>2, <2>1, <2>2 DEF Claim, Claimable, Loose, Held
  <2> QED  BY <1>2, <2>1, <2>3 DEF Claim
<1>3. ASSUME NEW w \in Workers, Complete(w) PROVE rows'[d].attempt = rows[d].attempt /\ faults' = faults
  BY <1>3, CompleteEffect DEF Complete
<1>4. ASSUME NEW w \in Workers, Send(w) \/ CompleteRefused(w) \/ Crash(w)
      PROVE  rows' = rows /\ faults' \in {faults, faults + 1}
  BY <1>4 DEF Send, CompleteRefused, Crash, Fault
<1>5. ASSUME NEW e \in 1..Len(rows), TimePasses(e)
      PROVE  rows'[d].attempt = rows[d].attempt /\ faults' \in {faults, faults + 1}
  BY <1>5, TimeEffect DEF TimePasses, LeaseLapses, BecomesAvailable, Fault
<1>6. CASE OverlapEnds \/ UNCHANGED vars \/ \E c \in Callers : Manage(c)
  BY <1>0, <1>6, FaultOK DEF OverlapEnds, vars, Manage, Disable, RevokeKey, AnswerDisable, BeginRotation,
     Rotate, RotationRefused, RotationUnanswered, BeginFinalize, RevokePrevious, ClearPrevious, CallLost,
     work, Fault
<1> QED
  BY <1>1, <1>2, <1>3, <1>4, <1>5, <1>6 DEF Next, Work

\* A queued delivery is within its budget of MaxAttempts; each fault lets one be
\* claimed once more.
BudgetInv ==
    \A d \in 1..Len(rows) :
        /\ rows[d].attempt <= MaxAttempts + faults
        /\ rows[d].status = "pending" => rows[d].attempt < MaxAttempts
        /\ Loose(d) => rows[d].attempt < MaxAttempts + faults

\* A row that is not old is the one that intake added.
LEMMA NewRowState ==
    ASSUME Shape, [Next]_vars
    PROVE  /\ faults' \in {faults, faults + 1}
           /\ Len(rows') \in Nat /\ Len(rows) \in Nat /\ Len(rows') <= Len(rows) + 1
           /\ Len(rows) <= Len(rows')
           /\ Len(rows') # Len(rows) =>
                rows'[Len(rows')].status = "pending" /\ rows'[Len(rows')].attempt = 0
                /\ jobs' = jobs /\ accepted' = accepted
<1>0. Len(rows) \in Nat /\ RowsOK /\ FaultsOK
  BY DEF Shape, TypeOK, RowsOK
<1>1. CASE Intake
  <2>1. jobs' = jobs /\ accepted' = accepted /\ faults' \in {faults, faults + 1}
    BY <1>0, <1>1, FaultOK DEF Intake, ReadSubscription, CommitProjection, AbortProjection, Replay, work
  <2>2. ASSUME NEW e, NEW o, NEW k, rows' = Append(rows, NewRow(e, o, k))
        PROVE  /\ Len(rows') = Len(rows) + 1
               /\ rows'[Len(rows')].status = "pending" /\ rows'[Len(rows')].attempt = 0
    <3>1. NewRow(e, o, k).status = "pending" /\ NewRow(e, o, k).attempt = 0
      BY DEF NewRow
    <3> HIDE DEF NewRow
    <3>2. Len(rows') = Len(rows) + 1 /\ rows'[Len(rows) + 1] = NewRow(e, o, k)
      BY <1>0, <2>2 DEF RowsOK
    <3> QED  BY <3>1, <3>2
  <2>3. rows' = rows \/ \E e, o, k : rows' = Append(rows, NewRow(e, o, k))
    <3>1. ASSUME CommitProjection PROVE rows' = rows
             \/ rows' = Append(rows, NewRow(projecting.event, None, projecting.secret))
      BY <3>1 DEF CommitProjection
    <3>2. ASSUME NEW d \in 1..Len(rows), Replay(d)
          PROVE  rows' = Append(rows, NewRow(rows[d].event, d, sub.secret))
      BY <3>2 DEF Replay
    <3> HIDE DEF NewRow
    <3> QED  BY <1>1, <3>1, <3>2 DEF Intake, ReadSubscription, AbortProjection, work
  <2> QED  BY <1>0, <2>1, <2>2, <2>3
<1>2. CASE \/ \E w \in Workers : Work(w) \/ Crash(w)
           \/ \E d \in 1..Len(rows) : TimePasses(d)
  <2>1. faults' \in {faults, faults + 1}
    BY <1>2 DEF Work, Claim, Send, Complete, CompleteRefused, Crash, Fault, TimePasses, LeaseLapses,
       BecomesAvailable
  <2> QED  BY <1>0, <1>2, <2>1, Advance DEF RowsAdvance
<1>3. CASE OverlapEnds \/ UNCHANGED vars \/ \E c \in Callers : Manage(c)
  BY <1>0, <1>3, FaultOK DEF OverlapEnds, vars, Manage, Disable, RevokeKey, AnswerDisable, BeginRotation,
     Rotate, RotationRefused, RotationUnanswered, BeginFinalize, RevokePrevious, ClearPrevious, CallLost,
     work, Fault
<1> QED  BY <1>1, <1>2, <1>3 DEF Next

LEMMA StepBudget ==
    ASSUME Shape, "unstorable" \notin Answers, BudgetInv, [Next]_vars
    PROVE  BudgetInv'
<1> SUFFICES ASSUME NEW d \in 1..Len(rows')
             PROVE  /\ rows'[d].attempt <= MaxAttempts + faults'
                    /\ rows'[d].status = "pending" => rows'[d].attempt < MaxAttempts
                    /\ Loose(d)' => rows'[d].attempt < MaxAttempts + faults'
  BY DEF BudgetInv
<1>0. /\ FaultsOK /\ faults \in Nat /\ MaxAttempts \in Nat \ {0} /\ Len(rows) \in Nat /\ Len(rows') \in Nat
  BY NewRowState, WebhookAssumption DEF Shape, TypeOK, FaultsOK
<1>1. CASE d \notin 1..Len(rows)
  <2>1. rows'[d].status = "pending" /\ rows'[d].attempt = 0
    BY <1>0, <1>1, NewRowState
  <2> QED  BY <1>0, <2>1, NewRowState
<1>2. CASE d \in 1..Len(rows)
  <2>0. rows[d].attempt \in Nat /\ rows[d] \in Rows
    BY <1>2, RowType DEF Shape, TypeOK, Rows
  <2>1. rows'[d].attempt <= MaxAttempts + faults'
    BY <1>0, <1>2, <2>0, AttemptRises DEF BudgetInv
  <2>2. ASSUME NEW w \in Workers, Complete(w), jobs[w].row = d, Outcome(jobs[w]) = "retry"
        PROVE  rows[d].attempt < MaxAttempts
    <3>1. jobs[w].attempt = rows[d].attempt
      BY <2>2 DEF Complete, OwnAttempt
    <3>2. ~(jobs[w].attempt >= MaxAttempts)
      BY <2>2 DEF Outcome
    <3> QED  BY <1>0, <2>0, <3>1, <3>2
  <2>3. Loose(d)' => rows'[d].attempt < MaxAttempts + faults'
    BY <1>0, <1>2, <2>0, <2>2, ComesLoose DEF BudgetInv
  <2>4. rows'[d].status = "pending" => Loose(d)'
    BY DEF Loose
  <2>5. rows'[d].status = "pending" => rows'[d].attempt < MaxAttempts
    BY <1>0, <1>2, <2>0, <2>2, <2>4, ComesLoose DEF BudgetInv
  <2> QED  BY <2>1, <2>3, <2>5
<1> QED  BY <1>1, <1>2

\* Unless the receiver answers with a status the database refuses, every attempt
\* beyond the budget takes a fault.
THEOREM BudgetKept ==
    ASSUME "unstorable" \notin Answers
    PROVE  Spec => []AttemptsBounded
<1>1. Init => BudgetInv
  BY DEF Init, BudgetInv
<1>2. Shape /\ BudgetInv /\ [Next]_vars => BudgetInv'
  BY StepBudget
<1>3. BudgetInv => AttemptsBounded
  BY DEF BudgetInv, AttemptsBounded
<1> QED  BY <1>1, <1>2, <1>3, ShapeInvariant, PTL DEF Spec

-----------------------------------------------------------------------------
(* What the receiver accepts *)

\* The workers that have yet to send the delivery, and with the acceptances there
\* were, how often it may be accepted without another claim.
Open(d) == {w \in Workers : jobs[w] # None /\ jobs[w].row = d /\ jobs[w].answer = None}
Load(d) == accepted[d] + Cardinality(Open(d))

\* One acceptance more than the faults, and none in reserve for a delivery that
\* another claim, or a retry, is in sight of.
AcceptInv ==
    /\ \A d \in 1..MaxRows : d > Len(rows) => accepted[d] = 0
    /\ \A d \in 1..Len(rows) :
         /\ Load(d) <= 1 + faults
         /\ Loose(d) \/ Failed(d) => Load(d) <= faults

LEMMA OpenFinite ==
    ASSUME NEW d
    PROVE  IsFiniteSet(Open(d)) /\ Cardinality(Open(d)) \in Nat
<1>1. IsFiniteSet(Open(d))
  BY WebhookAssumption, FS_Subset DEF Open
<1> QED  BY <1>1, FS_CardinalityType

\* The load rises by a claim, falls by an attempt that is not accepted.
LEMMA LoadSteps ==
    ASSUME Shape, [Next]_vars, NEW d \in 1..Len(rows)
    PROVE  /\ Load(d) \in Nat /\ Load(d)' \in Nat
           /\ \/ Load(d)' <= Load(d)
              \/ Load(d)' = Load(d) + 1 /\ \E w \in Workers : Claim(w, d)
           /\ \A w \in Workers : Send(w) /\ jobs[w].row = d /\ jobs'[w].answer # "ok" => Load(d)' < Load(d)
<1>0. /\ JobsOK /\ AcceptedOK /\ d \in 1..MaxRows /\ accepted[d] \in Nat
      /\ IsFiniteSet(Open(d)) /\ Cardinality(Open(d)) \in Nat
      /\ Len(rows) \in Nat
  BY RowType, OpenFinite DEF Shape, TypeOK, AcceptedOK, RowsOK
<1>a. Load(d) \in Nat
  BY <1>0 DEF Load
<1>1. ASSUME jobs' = jobs, accepted' = accepted PROVE Load(d)' = Load(d)
  <2>1. Open(d)' = Open(d)
    BY <1>1 DEF Open
  <2> QED  BY <1>1, <2>1 DEF Load
<1>2. ASSUME NEW w \in Workers, NEW e \in 1..Len(rows), Claim(w, e)
      PROVE  Load(d)' = Load(d) \/ (Load(d)' = Load(d) + 1 /\ e = d)
  <2>1. /\ jobs'[w] \in Jobs /\ jobs'[w] = [row |-> e, attempt |-> rows[e].attempt + 1,
                                            failures |-> sub.failures, answer |-> None]
        /\ \A v \in Workers : v # w => jobs'[v] = jobs[v]
    BY <1>2, ClaimEffect
  <2>2. jobs[w] = None /\ jobs'[w] # None /\ jobs'[w].row = e /\ jobs'[w].answer = None
        /\ accepted' = accepted
    BY <1>2, <2>1, NoneIsNoJob DEF Claim
  <2>3. CASE e = d
    <3>1. Open(d)' = Open(d) \cup {w} /\ w \notin Open(d)
      BY <2>1, <2>2, <2>3 DEF Open
    <3>2. Cardinality(Open(d)') = Cardinality(Open(d)) + 1
      BY <1>0, <3>1, FS_AddElement
    <3> QED  BY <1>0, <2>2, <2>3, <3>2 DEF Load
  <2>4. CASE e # d
    <3>1. Open(d)' = Open(d)
      BY <2>1, <2>2, <2>4 DEF Open
    <3> QED  BY <2>2, <3>1 DEF Load
  <2> QED  BY <2>3, <2>4
<1>3. ASSUME NEW w \in Workers, Send(w)
      PROVE  /\ Load(d)' <= Load(d) /\ Load(d)' \in Nat
             /\ jobs[w].row = d /\ jobs'[w].answer # "ok" => Load(d)' < Load(d)
  <2>1. jobs[w] # None /\ jobs[w].answer = None /\ jobs[w] \in Jobs /\ jobs[w].row \in 1..MaxRows
    BY <1>3, SendEffect DEF Send, Jobs
  <2>2. PICK met \in Answers \cup {"unsigned"} :
          /\ jobs'[w] = [jobs[w] EXCEPT !.answer = met]
          /\ accepted' = [accepted EXCEPT ![jobs[w].row] = IF met = "ok" THEN @ + 1 ELSE @]
    BY <1>3, SendEffect
  <2>3. \A v \in Workers : v # w => jobs'[v] = jobs[v]
    BY <1>3, SendEffect
  <2>4. jobs'[w] \in Jobs /\ jobs'[w].row = jobs[w].row /\ jobs'[w].answer = met
    BY <2>1, <2>2 DEF Jobs
  <2>5. jobs'[w] # None
    BY <2>4, NoneIsNoJob
  <2>6. CASE jobs[w].row = d /\ met # None
    <3>1. Open(d)' = Open(d) \ {w} /\ w \in Open(d)
      BY <2>1, <2>3, <2>4, <2>5, <2>6 DEF Open
    <3>2. Cardinality(Open(d)') = Cardinality(Open(d)) - 1
      BY <1>0, <3>1, FS_RemoveElement
    <3>3. accepted'[d] = (IF met = "ok" THEN accepted[d] + 1 ELSE accepted[d])
      BY <1>0, <2>2, <2>6 DEF AcceptedOK
    <3>4. Cardinality(Open(d)') \in Nat
      BY <1>0, <3>1, FS_RemoveElement, FS_CardinalityType
    <3> QED  BY <1>0, <2>4, <3>2, <3>3, <3>4 DEF Load
  <2>7. CASE jobs[w].row # d
    <3>1. Open(d)' = Open(d)
      BY <2>3, <2>4, <2>7 DEF Open
    <3>2. accepted'[d] = accepted[d]
      BY <1>0, <2>2, <2>7 DEF AcceptedOK
    <3> QED  BY <1>0, <1>a, <2>7, <3>1, <3>2 DEF Load
  <2>8. met # None
    BY <2>2, NoneIsNoAnswer
  <2> QED  BY <2>6, <2>7, <2>8
<1>4. ASSUME NEW w \in Workers, CompleteRefused(w) \/ Crash(w) \/ Complete(w)
      PROVE  Load(d)' <= Load(d) /\ Load(d)' \in Nat
  <2>1. accepted' = accepted /\ jobs' = [jobs EXCEPT ![w] = None]
    BY <1>4 DEF CompleteRefused, Crash, Complete
  <2>2. Open(d)' = Open(d) \ {w}
    BY <1>0, <2>1 DEF Open, JobsOK
  <2>3. Cardinality(Open(d)') <= Cardinality(Open(d)) /\ Cardinality(Open(d)') \in Nat
    BY <1>0, <2>2, FS_Subset, FS_CardinalityType
  <2> QED  BY <1>0, <2>1, <2>3 DEF Load
<1>5. ASSUME Intake \/ OverlapEnds \/ UNCHANGED vars \/ (\E c \in Callers : Manage(c))
           \/ \E e \in 1..Len(rows) : TimePasses(e)
      PROVE  Load(d)' = Load(d)
  <2>1. CASE Intake \/ \E e \in 1..Len(rows) : TimePasses(e)
    BY <1>1, <2>1 DEF Intake, ReadSubscription, CommitProjection, AbortProjection, Replay, work,
       TimePasses, LeaseLapses, BecomesAvailable
  <2>2. CASE OverlapEnds \/ UNCHANGED vars
    BY <1>1, <2>2 DEF OverlapEnds, vars, work
  <2>3. ASSUME NEW c \in Callers, Manage(c) PROVE Load(d)' = Load(d)
    BY <1>1, <2>3 DEF Manage, Disable, RevokeKey, AnswerDisable, BeginRotation, Rotate, RotationRefused,
       RotationUnanswered, BeginFinalize, RevokePrevious, ClearPrevious, CallLost, work
  <2> QED  BY <1>5, <2>1, <2>2, <2>3
<1>6. /\ Load(d)' \in Nat
      /\ \/ Load(d)' <= Load(d)
         \/ Load(d)' = Load(d) + 1 /\ \E w \in Workers : Claim(w, d)
  <2>1. CASE \E w \in Workers : \E e \in 1..Len(rows) : Claim(w, e)
    BY <1>a, <1>2, <2>1
  <2>2. CASE \E w \in Workers : Send(w)
    BY <1>3, <2>2
  <2>3. CASE \E w \in Workers : CompleteRefused(w) \/ Crash(w) \/ Complete(w)
    BY <1>4, <2>3
  <2>4. CASE Load(d)' = Load(d)
    BY <1>a, <2>4
  <2> QED  BY <1>5, <2>1, <2>2, <2>3, <2>4 DEF Next, Work
<1> QED  BY <1>a, <1>3, <1>6

\* An attempt fails at its holder's Send.
LEMMA BecomesFailed ==
    ASSUME Shape, [Next]_vars, NEW d \in 1..Len(rows), Failed(d)'
    PROVE  /\ rows'[d].attempt = rows[d].attempt
           /\ \/ faults' = faults + 1
              \/ Failed(d)
              \/ \E w \in Workers : Send(w) /\ jobs[w].row = d /\ jobs'[w].answer # "ok"
<1>0. /\ RowsOK /\ JobsOK /\ Len(rows) \in Nat /\ rows[d] \in Rows
  BY RowType DEF Shape, TypeOK, RowsOK
<1>1. PICK w \in Workers : /\ jobs'[w] # None /\ jobs'[w].row = d /\ jobs'[w].attempt = rows'[d].attempt
                           /\ jobs'[w].answer \notin {None, "ok"}
  BY DEF Failed
<1>2. rows'[d].status = "inflight"
  BY DEF Failed
<1>3. CASE \E v \in Workers, e \in 1..Len(rows) : Claim(v, e)
  <2>1. PICK v \in Workers, e \in 1..Len(rows) : Claim(v, e)
    BY <1>3
  <2>2. /\ jobs'[v] = [row |-> e, attempt |-> rows[e].attempt + 1,
                       failures |-> sub.failures, answer |-> None]
        /\ \A u \in Workers : u # v => jobs'[u] = jobs[u]
    BY <2>1, ClaimEffect
  <2>3. jobs[w] # None /\ jobs[w] = jobs'[w]
    BY <1>1, <2>2
  <2>4. jobs[w].attempt \in Nat /\ jobs[w].attempt <= rows[d].attempt /\ rows[d].attempt \in Nat
    BY <1>0, <1>1, <2>3, JobType DEF Jobs, Rows
  <2>5. rows'[e].attempt = rows[e].attempt + 1 /\ \A b \in 1..Len(rows) : b # e => rows'[b] = rows[b]
    BY <2>1, ClaimEffect
  <2>6. d # e
    BY <1>1, <2>3, <2>4, <2>5
  <2> QED  BY <1>1, <1>2, <2>3, <2>5, <2>6 DEF Failed
<1>4. CASE \E v \in Workers : Send(v)
  <2>1. PICK v \in Workers : Send(v)
    BY <1>4
  <2>2. /\ rows' = rows /\ jobs[v] # None /\ \A u \in Workers : u # v => jobs'[u] = jobs[u]
    BY <2>1, SendEffect DEF Send
  <2>3. jobs'[v].row = jobs[v].row
    BY <2>1, SendEffect DEF Jobs
  <2>4. CASE w = v
    BY <1>1, <2>1, <2>2, <2>3, <2>4
  <2>5. CASE w # v
    BY <1>1, <1>2, <2>2, <2>5 DEF Failed
  <2> QED  BY <2>4, <2>5
<1>5. CASE \E v \in Workers : Complete(v)
  <2>1. PICK v \in Workers : Complete(v)
    BY <1>5
  <2>2. /\ jobs'[v] = None /\ \A u \in Workers : u # v => jobs'[u] = jobs[u]
        /\ rows'[jobs[v].row].status \in Terminal \cup {"pending"}
        /\ \A b \in 1..Len(rows) : b # jobs[v].row => rows'[b] = rows[b]
    BY <2>1, CompleteEffect
  <2>3. d # jobs[v].row
    BY <1>2, <2>2 DEF Terminal
  <2> QED  BY <1>1, <1>2, <2>2, <2>3 DEF Failed
<1>6. CASE \E v \in Workers : CompleteRefused(v) \/ Crash(v)
  <2>1. PICK v \in Workers : rows' = rows /\ jobs' = [jobs EXCEPT ![v] = None]
    BY <1>6 DEF CompleteRefused, Crash
  <2>2. w # v /\ jobs'[w] = jobs[w]
    BY <1>0, <1>1, <2>1 DEF JobsOK
  <2> QED  BY <1>1, <1>2, <2>1, <2>2 DEF Failed
<1>7. CASE \E e \in 1..Len(rows) : TimePasses(e)
  <2>1. jobs' = jobs /\ rows'[d].attempt = rows[d].attempt /\ rows'[d].status = rows[d].status
    BY <1>7, TimeEffect
  <2> QED  BY <1>1, <1>2, <2>1 DEF Failed
<1>8. CASE Intake
  <2>1. jobs' = jobs
    BY <1>8 DEF Intake, ReadSubscription, CommitProjection, AbortProjection, Replay, work
  <2>2. ASSUME NEW r \in Rows, rows' = Append(rows, r) PROVE rows'[d] = rows[d]
    BY <1>0, <2>2 DEF RowsOK
  <2>3. rows'[d] = rows[d]
    BY <1>8, <2>2, IntakeRows
  <2> QED  BY <1>1, <1>2, <2>1, <2>3 DEF Failed
<1>9. CASE OverlapEnds \/ UNCHANGED vars \/ \E c \in Callers : Manage(c)
  <2>1. UNCHANGED <<rows, jobs>>
    BY <1>9 DEF OverlapEnds, vars, Manage, Disable, RevokeKey, AnswerDisable, BeginRotation,
       Rotate, RotationRefused, RotationUnanswered, BeginFinalize, RevokePrevious, ClearPrevious, CallLost, work
  <2> QED  BY <1>1, <1>2, <2>1 DEF Failed
<1> QED
  BY <1>3, <1>4, <1>5, <1>6, <1>7, <1>8, <1>9 DEF Next, Work

\* Only a Send lets the receiver answer.
LEMMA AcceptedSame ==
    ASSUME [Next]_vars
    PROVE  (\E w \in Workers : Send(w)) \/ accepted' = accepted
<1>1. CASE Intake \/ \E e \in 1..Len(rows) : TimePasses(e)
  BY <1>1 DEF Intake, ReadSubscription, CommitProjection, AbortProjection, Replay, work,
     TimePasses, LeaseLapses, BecomesAvailable
<1>2. ASSUME NEW w \in Workers, Work(w) \/ Crash(w) PROVE Send(w) \/ accepted' = accepted
  BY <1>2 DEF Work, Claim, Complete, CompleteRefused, Crash
<1>3. CASE OverlapEnds \/ UNCHANGED vars \/ \E c \in Callers : Manage(c)
  BY <1>3 DEF OverlapEnds, vars, Manage, Disable, RevokeKey, AnswerDisable, BeginRotation,
     Rotate, RotationRefused, RotationUnanswered, BeginFinalize, RevokePrevious, ClearPrevious, CallLost, work
<1> QED  BY <1>1, <1>2, <1>3 DEF Next

LEMMA StepAccept ==
    ASSUME Shape, "unstorable" \notin Answers, AcceptInv, [Next]_vars
    PROVE  AcceptInv'
<1>0. /\ faults \in Nat /\ faults' \in Nat /\ MaxRows \in Nat
      /\ Len(rows) \in Nat /\ Len(rows') \in Nat /\ Len(rows) <= Len(rows') /\ Len(rows') <= Len(rows) + 1
      /\ AcceptedOK
  BY NewRowState, WebhookAssumption DEF Shape, TypeOK, FaultsOK
<1>1. ASSUME NEW d \in 1..MaxRows, d > Len(rows') PROVE accepted'[d] = 0
  <2>1. accepted[d] = 0
    BY <1>0, <1>1 DEF AcceptInv
  <2>2. ASSUME NEW w \in Workers, Send(w) PROVE accepted'[d] = accepted[d]
    <3>1. rows' = rows /\ jobs[w].row \in 1..Len(rows)
      BY <2>2, SendEffect DEF Send
    <3>2. d # jobs[w].row
      BY <1>0, <1>1, <3>1
    <3>3. PICK met : accepted' = [accepted EXCEPT ![jobs[w].row] = IF met = "ok" THEN @ + 1 ELSE @]
      BY <2>2, SendEffect
    <3> QED  BY <1>0, <3>2, <3>3 DEF AcceptedOK
  <2>3. (\E w \in Workers : Send(w)) \/ accepted' = accepted
    BY AcceptedSame
  <2> QED  BY <2>1, <2>2, <2>3
<1>2. ASSUME NEW d \in 1..Len(rows'), d \notin 1..Len(rows)
      PROVE  Load(d)' = 0
  <2>1. /\ jobs' = jobs /\ accepted' = accepted
    BY <1>0, <1>2, NewRowState
  <2>2. Open(d)' = {}
    BY <1>2, <2>1, JobType DEF Open
  <2>3. d \in 1..MaxRows
    BY <1>0, <1>2, StepShape DEF Shape, TypeOK, RowsOK
  <2>4. accepted'[d] = 0
    BY <1>0, <1>2, <2>1, <2>3 DEF AcceptInv
  <2> QED  BY <2>2, <2>4, FS_EmptySet DEF Load
<1>3. ASSUME NEW d \in 1..Len(rows)
      PROVE  Load(d)' <= 1 + faults' /\ (Loose(d)' \/ Failed(d)' => Load(d)' <= faults')
  <2>1. /\ Load(d) \in Nat /\ Load(d)' \in Nat
        /\ \/ Load(d)' <= Load(d)
           \/ Load(d)' = Load(d) + 1 /\ \E w \in Workers : Claim(w, d)
        /\ \A w \in Workers : Send(w) /\ jobs[w].row = d /\ jobs'[w].answer # "ok" => Load(d)' < Load(d)
    BY LoadSteps
  <2>2. Load(d) <= 1 + faults /\ (Loose(d) \/ Failed(d) => Load(d) <= faults)
    BY <1>3 DEF AcceptInv
  <2>3. ASSUME NEW w \in Workers, Claim(w, d)
        PROVE  faults' = faults /\ Loose(d) /\ rows'[d].attempt # rows[d].attempt
    <3>1. rows'[d].attempt = rows[d].attempt + 1
      BY <2>3, ClaimEffect
    <3>2. rows[d].attempt \in Nat
      BY RowType DEF Shape, TypeOK, Rows
    <3> QED  BY <2>3, <3>1, <3>2 DEF Claim, Claimable, Loose
  <2>4. faults' \in {faults, faults + 1}
    BY NewRowState
  <2>5. Load(d)' <= 1 + faults'
    BY <1>0, <2>1, <2>2, <2>3, <2>4
  <2>6. ASSUME rows'[d].attempt = rows[d].attempt PROVE Load(d)' <= Load(d)
    BY <2>1, <2>3, <2>6
  <2>7. ASSUME Loose(d)' PROVE Load(d)' <= faults'
    <3>1. ASSUME NEW w \in Workers, Complete(w), jobs[w].row = d, Outcome(jobs[w]) = "retry"
          PROVE  Failed(d)
      <4>1. jobs[w].answer # None /\ jobs[w].answer # "ok" /\ jobs[w] # None
        BY <3>1 DEF Complete, Answered, Outcome
      <4> QED  BY <3>1, <4>1 DEF Complete, OwnAttempt, Failed
    <3> QED  BY <1>0, <2>1, <2>2, <2>6, <2>7, <3>1, ComesLoose
  <2>8. ASSUME Failed(d)' PROVE Load(d)' <= faults'
    BY <1>0, <2>1, <2>2, <2>4, <2>6, <2>8, BecomesFailed
  <2> QED  BY <2>5, <2>7, <2>8
<1>4. ASSUME NEW d \in 1..Len(rows')
      PROVE  Load(d)' <= 1 + faults' /\ (Loose(d)' \/ Failed(d)' => Load(d)' <= faults')
  <2>1. CASE d \in 1..Len(rows)
    BY <1>3, <2>1
  <2>2. CASE d \notin 1..Len(rows)
    BY <1>0, <1>2, <2>2
  <2> QED  BY <2>1, <2>2
<1> QED  BY <1>1, <1>4 DEF AcceptInv

\* A receiver accepts a delivery once, and once more per fault.
THEOREM AcceptedOncePerFault ==
    ASSUME "unstorable" \notin Answers
    PROVE  Spec => []AcceptedOnce
<1>1. Init => AcceptInv
  BY DEF Init, AcceptInv
<1>2. Shape /\ AcceptInv /\ [Next]_vars => AcceptInv'
  BY StepAccept
<1>3. Shape /\ AcceptInv => AcceptedOnce
  <2> SUFFICES ASSUME Shape, AcceptInv, NEW d \in 1..Len(rows) PROVE accepted[d] <= 1 + faults
    BY DEF AcceptedOnce
  <2>1. accepted[d] \in Nat /\ faults \in Nat
    BY RowType, WebhookAssumption DEF Shape, TypeOK, AcceptedOK, FaultsOK
  <2>2. Cardinality(Open(d)) \in Nat /\ Load(d) <= 1 + faults
    BY OpenFinite DEF AcceptInv
  <2> QED  BY <2>1, <2>2 DEF Load
<1> QED  BY <1>1, <1>2, <1>3, ShapeInvariant, PTL DEF Spec

-----------------------------------------------------------------------------
(* Failures of an active subscription *)

LEMMA LenientFinite ==
    /\ IsFiniteSet(Workers) /\ Cardinality(Workers) \in Nat
    /\ IsFiniteSet(Lenient) /\ Cardinality(Lenient) \in Nat
    /\ Cardinality(Lenient) <= Cardinality(Workers)
<1>1. Lenient \subseteq Workers
  BY DEF Lenient
<1> QED  BY <1>1, FS_Subset, FS_CardinalityType, WebhookAssumption

\* A step in which no worker becomes lenient and no failure is counted.
LEMMA NoneCounted ==
    ASSUME Shape, FailuresBounded, Lenient' \subseteq Lenient,
           sub'.status = "active" => sub.status = "active" /\ sub'.failures \in {0, sub.failures}
    PROVE  FailuresBounded'
<1>1. IsFiniteSet(Lenient) /\ Cardinality(Lenient) \in Nat /\ Cardinality(Workers) \in Nat
  BY LenientFinite
<1>2. Cardinality(Lenient') \in Nat /\ Cardinality(Lenient') <= Cardinality(Lenient)
  BY <1>1, FS_Subset, FS_CardinalityType
<1>3. sub.failures \in Nat /\ DisableAfter \in Nat
  BY WebhookAssumption DEF Shape, TypeOK, SubOK
<1> QED  BY <1>1, <1>2, <1>3 DEF FailuresBounded

LEMMA ClaimBounded ==
    ASSUME Shape, FailuresBounded, NEW w \in Workers, NEW d \in 1..Len(rows), Claim(w, d)
    PROVE  FailuresBounded'
<1>1. /\ jobs \in [Workers -> Jobs \cup {None}] /\ sub.failures \in Nat
      /\ DisableAfter \in Nat /\ UNCHANGED sub
      /\ jobs' = [jobs EXCEPT ![w] = [row |-> d, attempt |-> rows[d].attempt + 1,
                                      failures |-> sub.failures, answer |-> None]]
  BY WebhookAssumption DEF Claim, Shape, TypeOK, SubOK, JobsOK
<1>2. jobs'[w].failures = sub.failures /\ \A v \in Workers \ {w} : jobs'[v] = jobs[v]
  BY <1>1
<1>3. CASE sub.failures + 1 < DisableAfter
  <2>1. Cardinality(Lenient') \in Nat /\ Cardinality(Workers) \in Nat
    BY LenientFinite, FS_Subset, FS_CardinalityType DEF Lenient
  <2>2. Cardinality(Lenient') <= Cardinality(Workers)
    <3>1. Lenient' \subseteq Workers
      BY DEF Lenient
    <3> QED  BY <3>1, LenientFinite, FS_Subset
  <2>3. /\ DisableAfter > 1
        /\ sub.failures + Cardinality(Lenient') <= (DisableAfter - 1) + (Cardinality(Workers) - 1)
    <3> DEFINE n == Cardinality(Lenient')
               m == Cardinality(Workers)
    <3>1. n \in Nat /\ m \in Nat /\ n <= m
      BY <2>1, <2>2
    <3>2. sub.failures \in Nat /\ DisableAfter \in Nat
      BY <1>1
    <3> HIDE DEF n, m
    <3>3. DisableAfter > 1 /\ sub.failures + n <= (DisableAfter - 1) + (m - 1)
      BY <1>3, <3>1, <3>2
    <3> QED  BY <3>3 DEF n, m
  <2> QED  BY <1>1, <2>3 DEF FailuresBounded
<1>4. CASE ~(sub.failures + 1 < DisableAfter)
  <2>1. Lenient' \subseteq Lenient
    BY <1>2, <1>4 DEF Lenient
  <2> QED  BY <1>1, <2>1, NoneCounted
<1> QED  BY <1>3, <1>4

LEMMA CompleteBounded ==
    ASSUME Shape, FailuresBounded, NEW w \in Workers, Complete(w)
    PROVE  FailuresBounded'
<1> DEFINE job == jobs[w]
<1>1. /\ jobs \in [Workers -> Jobs \cup {None}] /\ sub.failures \in Nat
      /\ DisableAfter \in Nat /\ job # None /\ job.failures \in Nat
      /\ jobs' = [jobs EXCEPT ![w] = None]
  BY WebhookAssumption, JobType DEF Complete, Answered, Shape, TypeOK, SubOK, JobsOK, Jobs
<1>2. /\ sub \in [status : {"active", "disabled"}, failures : Nat, secret : Secrets,
                   previous : Secrets \cup {None}, over : BOOLEAN, late : BOOLEAN]
      /\ sub' = IF Counts(job)
                THEN Touch([sub EXCEPT !.failures = FailuresAfter(job),
                                       !.status = IF Permanent(job) /\ Disables(job)
                                                  THEN "disabled" ELSE @])
                ELSE sub
  BY DEF Complete, Shape, TypeOK, SubOK
<1>3. Lenient' = Lenient \ {w}
  BY <1>1 DEF Lenient
<1>4. CASE Counts(job) /\ Permanent(job)
  <2>1. /\ sub'.failures = sub.failures + 1
        /\ sub'.status = IF Disables(job) THEN "disabled" ELSE sub.status
    BY <1>2, <1>4 DEF Touch, FailuresAfter
  <2>2. CASE Disables(job)
    BY <2>1, <2>2 DEF FailuresBounded
  <2>3. CASE ~Disables(job)
    <3>1. w \in Lenient /\ DisableAfter > 1
      BY <1>1, <2>3 DEF Disables, Lenient
    <3>2. Cardinality(Lenient') = Cardinality(Lenient) - 1
      BY <1>3, <3>1, LenientFinite, FS_RemoveElement
    <3> QED
      BY <1>1, <2>1, <2>3, <3>1, <3>2, LenientFinite DEF FailuresBounded
  <2> QED  BY <2>2, <2>3
<1>5. CASE ~(Counts(job) /\ Permanent(job))
  <2>1. sub'.status = sub.status /\ sub'.failures \in {0, sub.failures}
    BY <1>2, <1>5 DEF Touch, FailuresAfter
  <2> QED  BY <1>3, <2>1, NoneCounted
<1> QED  BY <1>4, <1>5

\* However the workers interleave, a subscription that stays active has fewer
\* failures in a row than DisableAfter, up to one for every worker but one.
THEOREM FailuresOfActive == Spec => []FailuresBounded
<1>1. Init => FailuresBounded
  BY DEF Init, FailuresBounded
<1>2. Shape /\ FailuresBounded /\ [Next]_vars => FailuresBounded'
  <2> SUFFICES ASSUME Shape, FailuresBounded, [Next]_vars PROVE FailuresBounded'
    OBVIOUS
  <2>1. ASSUME NEW w \in Workers, Work(w) \/ Crash(w) PROVE FailuresBounded'
    <3>1. CASE \E d \in 1..Len(rows) : Claim(w, d)
      BY <3>1, ClaimBounded
    <3>2. CASE Complete(w)
      BY <3>2, CompleteBounded
    <3>3. CASE Send(w)
      <4>1. PICK a : jobs' = [jobs EXCEPT ![w].answer = a]
        BY <3>3 DEF Send
      <4>2. jobs \in [Workers -> Jobs \cup {None}] /\ UNCHANGED sub /\ jobs[w] # None
        BY <3>3 DEF Send, Shape, TypeOK, JobsOK
      <4>3. /\ \A v \in Workers \ {w} : jobs'[v] = jobs[v]
            /\ jobs'[w].failures = jobs[w].failures
        <5>1. jobs[w] \in Jobs
          BY <4>2
        <5> QED  BY <4>1, <4>2, <5>1 DEF Jobs
      <4>4. Lenient' \subseteq Lenient
        BY <4>2, <4>3 DEF Lenient
      <4> QED  BY <4>2, <4>4, NoneCounted
    <3>4. CASE CompleteRefused(w) \/ Crash(w)
      <4>1. jobs' = [jobs EXCEPT ![w] = None] /\ UNCHANGED sub
        BY <3>4 DEF CompleteRefused, Crash
      <4>2. jobs \in [Workers -> Jobs \cup {None}]
        BY DEF Shape, TypeOK, JobsOK
      <4>3. Lenient' \subseteq Lenient
        BY <4>1, <4>2 DEF Lenient
      <4> QED  BY <4>1, <4>3, NoneCounted
    <3> QED  BY <2>1, <3>1, <3>2, <3>3, <3>4 DEF Work
  <2>2. ASSUME NEW c \in Callers, Manage(c) PROVE FailuresBounded'
    <3>1. UNCHANGED jobs
      BY <2>2 DEF Manage, Disable, RevokeKey, AnswerDisable, BeginRotation, Rotate, RotationRefused,
         RotationUnanswered, BeginFinalize, RevokePrevious, ClearPrevious, CallLost, work
    <3>2. sub'.status = "active" => sub.status = "active" /\ sub'.failures = sub.failures
      <4>1. sub \in [status : {"active", "disabled"}, failures : Nat, secret : Secrets,
                     previous : Secrets \cup {None}, over : BOOLEAN, late : BOOLEAN]
        BY DEF Shape, TypeOK, SubOK
      <4>2. CASE Disable(c)
        BY <4>1, <4>2 DEF Disable, Touch
      <4>3. CASE Rotate(c) \/ RotationUnanswered(c)
        BY <4>1, <4>3 DEF Rotate, RotationUnanswered, InstallSecret
      <4>4. CASE ClearPrevious(c)
        BY <4>1, <4>4 DEF ClearPrevious
      <4>5. UNCHANGED sub \/ Disable(c) \/ Rotate(c) \/ RotationUnanswered(c) \/ ClearPrevious(c)
        BY <2>2 DEF Manage, RevokeKey, AnswerDisable, BeginRotation, RotationRefused,
           BeginFinalize, RevokePrevious, CallLost
      <4> QED  BY <4>2, <4>3, <4>4, <4>5
    <3>3. Lenient' = Lenient
      BY <3>1 DEF Lenient
    <3> QED  BY <3>2, <3>3, NoneCounted
  <2>3. CASE Intake \/ UNCHANGED vars \/ \E d \in 1..Len(rows) : TimePasses(d)
    <3>1. UNCHANGED <<sub, jobs>>
      BY <2>3 DEF Intake, ReadSubscription, CommitProjection, AbortProjection, Replay, TimePasses,
         LeaseLapses, BecomesAvailable, vars, work
    <3>2. Lenient' = Lenient
      BY <3>1 DEF Lenient
    <3> QED  BY <3>1, <3>2, NoneCounted
  <2>4. CASE OverlapEnds
    <3>1. sub' = [sub EXCEPT !.over = TRUE] /\ UNCHANGED jobs
      BY <2>4 DEF OverlapEnds, work
    <3>2. sub'.status = sub.status /\ sub'.failures = sub.failures /\ Lenient' = Lenient
      BY <3>1 DEF Lenient, Shape, TypeOK, SubOK
    <3> QED  BY <3>2, NoneCounted
  <2> QED  BY <2>1, <2>2, <2>3, <2>4 DEF Next
<1> QED  BY <1>1, <1>2, ShapeInvariant, PTL DEF Spec

-----------------------------------------------------------------------------
(* An event is projected once *)

\* The event in the middle of a projection has no receipt, and if it is to get no
\* delivery the endpoint is disabled.
ProjectInv ==
    /\ ProjectedOnce
    /\ projecting # None =>
         /\ projecting.event \notin projected
         /\ projecting.secret = None => sub.status = "disabled"

\* A disabled subscription stays disabled.
LEMMA DisabledForGood ==
    ASSUME Shape, [Next]_vars, sub.status = "disabled"
    PROVE  sub'.status = "disabled"
<1>0. sub \in [status : {"active", "disabled"}, failures : Nat, secret : Secrets,
               previous : Secrets \cup {None}, over : BOOLEAN, late : BOOLEAN]
  BY DEF Shape, TypeOK, SubOK
<1>1. ASSUME NEW w \in Workers, Complete(w) PROVE sub'.status = "disabled"
  BY <1>0, <1>1 DEF Complete, Touch
<1>2. ASSUME NEW c \in Callers, Manage(c) PROVE sub'.status = "disabled"
  <2>1. CASE Disable(c)
    BY <2>1 DEF Disable
  <2>2. CASE Rotate(c) \/ RotationUnanswered(c)
    BY <2>2 DEF Rotate, RotationUnanswered, Rotatable
  <2>3. CASE ClearPrevious(c)
    BY <1>0, <2>3 DEF ClearPrevious
  <2>4. UNCHANGED sub \/ Disable(c) \/ Rotate(c) \/ RotationUnanswered(c) \/ ClearPrevious(c)
    BY <1>2 DEF Manage, RevokeKey, AnswerDisable, BeginRotation, RotationRefused,
       BeginFinalize, RevokePrevious, CallLost
  <2> QED  BY <2>1, <2>2, <2>3, <2>4
<1>3. CASE OverlapEnds
  BY <1>0, <1>3 DEF OverlapEnds
<1>4. CASE Intake \/ UNCHANGED vars \/ \E d \in 1..Len(rows) : TimePasses(d)
  <2>1. UNCHANGED sub
    BY <1>4 DEF Intake, ReadSubscription, CommitProjection, AbortProjection, Replay, TimePasses,
       LeaseLapses, BecomesAvailable, vars
  <2> QED  BY <2>1
<1>5. ASSUME NEW w \in Workers, Work(w) \/ Crash(w) PROVE sub' = sub \/ Complete(w)
  BY <1>5 DEF Work, Claim, Send, CompleteRefused, Crash
<1> QED  BY <1>1, <1>2, <1>3, <1>4, <1>5 DEF Next

\* No step but intake touches the events of the deliveries, or where they came from.
LEMMA SameEvents ==
    ASSUME Shape, [Next]_vars, ~Intake
    PROVE  /\ Len(rows') = Len(rows) /\ UNCHANGED <<projecting, projected>>
           /\ \A d \in 1..Len(rows) : rows'[d].event = rows[d].event /\ rows'[d].origin = rows[d].origin
<1>0. rows \in Seq(Rows) /\ rows \in [1..Len(rows) -> Rows] /\ Len(rows) \in Nat
  BY DEF Shape, TypeOK, RowsOK
<1>1. ASSUME NEW w \in Workers, Work(w) \/ Crash(w)
      PROVE  /\ UNCHANGED <<projecting, projected>>
             /\ \/ rows' = rows \/ Complete(w)
                \/ \E d \in 1..Len(rows) : Claim(w, d)
  BY <1>1 DEF Work, Claim, Send, Complete, CompleteRefused, Crash, intake
<1>2. ASSUME NEW e \in 1..Len(rows), NEW q, rows' = [rows EXCEPT ![e] = q],
             q.event = rows[e].event, q.origin = rows[e].origin
      PROVE  /\ Len(rows') = Len(rows)
             /\ \A d \in 1..Len(rows) : rows'[d].event = rows[d].event /\ rows'[d].origin = rows[d].origin
  BY <1>0, <1>2
<1>3. ASSUME NEW w \in Workers, NEW e \in 1..Len(rows), Claim(w, e)
      PROVE  \E q : /\ rows' = [rows EXCEPT ![e] = q]
                    /\ q.event = rows[e].event /\ q.origin = rows[e].origin
  <2> DEFINE n == rows[e].attempt + 1
             q == [rows[e] EXCEPT !.status = "inflight", !.attempt = n, !.ready = FALSE, !.lapsed = FALSE]
  <2>1. rows' = [rows EXCEPT ![e] = q]
    BY <1>0, <1>3 DEF Claim, Rows
  <2>2. q.event = rows[e].event /\ q.origin = rows[e].origin
    BY <1>0 DEF Rows
  <2> HIDE DEF q
  <2> QED  BY <2>1, <2>2
<1>4. ASSUME NEW w \in Workers, Complete(w)
      PROVE  \E e \in 1..Len(rows) : \E q : /\ rows' = [rows EXCEPT ![e] = q]
                                            /\ q.event = rows[e].event
                                            /\ q.origin = rows[e].origin
  <2> DEFINE o  == Outcome(jobs[w])
             st == IF o = "retry" THEN "pending" ELSE o
             e  == jobs[w].row
             q  == [rows[e] EXCEPT !.status = st, !.lapsed = FALSE]
  <2>0. e \in 1..Len(rows)
    BY <1>4, CompleteEffect
  <2>1. rows' = [rows EXCEPT ![e] = q]
    BY <1>0, <1>4, <2>0 DEF Complete, Rows
  <2>2. q.event = rows[e].event /\ q.origin = rows[e].origin
    BY <1>0, <2>0 DEF Rows
  <2> HIDE DEF q, e
  <2> QED  BY <2>0, <2>1, <2>2
<1>5. ASSUME NEW e \in 1..Len(rows), TimePasses(e)
      PROVE  /\ UNCHANGED <<projecting, projected>>
             /\ \E q : /\ rows' = [rows EXCEPT ![e] = q]
                       /\ q.event = rows[e].event /\ q.origin = rows[e].origin
  <2> DEFINE lapsed == [rows[e] EXCEPT !.lapsed = TRUE]
             ready  == [rows[e] EXCEPT !.ready = TRUE]
  <2>1. /\ lapsed.event = rows[e].event /\ lapsed.origin = rows[e].origin
        /\ ready.event = rows[e].event /\ ready.origin = rows[e].origin
    BY <1>0 DEF Rows
  <2>2. /\ UNCHANGED <<projecting, projected>>
        /\ rows' = [rows EXCEPT ![e] = lapsed] \/ rows' = [rows EXCEPT ![e] = ready]
    BY <1>5 DEF TimePasses, LeaseLapses, BecomesAvailable, intake
  <2> HIDE DEF lapsed, ready
  <2> QED  BY <2>1, <2>2
<1>6. CASE OverlapEnds \/ UNCHANGED vars \/ \E c \in Callers : Manage(c)
  BY <1>6 DEF OverlapEnds, vars, Manage, Disable, RevokeKey, AnswerDisable, BeginRotation, Rotate,
     RotationRefused, RotationUnanswered, BeginFinalize, RevokePrevious, ClearPrevious, CallLost, work, intake
<1>7. CASE \E w \in Workers : Work(w) \/ Crash(w)
  <2>1. PICK w \in Workers : Work(w) \/ Crash(w)
    BY <1>7
  <2>2. CASE rows' = rows
    BY <1>1, <2>1, <2>2
  <2>3. CASE Complete(w) \/ \E d \in 1..Len(rows) : Claim(w, d)
    <3>1. PICK e \in 1..Len(rows) : \E q : /\ rows' = [rows EXCEPT ![e] = q]
                                           /\ q.event = rows[e].event
                                           /\ q.origin = rows[e].origin
      BY <1>3, <1>4, <2>3
    <3>2. PICK q : /\ rows' = [rows EXCEPT ![e] = q]
                   /\ q.event = rows[e].event /\ q.origin = rows[e].origin
      BY <3>1
    <3> QED  BY <1>1, <1>2, <2>1, <3>2
  <2> QED  BY <1>1, <2>1, <2>2, <2>3
<1>8. CASE \E e \in 1..Len(rows) : TimePasses(e)
  BY <1>2, <1>5, <1>8
<1> QED  BY <1>6, <1>7, <1>8 DEF Next

\* A step that keeps receipts, events and origins keeps them consistent.
LEMMA ProjectedFrame ==
    ASSUME ProjectedOnce, projected' = projected, Len(rows') = Len(rows),
           \A d \in 1..Len(rows) : rows'[d].event = rows[d].event /\ rows'[d].origin = rows[d].origin,
           sub.status = "disabled" => sub'.status = "disabled"
    PROVE  ProjectedOnce'
  BY DEF ProjectedOnce

LEMMA IntakeProjected ==
    ASSUME Shape, ProjectInv, Intake
    PROVE  ProjectInv'
<1>0. rows \in Seq(Rows) /\ Len(rows) \in Nat /\ MaxRows \in Nat
      /\ Len(rows) <= MaxRows /\ None \notin 1..MaxRows
      /\ sub.status \in {"active", "disabled"} /\ sub.secret \in Secrets /\ None \notin Secrets
  BY WebhookAssumption DEF Shape, TypeOK, RowsOK, SubOK, Secrets
<1>1. UNCHANGED sub
  BY DEF Intake, ReadSubscription, CommitProjection, AbortProjection, Replay
<1>2. CASE \E e \in Events : ReadSubscription(e)
  <2>1. PICK e \in Events : ReadSubscription(e)
    BY <1>2
  <2>2. UNCHANGED <<rows, projected>> /\ e \notin projected
        /\ projecting' = [event |-> e, secret |-> IF sub.status = "active" THEN sub.secret ELSE None]
    BY <2>1 DEF ReadSubscription, work
  <2>3. ProjectedOnce'
    BY <1>1, <2>2, ProjectedFrame DEF ProjectInv
  <2> QED  BY <1>0, <1>1, <2>2, <2>3 DEF ProjectInv
<1>3. CASE AbortProjection
  <2>1. UNCHANGED <<rows, projected>> /\ projecting' = None
    BY <1>3 DEF AbortProjection, ReceiptRolledBack, work
  <2>2. ProjectedOnce'
    BY <1>1, <2>1, ProjectedFrame DEF ProjectInv
  <2> QED  BY <2>1, <2>2 DEF ProjectInv
<1>4. CASE \E d \in 1..Len(rows) : Replay(d)
  <2>1. PICK d \in 1..Len(rows) : Replay(d)
    BY <1>4
  <2> DEFINE r == NewRow(rows[d].event, d, sub.secret)
  <2>2. r.origin = d /\ r.origin # None
    BY <1>0 DEF NewRow
  <2>3. rows' = Append(rows, r) /\ UNCHANGED <<projecting, projected>>
    BY <2>1 DEF Replay, intake
  <2> HIDE DEF r
  <2>4. /\ Len(rows') = Len(rows) + 1 /\ rows'[Len(rows) + 1] = r
        /\ \A f \in 1..Len(rows) : rows'[f] = rows[f]
    BY <1>0, <2>3
  <2>5. \A f \in 1..Len(rows') : rows'[f].origin = None => f \in 1..Len(rows)
    BY <1>0, <2>2, <2>4
  <2>6. ProjectedOnce'
    BY <1>0, <1>1, <2>3, <2>4, <2>5 DEF ProjectInv, ProjectedOnce
  <2> QED  BY <1>1, <2>3, <2>6 DEF ProjectInv
<1>5. CASE CommitProjection
  <2> DEFINE e == projecting.event
  <2>1. /\ projecting # None /\ projecting' = None /\ projected' = projected \cup {e} /\ e \notin projected
        /\ projecting.secret = None => sub.status = "disabled"
    BY <1>5 DEF CommitProjection, ProjectInv
  <2>2. CASE projecting.secret = None /\ rows' = rows
    <3>1. ProjectedOnce'
      BY <1>1, <2>1, <2>2 DEF ProjectInv, ProjectedOnce
    <3> QED  BY <2>1, <3>1 DEF ProjectInv
  <2>3. CASE rows' = Append(rows, NewRow(projecting.event, None, projecting.secret))
    <3> DEFINE r == NewRow(projecting.event, None, projecting.secret)
    <3>1. r.origin = None /\ r.event = e
      BY DEF NewRow
    <3> HIDE DEF r
    <3>2. /\ Len(rows') = Len(rows) + 1 /\ rows'[Len(rows) + 1] = r
          /\ \A f \in 1..Len(rows) : rows'[f] = rows[f]
      BY <1>0, <2>3 DEF r
    <3> HIDE DEF e
    <3>3. \A f \in 1..Len(rows') : f \in 1..Len(rows) \/ f = Len(rows')
      BY <1>0, <3>2
    <3>4. \A f \in 1..Len(rows) : rows[f].origin = None => rows[f].event # e
      BY <2>1 DEF ProjectInv, ProjectedOnce
    <3>5. Len(rows') \in 1..Len(rows') /\ rows'[Len(rows')] = r
      BY <1>0, <3>2
    <3>6. \A g \in projected' : \/ sub'.status = "disabled"
                                \/ \E f \in 1..Len(rows') : rows'[f].event = g
      <4> SUFFICES ASSUME NEW g \in projected', sub.status # "disabled"
                   PROVE  \E f \in 1..Len(rows') : rows'[f].event = g
        BY <1>1
      <4>1. CASE g = e
        BY <3>1, <3>5, <4>1
      <4>2. CASE g # e
        <5>1. PICK f \in 1..Len(rows) : rows[f].event = g
          BY <2>1, <4>2 DEF ProjectInv, ProjectedOnce
        <5>2. f \in 1..Len(rows')
          BY <1>0, <3>2
        <5> QED  BY <3>2, <5>1, <5>2
      <4> QED  BY <4>1, <4>2
    <3>7. \A f \in 1..Len(rows') : rows'[f].origin = None =>
            /\ rows'[f].event \in projected'
            /\ \A g \in 1..Len(rows') : rows'[g].origin = None /\ rows'[g].event = rows'[f].event => g = f
      <4> SUFFICES ASSUME NEW f \in 1..Len(rows'), rows'[f].origin = None
                   PROVE  /\ rows'[f].event \in projected'
                          /\ \A g \in 1..Len(rows') :
                               rows'[g].origin = None /\ rows'[g].event = rows'[f].event => g = f
        OBVIOUS
      <4>1. CASE f \in 1..Len(rows)
        BY <2>1, <3>1, <3>2, <3>3, <3>4, <3>5, <4>1 DEF ProjectInv, ProjectedOnce
      <4>2. CASE f = Len(rows')
        BY <2>1, <3>1, <3>2, <3>3, <3>4, <3>5, <4>2
      <4> QED  BY <3>3, <4>1, <4>2
    <3>8. ProjectedOnce'
      BY <3>6, <3>7 DEF ProjectedOnce
    <3> QED  BY <2>1, <3>8 DEF ProjectInv
  <2> QED  BY <1>5, <2>2, <2>3 DEF CommitProjection
<1> QED  BY <1>2, <1>3, <1>4, <1>5 DEF Intake

\* However often a projection is read, rolled back and repeated, an event gets its
\* receipt and its first delivery together, and no second one.
THEOREM ProjectedOnceOnly == Spec => []ProjectedOnce
<1>1. Init => ProjectInv
  BY DEF Init, ProjectInv, ProjectedOnce
<1>2. Shape /\ ProjectInv /\ [Next]_vars => ProjectInv'
  <2> SUFFICES ASSUME Shape, ProjectInv, [Next]_vars, ~Intake PROVE ProjectInv'
    BY IntakeProjected
  <2>1. /\ Len(rows') = Len(rows) /\ UNCHANGED <<projecting, projected>>
        /\ \A d \in 1..Len(rows) : rows'[d].event = rows[d].event /\ rows'[d].origin = rows[d].origin
    BY SameEvents
  <2>2. ProjectedOnce'
    BY <2>1, ProjectedFrame, DisabledForGood DEF ProjectInv
  <2> QED  BY <2>1, <2>2, DisabledForGood DEF ProjectInv
<1>3. ProjectInv => ProjectedOnce
  BY DEF ProjectInv
<1> QED  BY <1>1, <1>2, <1>3, ShapeInvariant, PTL DEF Spec
=============================================================================
