---------------------------- MODULE EventConsumer ----------------------------
(***************************************************************************)
(* The Kafka consumers of one base topic.  The members of a consumer group *)
(* share out the base topic and its retry topic.  Each of them reads what  *)
(* it owns in one single-threaded loop (Run), hands every record to its    *)
(* handler, and commits the record's offset once the handler succeeded or  *)
(* a replacement was produced to the retry or the dead-letter topic        *)
(* (HandleOne).  All groups share the retry topic.                         *)
(*                                                                         *)
(* A topic is one partition: a sequence of records.  What Kafka and        *)
(* franz-go do is external: owner is the member a topic is assigned to,    *)
(* position the fetch position of that member's client, committed the      *)
(* durable offset of the group.  A restart and a hand-over resume from     *)
(* committed.  A hand-over does not stop the former owner's loop: it       *)
(* finishes the record it holds, and its commit is still taken.  The       *)
(* not_before delay of a retry record is an untimed wait.                  *)
(***************************************************************************)
EXTENDS Integers, Sequences, FiniteSets

CONSTANTS
    NumEvents,          \* events the relay publishes to the base topic
    Groups,             \* consumer groups subscribed to the topic
    Members,            \* the consumers, one in each process of a group
    GroupOf,            \* the group of each of them
    MaxAttempts,        \* RetryPolicy.MaxAttempts
    Malformed,          \* events whose record the consumer cannot decode
    MaxCopies,          \* bound: copies of an event on the base topic
    MaxFaults,          \* bound: restarts, hand-overs, failed commits and publishes
    MaxProduceFailures  \* bound: failed retry and dead-letter publishes among them

ASSUME ConsumerAssumption ==
    /\ NumEvents \in Nat
    /\ IsFiniteSet(Groups)
    /\ GroupOf \in [Members -> Groups]
    /\ \A g \in Groups : \E m \in Members : GroupOf[m] = g
    /\ MaxAttempts \in Nat \ {0}
    /\ Malformed \subseteq 1 .. NumEvents
    /\ MaxCopies \in Nat
    /\ MaxFaults \in Nat
    /\ MaxProduceFailures \in Nat

Events == 1 .. NumEvents
Topics == {"base", "retry"}

NoRecord == [topic |-> "base", offset |-> 0]

VARIABLES
    log,                \* log[t]: the records of topic t, in offset order
    dlq,                \* records of the dead-letter topic
    owner,              \* owner[g][t]: the member of g that topic t is assigned to
    committed,          \* committed[g][t]: last offset g committed in t
    position,           \* position[g][t]: last offset the owner's client handed out
    pc,                 \* where each member's loop is
    at,                 \* the record the member is working on
    out,                \* the replacement it is about to produce
    succeeded,          \* events the group's handler has accepted
    faults,             \* restarts, hand-overs and failed commits so far
    produceFailures     \* failed retry and dead-letter publishes so far

offsets == <<owner, committed, position>>
loops   == <<pc, at, out>>
vars    == <<log, dlq, owner, committed, position, pc, at, out, succeeded, faults,
             produceFailures>>

\* A base record counts as the first attempt; a retry record names the group
\* that produced it (the transport header does not: it is here for properties).
Record(e, n, g)   == [event |-> e, attempt |-> n, by |-> g]
BaseRecord(e)     == Record(e, 1, "relay")
Current(m)        == log[at[m].topic][at[m].offset]
Copies(e)         == Cardinality({i \in DOMAIN log["base"] : log["base"][i].event = e})
Dead(g)           == {d.event : d \in {x \in dlq : x.by = g}}

\* A dead letter also says why: the record could not be read, the failure was
\* permanent, or the attempts were spent.
DeadLetter(e, n, g, why) == [event |-> e, attempt |-> n, by |-> g, reason |-> why]

FaultsLeft == faults + produceFailures < MaxFaults

NoOutput == [topic |-> "none", record |-> BaseRecord(0)]

Init ==
    /\ log = [t \in Topics |-> <<>>]
    /\ dlq = {}
    /\ owner \in {o \in [Groups -> [Topics -> Members]] :
                     \A g \in Groups, t \in Topics : GroupOf[o[g][t]] = g}
    /\ committed = [g \in Groups |-> [t \in Topics |-> 0]]
    /\ position  = [g \in Groups |-> [t \in Topics |-> 0]]
    /\ pc  = [m \in Members |-> "poll"]
    /\ at  = [m \in Members |-> NoRecord]
    /\ out = [m \in Members |-> NoOutput]
    /\ succeeded = [g \in Groups |-> {}]
    /\ faults = 0
    /\ produceFailures = 0

\* The relay publishes an event, and perhaps publishes it again (AtLeastOnce).
Publish(e) ==
    /\ Copies(e) < MaxCopies
    /\ log' = [log EXCEPT !["base"] = Append(@, BaseRecord(e))]
    /\ UNCHANGED <<dlq, offsets, loops, succeeded, faults, produceFailures>>

(***************************************************************************)
(* Consumer.Run and HandleOne                                              *)
(***************************************************************************)

\* Read hands out one record of either topic and moves the fetch position past
\* it, committed or not.  A retry record is first slept on until its
\* not_before, with the whole loop: no other record is read meanwhile.
Poll(m, t) ==
    LET g == GroupOf[m] IN
    /\ pc[m] = "poll"
    /\ owner[g][t] = m
    /\ position[g][t] < Len(log[t])
    /\ position' = [position EXCEPT ![g][t] = @ + 1]
    /\ at' = [at EXCEPT ![m] = [topic |-> t, offset |-> position[g][t] + 1]]
    /\ pc' = [pc EXCEPT ![m] = IF t = "retry" THEN "wait" ELSE "handle"]
    /\ UNCHANGED <<log, dlq, owner, committed, out, succeeded, faults, produceFailures>>

Wake(m) ==
    /\ pc[m] = "wait"
    /\ pc' = [pc EXCEPT ![m] = "handle"]
    /\ UNCHANGED <<log, dlq, offsets, at, out, succeeded, faults, produceFailures>>

\* The handler accepts the delivery.
HandlerOk(m) ==
    /\ pc[m] = "handle"
    /\ Current(m).event \notin Malformed
    /\ succeeded' = [succeeded EXCEPT ![GroupOf[m]] = @ \cup {Current(m).event}]
    /\ pc' = [pc EXCEPT ![m] = "commit"]
    /\ UNCHANGED <<log, dlq, offsets, at, out, faults, produceFailures>>

\* A poison record never reaches the handler; a permanent failure and an
\* exhausted budget go to the dead-letter topic, everything else is retried
\* under the next attempt number.
ExhaustedTooLate(r)    == r.attempt > MaxAttempts
ExhaustedTooEarly(r)   == r.attempt + 1 >= MaxAttempts
Forgotten              == "commit"
Exhausted(r)           == r.attempt >= MaxAttempts
ToDeadLetter(g, r, why) ==
    [topic |-> "dlq", record |-> DeadLetter(r.event, r.attempt, g, why)]
ToRetry(g, r)          == [topic |-> "retry", record |-> Record(r.event, r.attempt + 1, g)]
RetryOrDeadLetter(g, r) == IF Exhausted(r) THEN ToDeadLetter(g, r, "exhausted")
                                           ELSE ToRetry(g, r)

\* The replacement comes first, the commit after it.
AfterFailure == "produce"

Fail(m, replacement) ==
    /\ out' = [out EXCEPT ![m] = replacement]
    /\ pc'  = [pc EXCEPT ![m] = AfterFailure]
    /\ UNCHANGED <<log, dlq, offsets, at, succeeded, faults, produceFailures>>

DropPoison(m) ==
    /\ pc[m] = "handle"
    /\ Current(m).event \in Malformed
    /\ Fail(m, ToDeadLetter(GroupOf[m], Current(m), "poison"))

HandlerPermanent(m) ==
    /\ pc[m] = "handle"
    /\ Current(m).event \notin Malformed
    /\ Fail(m, ToDeadLetter(GroupOf[m], Current(m), "permanent"))

HandlerRetryable(m) ==
    /\ pc[m] = "handle"
    /\ Current(m).event \notin Malformed
    /\ Fail(m, RetryOrDeadLetter(GroupOf[m], Current(m)))

(***************************************************************************)
(* retryAndCommit, deadLetterAndCommit and commit                          *)
(***************************************************************************)

\* The producer is idempotent: one publish is one record.
Produce(o) ==
    IF o.topic = "retry"
    THEN log' = [log EXCEPT !["retry"] = Append(@, o.record)] /\ UNCHANGED dlq
    ELSE dlq' = dlq \cup {o.record} /\ UNCHANGED log

ProduceOk(m) ==
    /\ pc[m] = "produce"
    /\ Produce(out[m])
    /\ out' = [out EXCEPT ![m] = NoOutput]
    /\ pc'  = [pc EXCEPT ![m] = "commit"]
    /\ UNCHANGED <<offsets, at, succeeded, faults, produceFailures>>

\* The publish fails, though the broker may have taken the record.  Run leaves
\* the offset uncommitted, backs off, and reads the next record.
ProduceFail(m) ==
    /\ pc[m] = "produce"
    /\ FaultsLeft /\ produceFailures < MaxProduceFailures
    /\ produceFailures' = produceFailures + 1
    /\ Produce(out[m]) \/ UNCHANGED <<log, dlq>>
    /\ out' = [out EXCEPT ![m] = NoOutput]
    /\ pc'  = [pc EXCEPT ![m] = "poll"]
    /\ at'  = [at EXCEPT ![m] = NoRecord]
    /\ UNCHANGED <<offsets, succeeded, faults>>

\* CommitRecords sets the group's offset to this record: it says nothing of the
\* records before it one by one, and a member that no longer owns the topic
\* may take the offset back behind what its successor has committed.
CommitOffset(m) ==
    committed' = [committed EXCEPT ![GroupOf[m]][at[m].topic] = at[m].offset]

CommitOk(m) ==
    /\ pc[m] = "commit"
    /\ CommitOffset(m)
    /\ pc' = [pc EXCEPT ![m] = "poll"]
    /\ at' = [at EXCEPT ![m] = NoRecord]
    /\ UNCHANGED <<log, dlq, owner, position, out, succeeded, faults, produceFailures>>

\* The commit fails, though the broker may have taken the offset.
CommitFail(m) ==
    /\ pc[m] = "commit"
    /\ FaultsLeft
    /\ faults' = faults + 1
    /\ CommitOffset(m) \/ UNCHANGED committed
    /\ pc' = [pc EXCEPT ![m] = "poll"]
    /\ at' = [at EXCEPT ![m] = NoRecord]
    /\ UNCHANGED <<log, dlq, owner, position, out, succeeded, produceFailures>>

PositionKept(g, t) == position[g][t]
ResumeFrom(g, t)   == committed[g][t]

\* A process restarts: the record in hand is gone, and what the member owns is
\* read again from the committed offset.
Restart(m) ==
    LET g == GroupOf[m]
        owned == {t \in Topics : owner[g][t] = m}
    IN
    /\ FaultsLeft
    /\ pc[m] # "poll" \/ \E t \in owned : position[g][t] # committed[g][t]
    /\ faults' = faults + 1
    /\ position' = [position EXCEPT ![g] =
                        [t \in Topics |-> IF t \in owned THEN ResumeFrom(g, t) ELSE @[t]]]
    /\ pc'  = [pc EXCEPT ![m] = "poll"]
    /\ at'  = [at EXCEPT ![m] = NoRecord]
    /\ out' = [out EXCEPT ![m] = NoOutput]
    /\ UNCHANGED <<log, dlq, owner, committed, succeeded, produceFailures>>

\* The group rebalances and a topic goes to another member, which resumes from
\* the committed offset.  Nothing tells the former owner's loop, which goes on
\* with the record in its hands.
HandOver(m, t) ==
    LET g == GroupOf[m] IN
    /\ FaultsLeft
    /\ owner[g][t] # m
    /\ faults' = faults + 1
    /\ owner' = [owner EXCEPT ![g][t] = m]
    /\ position' = [position EXCEPT ![g][t] = ResumeFrom(g, t)]
    /\ UNCHANGED <<log, dlq, committed, loops, succeeded, produceFailures>>

Loop(m) ==
    \/ \E t \in Topics : Poll(m, t)
    \/ Wake(m)
    \/ HandlerOk(m)
    \/ HandlerPermanent(m)
    \/ HandlerRetryable(m)
    \/ DropPoison(m)
    \/ ProduceOk(m)
    \/ CommitOk(m)

Fault(m) ==
    \/ ProduceFail(m)
    \/ CommitFail(m)
    \/ Restart(m)
    \/ \E t \in Topics : HandOver(m, t)

Next ==
    \/ \E e \in Events : Publish(e)
    \/ \E m \in Members : Loop(m) \/ Fault(m)

\* A member's loop runs whenever it can: the handler returns, the broker answers.
\* Both topics are polled in turn by the client.
Fairness == \A m \in Members : WF_vars(Loop(m))

Spec == Init /\ [][Next]_vars /\ Fairness
-----------------------------------------------------------------------------
RecordType(producers) ==
    [event : Events, attempt : 1 .. MaxAttempts, by : producers]

DeadLetterType ==
    [event : Events, attempt : 1 .. MaxAttempts, by : Groups,
     reason : {"poison", "permanent", "exhausted"}]

Outputs ==
    [topic : {"retry"}, record : RecordType(Groups)] \cup [topic : {"dlq"}, record : DeadLetterType]

TypeOK ==
    /\ log \in [Topics -> Seq(RecordType(Groups \cup {"relay"}))]
    /\ dlq \subseteq DeadLetterType
    /\ owner \in [Groups -> [Topics -> Members]]
    /\ committed \in [Groups -> [Topics -> Nat]]
    /\ position  \in [Groups -> [Topics -> Nat]]
    /\ pc  \in [Members -> {"poll", "wait", "handle", "produce", "commit"}]
    /\ at  \in [Members -> [topic : Topics, offset : Nat]]
    /\ out \in [Members -> Outputs \cup {NoOutput}]
    /\ succeeded \in [Groups -> SUBSET Events]
    /\ faults \in Nat
    /\ produceFailures \in Nat

\* Where the group will still meet the event: past its committed offset.
Ahead(g, e) == \E t \in Topics : \E i \in DOMAIN log[t] :
                   i > committed[g][t] /\ log[t][i].event = e

OnBase(e) == \E i \in DOMAIN log["base"] : log["base"][i].event = e

\* No published event disappears for a group: its handler accepted it, or it is
\* in the dead-letter topic, or a record of it lies past the group's offset.
\* This is the promise of the Consumer's comment ("never commits the source
\* record until the handler succeeds or the replacement ... is durably
\* acknowledged") and of Run's ("Leave the source offset uncommitted").
NoEventLost ==
    \A g \in Groups, e \in Events :
        OnBase(e) => e \in succeeded[g] \/ e \in Dead(g) \/ Ahead(g, e)

\* With the failures of the retry and dead-letter publish set aside, restarts,
\* hand-overs and failed commits at any point lose no event.
NothingLostButByProduce == produceFailures = 0 => NoEventLost

NumAttempt(e, n) ==
    Cardinality({i \in DOMAIN log["retry"] :
                     log["retry"][i].event = e /\ log["retry"][i].attempt = n})

\* Without faults a retry topic shared by all groups multiplies a failing event
\* by the number of groups at every attempt, and by no more than that: each
\* group replaces a record at most once.
RetryAmplification ==
    faults = 0 =>
        \A e \in Events, n \in 1 .. MaxAttempts :
            NumAttempt(e, n + 1) <=
                Cardinality(Groups) * (IF n = 1 THEN Copies(e) ELSE NumAttempt(e, n))

\* An attempt number is earned and a budget is spent: a group asks for attempt
\* n + 1 only of an event that was handed out under attempt n, and no event is
\* given up as exhausted unless it was retried under every attempt it is due.
AttemptsEarned ==
    /\ \A i \in DOMAIN log["retry"] :
           LET r == log["retry"][i] IN
               IF r.attempt = 2 THEN OnBase(r.event)
               ELSE \E j \in 1 .. i - 1 : log["retry"][j] \in
                        {[r EXCEPT !.attempt = r.attempt - 1, !.by = g] : g \in Groups}
    /\ \A d \in dlq : d.reason = "exhausted" =>
           \A n \in 2 .. MaxAttempts : \E i \in DOMAIN log["retry"] :
               log["retry"][i].event = d.event /\ log["retry"][i].attempt = n

\* While the retry and dead-letter publishes succeed, every group ends up with
\* every published event handled or dead-lettered.
EveryEventSettled ==
    \A g \in Groups, e \in Events :
        OnBase(e) ~> (e \in succeeded[g] \/ e \in Dead(g) \/ produceFailures > 0)

=============================================================================
