---------------------------- MODULE OutboxRelay ----------------------------
(***************************************************************************)
(* The transactional outbox: use cases write one row per event and topic   *)
(* in their own transaction, relays (one per replica of the service) drain *)
(* the rows to Kafka, consumers read the partitions.                       *)
(*                                                                         *)
(* A row's id is drawn when the row is inserted, not when it is committed, *)
(* so transactions commit out of id order; but the transactions of one     *)
(* aggregate come one after the other, because each holds the lock of the  *)
(* aggregate's row (WorkPlanning: the pool's and the unit's) before it     *)
(* writes its events.                                                      *)
(*                                                                         *)
(* Kafka is external: a partition is a log that is read in order.  Any     *)
(* send may fail, or get through and report a failure; a relay may crash   *)
(* at any point, which rolls its pass back.                                *)
(***************************************************************************)
EXTENDS Naturals, Sequences, FiniteSets

CONSTANTS Aggregates,   \* the aggregates that events are about
          Topics,       \* the encoders' topics, in their order
          Optional,     \* the topics whose encoder leaves some events out
          Keying,       \* what each topic's messages are keyed by
          Partitions,   \* partitions of a topic
          HashOf,       \* the partition an aggregate's key maps to
          Relays,
          BatchSize,    \* rows claimed per pass, 100 in the code
          MaxEvents,    \* bound: events published
          MaxFailures   \* bound: failed sends and crashes

TopicSet == {Topics[k] : k \in 1..Len(Topics)}

ASSUME OutboxAssumption ==
    /\ Topics \in Seq(TopicSet)
    /\ Optional \subseteq TopicSet
    /\ Keying \in [TopicSet -> {"event", "aggregate"}]
    /\ HashOf \in [Aggregates -> Partitions]
    /\ BatchSize \in Nat \ {0}
    /\ MaxEvents \in Nat
    /\ MaxFailures \in Nat

VARIABLES outbox,      \* the rows; a row's id is its index
          tx,          \* the encoder an aggregate's open transaction is at, or 0
          pass,        \* each relay's pass: the rows claimed, those marked so
                       \* far, and whether the next one has been sent
          partition,   \* the unread part of each topic's partitions, row ids
          received,    \* the rows that have reached the topic's consumer
          written,     \* the transactions begun
          failures,    \* the failures so far
          overlapped   \* history: two passes have been under way at once

relaying == <<pass, partition, failures, overlapped>>
vars == <<outbox, tx, received, written, relaying>>

RowStates == {"open", "undone", "committed", "published"}
NoPass == [claimed |-> {}, marked |-> {}, sent |-> FALSE]
Ids == DOMAIN outbox

RowsOf(states) == {i \in Ids : outbox[i].state \in states}

Locked == UNION {pass[r].claimed : r \in Relays}

(* The type invariant; what a relay has claimed is committed, unpublished  *)
(* and its alone.                                                          *)
TypeOK ==
    /\ outbox \in Seq([aggregate : Aggregates, topic : TopicSet, place : Partitions,
                       state : RowStates, sends : Nat, failed : BOOLEAN])
    /\ tx \in [Aggregates -> 0..(Len(Topics) + 1)]
    /\ pass \in [Relays -> [claimed : SUBSET RowsOf({"committed"}),
                            marked : SUBSET RowsOf({"committed"}), sent : BOOLEAN]]
    /\ \A r \in Relays : pass[r].marked \subseteq pass[r].claimed
    /\ \A r, s \in Relays : r # s => pass[r].claimed \cap pass[s].claimed = {}
    /\ partition \in [TopicSet -> [Partitions -> Seq(Ids)]]
    /\ received \subseteq Ids
    /\ written \in 0..MaxEvents
    /\ failures \in 0..MaxFailures
    /\ overlapped \in BOOLEAN

Init ==
    /\ outbox = <<>>
    /\ tx = [a \in Aggregates |-> 0]
    /\ pass = [r \in Relays |-> NoPass]
    /\ partition = [t \in TopicSet |-> [p \in Partitions |-> <<>>]]
    /\ received = {}
    /\ written = 0
    /\ failures = 0
    /\ overlapped = FALSE

-----------------------------------------------------------------------------
(* Writers: a use case's transaction, from its first lock to its end. *)

Begin(a) ==
    /\ tx[a] = 0
    /\ written < MaxEvents
    /\ tx' = [tx EXCEPT ![a] = 1]
    /\ written' = written + 1
    /\ UNCHANGED <<outbox, received, relaying>>

(* Where a message of topic t about a goes: kafka-go hashes the key. *)
Placements(a, t) == IF Keying[t] = "aggregate" THEN {HashOf[a]} ELSE Partitions

NewRow(a, t, p) ==
    [aggregate |-> a, topic |-> t, place |-> p, state |-> "open", sends |-> 0, failed |-> FALSE]

(* The next encoder's row is inserted, unless the encoder has none.        *)
Publish(a) ==
    /\ tx[a] \in 1..Len(Topics)
    /\ LET t == Topics[tx[a]]
       IN  \/ \E p \in Placements(a, t) : outbox' = Append(outbox, NewRow(a, t, p))
           \/ t \in Optional /\ UNCHANGED outbox
    /\ tx' = [tx EXCEPT ![a] = @ + 1]
    /\ UNCHANGED <<received, written, relaying>>

(* The outbox once a's open rows are all in the given state. *)
Ended(a, state) ==
    [i \in Ids |-> IF outbox[i].state = "open" /\ outbox[i].aggregate = a
                   THEN [outbox[i] EXCEPT !.state = state] ELSE outbox[i]]

EndTx(a, state) ==
    /\ outbox' = Ended(a, state)
    /\ tx' = [tx EXCEPT ![a] = 0]
    /\ UNCHANGED <<received, written, relaying>>

Commit(a)   == tx[a] = Len(Topics) + 1 /\ EndTx(a, "committed")
Rollback(a) == tx[a] # 0 /\ EndTx(a, "undone")

-----------------------------------------------------------------------------
(* Relays *)

Least(S) == CHOOSE i \in S : \A j \in S : i <= j

(* The rows of a pass that it has not marked yet. *)
Left(r) == pass[r].claimed \ pass[r].marked

Idle(r) == pass[r] = NoPass

(* The BatchSize oldest of the rows, or all of them. *)
IsBatch(S, rows) ==
    /\ S \subseteq rows /\ S # {}
    /\ Cardinality(S) = BatchSize \/ (S = rows /\ Cardinality(S) < BatchSize)
    /\ \A i \in S : \A j \in rows \ S : i < j

(* Mutated ClaimOutboxRows: no FOR UPDATE SKIP LOCKED. *)
ClaimUnlocked(r) ==
    /\ Idle(r)
    /\ \E S \in SUBSET RowsOf({"committed"}) :
          /\ IsBatch(S, RowsOf({"committed"}))
          /\ pass' = [pass EXCEPT ![r].claimed = S]
    /\ overlapped' = (overlapped \/ \E s \in Relays : ~Idle(s))
    /\ UNCHANGED <<outbox, tx, partition, received, written, failures>>

(* Mutated ClaimOutboxRows: claims what comes after the last published id. *)
ClaimAfterLast(r) ==
    /\ Idle(r)
    /\ LET free == {i \in RowsOf({"committed"}) \ Locked :
                       \A j \in RowsOf({"published"}) : j < i}
       IN  \E S \in SUBSET free : IsBatch(S, free) /\ pass' = [pass EXCEPT ![r].claimed = S]
    /\ overlapped' = (overlapped \/ \E s \in Relays : ~Idle(s))
    /\ UNCHANGED <<outbox, tx, partition, received, written, failures>>

(* claimOutboxRows: oldest unpublished rows, skipping the locked ones.  A  *)
(* pass that finds nothing changes nothing.                                *)
ClaimOutboxRows(r) ==
    /\ Idle(r)
    /\ LET free == RowsOf({"committed"}) \ Locked
       IN  \E S \in SUBSET free : IsBatch(S, free) /\ pass' = [pass EXCEPT ![r].claimed = S]
    /\ overlapped' = (overlapped \/ \E s \in Relays : ~Idle(s))
    /\ UNCHANGED <<outbox, tx, partition, received, written, failures>>

Fail == failures < MaxFailures /\ failures' = failures + 1

(* Row i's message is appended to its partition n times. *)
Deliver(i, n) ==
    partition' = [partition EXCEPT ![outbox[i].topic][outbox[i].place] = @ \o [k \in 1..n |-> i]]

(* Mutated Send: RequiredAcks is kafka-go's default, RequireNone, and a    *)
(* message that was lost counts as sent.                                   *)
SendUnacknowledged(r) ==
    /\ Left(r) # {} /\ ~pass[r].sent
    /\ \/ /\ Deliver(Least(Left(r)), 1)
          /\ outbox' = [outbox EXCEPT ![Least(Left(r))].sends = @ + 1]
          /\ UNCHANGED failures
       \/ Fail /\ UNCHANGED <<outbox, partition>>
    /\ pass' = [pass EXCEPT ![r].sent = TRUE]
    /\ UNCHANGED <<tx, received, written, overlapped>>

(* The broker has acknowledged the message: at the first attempt, or at    *)
(* the writer's own second one when only the acknowledgement was lost.     *)
Send(r) ==
    /\ Left(r) # {} /\ ~pass[r].sent
    /\ \E n \in 1..2 :
          /\ (n = 1 /\ UNCHANGED failures) \/ (n = 2 /\ Fail)
          /\ Deliver(Least(Left(r)), n)
          /\ outbox' = [outbox EXCEPT ![Least(Left(r))].sends = @ + n]
    /\ pass' = [pass EXCEPT ![r].sent = TRUE]
    /\ UNCHANGED <<tx, received, written, overlapped>>

(* The UPDATE of the row just sent; nobody sees it before the commit. *)
Mark(r) ==
    /\ pass[r].sent
    /\ pass' = [pass EXCEPT ![r].marked = @ \cup {Least(Left(r))}, ![r].sent = FALSE]
    /\ UNCHANGED <<outbox, tx, partition, received, written, failures, overlapped>>

(* The outbox, once the rows in done are published. *)
Published(done) ==
    [i \in Ids |-> IF i \in done THEN [outbox[i] EXCEPT !.state = "published", !.failed = FALSE]
                   ELSE outbox[i]]

EndPass(r) == pass' = [pass EXCEPT ![r] = NoPass]

CommitPass(r) ==
    /\ ~Idle(r) /\ Left(r) = {}
    /\ outbox' = Published(pass[r].marked)
    /\ EndPass(r)
    /\ UNCHANGED <<tx, partition, received, written, failures, overlapped>>

(* Mutated AbortSend: the pass goes on with the row after the failed one. *)
AbortSendGoOn(r) ==
    /\ Left(r) # {} /\ ~pass[r].sent
    /\ Fail
    /\ pass' = [pass EXCEPT ![r].claimed = @ \ {Least(Left(r))}]
    /\ UNCHANGED <<outbox, tx, partition, received, written, overlapped>>

(* publishBatch stops at the first send that reports a failure; abortSend  *)
(* notes it on the row and commits what was marked before.  The send may   *)
(* have got through all the same.                                          *)
AbortSend(r) ==
    /\ Left(r) # {} /\ ~pass[r].sent
    /\ Fail
    /\ LET i == Least(Left(r))
           noted == [Published(pass[r].marked) EXCEPT ![i].failed = TRUE]
       IN  \/ outbox' = noted /\ UNCHANGED partition
           \/ outbox' = [noted EXCEPT ![i].sends = @ + 1] /\ Deliver(i, 1)
    /\ EndPass(r)
    /\ UNCHANGED <<tx, received, written, overlapped>>

(* The process dies or is shut down, or a statement of the pass or its     *)
(* commit fails: Postgres rolls the pass back.                             *)
RollBackPass(r) ==
    /\ ~Idle(r)
    /\ Fail
    /\ EndPass(r)
    /\ UNCHANGED <<outbox, tx, partition, received, written, overlapped>>

-----------------------------------------------------------------------------
(* A consumer of topic t takes the next message of partition p. *)
Receive(t, p) ==
    /\ partition[t][p] # <<>>
    /\ received' = received \cup {Head(partition[t][p])}
    /\ partition' = [partition EXCEPT ![t][p] = Tail(@)]
    /\ UNCHANGED <<outbox, tx, pass, written, failures, overlapped>>

WriterStep(a) == Begin(a) \/ Publish(a) \/ Commit(a) \/ Rollback(a)

(* What a relay does while it is running. *)
RelayOnce(r) == ClaimOutboxRows(r) \/ Send(r) \/ Mark(r) \/ CommitPass(r)

Next ==
    \/ \E a \in Aggregates : WriterStep(a)
    \/ \E r \in Relays : RelayOnce(r) \/ AbortSend(r) \/ RollBackPass(r)
    \/ \E t \in TopicSet : \E p \in Partitions : Receive(t, p)

Spec == Init /\ [][Next]_vars

(* Run's loop never ends and Kafka is up again some day: failures end.     *)
FairSpec ==
    /\ Spec
    /\ \A r \in Relays : WF_vars(RelayOnce(r))
    /\ \A t \in TopicSet : \A p \in Partitions : WF_vars(Receive(t, p))

-----------------------------------------------------------------------------
(* Properties *)

(* Consumers only ever hear of what the database committed, no event of a  *)
(* transaction that was rolled back or is not over yet; and a row is only  *)
(* given up on once it has been sent.                                      *)
NeitherEarlyNorLost ==
    \A i \in Ids :
        /\ outbox[i].sends > 0 => outbox[i].state \in {"committed", "published"}
        /\ outbox[i].state = "published" => outbox[i].sends > 0

(* At-least-once, and more than once only because of a failure: however    *)
(* many relays run, they never send a row twice by themselves.             *)
DuplicatesNeedFailure ==
    \A i \in Ids : outbox[i].sends <= 1 + failures

(* Row j was written before row i, about the same aggregate, for topic t,  *)
(* and its transaction was not rolled back.                                *)
Precedes(t, j, i) ==
    /\ j < i
    /\ outbox[i].topic = t /\ outbox[j].topic = t
    /\ outbox[j].aggregate = outbox[i].aggregate
    /\ outbox[j].state # "undone"

(* The consumer of t first sees each aggregate's events in the order the   *)
(* transactions wrote them.                                                *)
InOrder(t) == \A i \in received, j \in Ids : Precedes(t, j, i) => j \in received

(* As long as passes do not overlap, whoever makes them, failures and      *)
(* takeovers do not reorder the events of an aggregate on a topic keyed by *)
(* the aggregate.                                                          *)
OrderWithoutOverlap ==
    ~overlapped => \A t \in TopicSet : Keying[t] = "aggregate" => InOrder(t)

(* "a later message for the same aggregate must not overtake a failed      *)
(* earlier one" (RelayOnce, outbox_relay.go:102-103), whoever relays it.   *)
NoOvertaking ==
    \A t \in TopicSet : \A i \in received, j \in Ids :
        Precedes(t, j, i) /\ outbox[j].failed => j \in received

(* Consumers see an aggregate's events in the order they were produced     *)
(* (ADR 0024, for every topic of this service).                            *)
PerAggregateOrder == \A t \in TopicSet : InOrder(t)

(* Every committed event reaches the consumer and leaves the outbox.       *)
EveryEventDelivered ==
    \A i \in 1..(MaxEvents * Len(Topics)) :
        (i \in Ids /\ outbox[i].state = "committed")
            ~> (i \in received /\ outbox[i].state = "published")
=============================================================================
