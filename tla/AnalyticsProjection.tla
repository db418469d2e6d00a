------------------------ MODULE AnalyticsProjection ------------------------
(***************************************************************************)
(* The data product: the analytics topic, the projector that counts its    *)
(* events in the analytical database, and the reports read from there.     *)
(*                                                                         *)
(* The projector's offset moves when a message is read, before it is       *)
(* handled; the gate (analytics_consumed_events) is closed in a statement  *)
(* of its own; the claim and the counter are one transaction.  Replicas    *)
(* run during a roll-out, and a shutdown cancels the call under way.       *)
(*                                                                         *)
(* Kafka and Postgres are external, as in InboundEvents.                   *)
(***************************************************************************)
EXTENDS Naturals, Sequences, FiniteSets

CONSTANTS Sent,          \* what the relay sends, in order, copies included: records
                         \* with the fields id, type, unit, path, at, readable
          Partitions,
          NoPartition,
          Hash,          \* the partition of each key
          AnyPath,       \* a report on every path
          HourLength,    \* how many ticks of the clock are an hour
          Horizon,       \* bound: the times a report asks for
          Projectors,    \* the replicas
          MaxFailures,   \* bound: failed calls and crashes
          MaxShutdowns,  \* bound: orderly shutdowns
          MaxHandovers   \* bound: rebalances without a leaving member

UnitEvents == {"WorkUnitCreated", "WorkReleased", "WorkUnitCompleted"}
PathEvents == {"BacklogThresholdBreached", "PathThrottled", "RateDeviationDetected",
               "ChargeForecastReceived", "ShiftPlanCommitted",
               "LaborReassignmentFlagged", "PathCapacityChanged"}

(* The five that the projection counts, each in a counter of its own. *)
Counters == {"WorkReleased", "WorkUnitCompleted", "BacklogThresholdBreached",
             "PathThrottled", "RateDeviationDetected"}

(* The retired envelope, which messages from before CloudEvents have. *)
Flat == "flat"

(* An event outside the analytics contract is not encoded. *)
Encoded(e) == e.type \in UnitEvents \cup PathEvents \cup {Flat}

(* The message key: the aggregate. *)
KeyOf(e) == IF e.type \in UnitEvents THEN e.unit ELSE e.path

(* A partition's messages, in the order they were sent.  The place in Sent  *)
(* stands for the offset: both grow along the partition.  0 is before all. *)
On(p) == {i \in DOMAIN Sent : Encoded(Sent[i]) /\ Hash[KeyOf(Sent[i])] = p}

Messages == {Sent[i] : i \in DOMAIN Sent}

ASSUME AnalyticsAssumption ==
    /\ Sent \in Seq(Messages)
    /\ \A e \in Messages : Encoded(e) => Hash[KeyOf(e)] \in Partitions
    /\ \A e \in Messages : e.at \in Nat \ {0} /\ e.readable \in BOOLEAN
    /\ \A e, f \in Messages : e.id = f.id => e = f
    /\ NoPartition \notin Partitions
    /\ HourLength \in Nat \ {0}
    /\ {MaxFailures, MaxShutdowns, MaxHandovers, Horizon} \subseteq Nat

VARIABLES consumed,   \* analytics_consumed_events
          claimed,    \* analytics_processed_events
          rollup,     \* throughput_rollup
          projector,  \* what each replica is at
          owner,      \* the replica each partition is assigned to
          position,   \* the last message its owner has fetched
          committed,  \* the last message the group has committed
          faults,     \* history: failures, shutdowns and rebalances so far
          cut         \* history: the events whose handling one of them cut short

store == <<consumed, claimed, rollup>>
group == <<owner, position, committed>>
vars  == <<store, projector, group, faults, cut>>

Labels == {"idle", "offset", "mark", "claim", "upsert", "end", "stopped", "down"}

Without(label) == [at |-> label, part |-> NoPartition, off |-> 0]

EventOf(l) == Sent[projector[l].off]
Handling(l) == projector[l].at \notin {"idle", "stopped", "down"}

HourBucket(t) == HourLength * (t \div HourLength)
RowKey(e) == [path |-> e.path, hour |-> HourBucket(e.at)]

(* The type invariant; only a replica that handles a message knows one. *)
TypeOK ==
    /\ consumed \subseteq Messages
    /\ claimed \subseteq Messages
    /\ DOMAIN rollup \subseteq {RowKey(e) : e \in Messages}
    /\ rollup \in [DOMAIN rollup -> [Counters -> Nat]]
    /\ projector \in [Projectors -> [at : Labels, part : Partitions \cup {NoPartition}, off : Nat]]
    /\ \A l \in Projectors :
          IF Handling(l)
          THEN projector[l].part \in Partitions /\ projector[l].off \in On(projector[l].part)
          ELSE projector[l] = Without(projector[l].at)
    /\ owner \in [Partitions -> Projectors]
    /\ position \in [Partitions -> Nat] /\ committed \in [Partitions -> Nat]
    /\ \A p \in Partitions : {position[p], committed[p]} \subseteq {0} \cup On(p)
    /\ faults \in [failures : 0..MaxFailures, shutdowns : 0..MaxShutdowns,
                   handovers : 0..MaxHandovers]
    /\ cut \subseteq Messages

(* A group that has committed no offset starts with the first message. *)
Init ==
    /\ consumed = {}
    /\ claimed = {}
    /\ rollup = [k \in {} |-> 0]
    /\ projector = [l \in Projectors |-> Without("idle")]
    /\ owner \in [Partitions -> Projectors]
    /\ position = [p \in Partitions |-> 0]
    /\ committed = [p \in Partitions |-> 0]
    /\ faults = [failures |-> 0, shutdowns |-> 0, handovers |-> 0]
    /\ cut = {}

Cut(l) == cut' = IF Handling(l) THEN cut \cup {EventOf(l)} ELSE cut

Fail(l) ==
    /\ faults.failures < MaxFailures
    /\ faults' = [faults EXCEPT !.failures = @ + 1]
    /\ Cut(l)

Goto(l, label) ==
    projector' = [projector EXCEPT ![l] =
        IF label \in {"idle", "stopped", "down"} THEN Without(label) ELSE [@ EXCEPT !.at = label]]

-----------------------------------------------------------------------------
(* Reading: the message, then its offset, then its type *)

ReadMessage(l, p) ==
    /\ projector[l].at = "idle"
    /\ owner[p] = l
    /\ \E i \in On(p) :
          /\ i > position[p]
          /\ \A j \in On(p) : j > position[p] => i <= j
          /\ position' = [position EXCEPT ![p] = i]
          /\ projector' = [projector EXCEPT ![l] = [at |-> "offset", part |-> p, off |-> i]]
    /\ UNCHANGED <<store, owner, committed, faults, cut>>

Commit(l) == committed' = [committed EXCEPT ![projector[l].part] = projector[l].off]

(* Mutated CommitOffset: the switch leaves out an event type. *)
CommitOffsetFour(l) ==
    /\ projector[l].at = "offset"
    /\ Commit(l)
    /\ Goto(l, IF EventOf(l).type \in Counters \ {"WorkReleased"} THEN "mark" ELSE "idle")
    /\ UNCHANGED <<store, owner, position, faults, cut>>

(* What is no CloudEvent, or moves no counter, is acknowledged without     *)
(* touching the read model.                                                *)
CommitOffset(l) ==
    /\ projector[l].at = "offset"
    /\ Commit(l)
    /\ Goto(l, IF EventOf(l).type \in Counters THEN "mark" ELSE "idle")
    /\ UNCHANGED <<store, owner, position, faults, cut>>

(* ReadMessage fails, in the fetch or with the offset, and Run returns; the *)
(* process stays, and reports itself healthy.  The offset may have been    *)
(* committed.                                                              *)
StopRun(l) ==
    /\ \/ projector[l].at = "idle" /\ UNCHANGED committed
       \/ projector[l].at = "offset" /\ (Commit(l) \/ UNCHANGED committed)
    /\ Fail(l)
    /\ Goto(l, "stopped")
    /\ UNCHANGED <<store, owner, position>>

-----------------------------------------------------------------------------
(* The gate: one statement, committed by itself *)

(* Data that cannot be decoded is found out only afterwards. *)
MarkProcessed(l) ==
    /\ projector[l].at = "mark"
    /\ consumed' = consumed \cup {EventOf(l)}
    /\ Goto(l, IF EventOf(l) \in consumed \/ ~EventOf(l).readable THEN "idle" ELSE "claim")
    /\ UNCHANGED <<claimed, rollup, group, faults, cut>>

-----------------------------------------------------------------------------
(* The counter: one transaction *)

(* Replicas whose transaction has inserted the event's claim, or written   *)
(* the row, and has not ended.                                             *)
ClaimHolders(e) == {l \in Projectors : projector[l].at \in {"upsert", "end"} /\ EventOf(l) = e}
RowHolders(k) == {l \in Projectors : projector[l].at = "end" /\ RowKey(EventOf(l)) = k}

Claim(l) ==
    /\ projector[l].at = "claim"
    /\ ClaimHolders(EventOf(l)) = {}
    /\ Goto(l, IF EventOf(l) \in claimed THEN "idle" ELSE "upsert")
    /\ UNCHANGED <<store, group, faults, cut>>

(* The upsert locks the row until the transaction ends. *)
Upsert(l) ==
    /\ projector[l].at = "upsert"
    /\ RowHolders(RowKey(EventOf(l))) = {}
    /\ Goto(l, "end")
    /\ UNCHANGED <<store, group, faults, cut>>

(* Mutated UpsertCounter: the bucket is the event's time. *)
UpsertCounterUntruncated(e) ==
    LET key == [path |-> e.path, hour |-> e.at]
    IN  [k \in DOMAIN rollup \cup {key} |->
            [c \in Counters |->
                (IF k \in DOMAIN rollup THEN rollup[k][c] ELSE 0)
                + (IF k = key /\ c = e.type THEN 1 ELSE 0)]]

(* Mutated UpsertCounter: the conflict with a row that is there sets the   *)
(* counter instead of adding to it.                                        *)
UpsertCounterOverwriting(e) ==
    [k \in DOMAIN rollup \cup {RowKey(e)} |->
        [c \in Counters |->
            IF k = RowKey(e) /\ c = e.type THEN 1
            ELSE IF k \in DOMAIN rollup THEN rollup[k][c] ELSE 0]]

(* INSERT ... ON CONFLICT (path_id, hour_bucket) DO UPDATE: the row's      *)
(* counter plus one, from what is committed when the row is locked.        *)
UpsertCounter(e) ==
    [k \in DOMAIN rollup \cup {RowKey(e)} |->
        [c \in Counters |->
            (IF k \in DOMAIN rollup THEN rollup[k][c] ELSE 0)
            + (IF k = RowKey(e) /\ c = e.type THEN 1 ELSE 0)]]

Effect(l) ==
    /\ projector[l].at = "end"
    /\ claimed' = claimed \cup {EventOf(l)}
    /\ rollup' = UpsertCounter(EventOf(l))
    /\ Goto(l, "idle")
    /\ UNCHANGED <<consumed, group>>

CommitTx(l) == Effect(l) /\ UNCHANGED <<faults, cut>>

LoseAnswer(l) == Effect(l) /\ Fail(l)

-----------------------------------------------------------------------------
(* What cuts a handling short *)

(* The statement under way is refused, or done without its answer; a       *)
(* transaction is rolled back.                                             *)
Interrupted(l) ==
    /\ \/ projector[l].at = "mark" /\ consumed' = consumed \cup {EventOf(l)}
       \/ UNCHANGED consumed
    /\ UNCHANGED <<claimed, rollup>>

(* Run logs the error and reads on. *)
FailHandling(l) ==
    /\ projector[l].at \in {"mark", "claim", "upsert", "end"}
    /\ Interrupted(l)
    /\ Fail(l)
    /\ Goto(l, "idle")
    /\ UNCHANGED group

Crash(l) ==
    /\ projector[l].at # "down"
    /\ Interrupted(l)
    /\ Fail(l)
    /\ Goto(l, "down")
    /\ UNCHANGED group

(* SIGTERM: run cancels the consumer's context and does not wait for the   *)
(* handling, whose statements run under it.                                *)
Shutdown(l) ==
    /\ projector[l].at # "down"
    /\ faults.shutdowns < MaxShutdowns
    /\ faults' = [faults EXCEPT !.shutdowns = @ + 1]
    /\ Interrupted(l)
    /\ Cut(l)
    /\ Goto(l, "down")
    /\ UNCHANGED group

-----------------------------------------------------------------------------
(* The group: external *)

Restart(l) ==
    /\ projector[l].at = "down"
    /\ Goto(l, "idle")
    /\ position' = [p \in Partitions |-> IF owner[p] = l THEN committed[p] ELSE position[p]]
    /\ UNCHANGED <<store, owner, committed, faults, cut>>

Members == {l \in Projectors : projector[l].at # "down"}

(* Partitions are read from their committed offsets again, also while the  *)
(* old owner handles a message of theirs.                                  *)
Assign(f) ==
    /\ owner' = f
    /\ position' = committed
    /\ UNCHANGED <<store, projector, committed, cut>>

Rebalance(f) ==
    /\ faults.handovers < MaxHandovers
    /\ faults' = [faults EXCEPT !.handovers = @ + 1]
    /\ Assign(f)

TakeOver(f) ==
    /\ \E p \in Partitions : owner[p] \notin Members
    /\ Assign(f)
    /\ UNCHANGED faults

-----------------------------------------------------------------------------
Handle(l) ==
    \/ \E p \in Partitions : ReadMessage(l, p)
    \/ CommitOffset(l) \/ MarkProcessed(l) \/ Claim(l) \/ Upsert(l) \/ CommitTx(l)

TakeOverAny == \E f \in [Partitions -> Members] : TakeOver(f)

Next ==
    \/ \E l \in Projectors : \/ Handle(l) \/ Restart(l) \/ StopRun(l) \/ LoseAnswer(l)
                             \/ FailHandling(l) \/ Crash(l) \/ Shutdown(l)
    \/ \E f \in [Partitions -> Members] : Rebalance(f)
    \/ TakeOverAny

Spec == Init /\ [][Next]_vars

(* Replicas run, one that is down is started again, the group takes over   *)
(* what it read.  Nothing restarts a consumer whose Run has returned.      *)
FairSpec ==
    /\ Spec
    /\ \A l \in Projectors : WF_vars(Handle(l)) /\ WF_vars(Restart(l))
    /\ WF_vars(TakeOverAny)

-----------------------------------------------------------------------------
(* The reports *)

Query(from, to, path) ==
    {k \in DOMAIN rollup : from <= k.hour /\ k.hour < to /\ (path = AnyPath \/ k.path = path)}

(* The sum of a counter over the rows of a set of keys. *)
Total(keys, c) ==
    LET units == UNION {{<<k, n>> : n \in 1..rollup[k][c]} : k \in keys}
    IN  Cardinality(units)

-----------------------------------------------------------------------------
(* Properties *)

Countable == {e \in Messages : e.type \in Counters /\ e.readable}

Latest == IF claimed = {} THEN 0
          ELSE CHOOSE t \in {e.at : e \in claimed} : \A e \in claimed : e.at <= t

Store == INSTANCE ThroughputStore
            WITH Events <- Countable, seen <- claimed, rows <- rollup, latest <- Latest

(* "exactly once" of the ProjectionStore port: over redeliveries, two      *)
(* gates, replicas and lost answers the database behaves as the in-memory  *)
(* store, which counts an event once.                                      *)
ImplementsStore == Store!Spec

(* At any moment a report whose limits are whole hours (From inclusive, To *)
(* exclusive) shows, for a path or all of them, as many of each event as   *)
(* there are claims with that type, path and time: rows, buckets and       *)
(* claims never part.                                                      *)
ReportsAddUp ==
    \A from, to \in {t \in 0..Horizon : t % HourLength = 0},
       path \in {e.path : e \in Messages} \cup {AnyPath}, c \in Counters :
        Total(Query(from, to, path), c) =
            Cardinality({e \in claimed : /\ e.type = c
                                         /\ from <= e.at /\ e.at < to
                                         /\ path \in {e.path, AnyPath}})

(* "exactly once per CloudEvents id despite Kafka's at-least-once          *)
(* delivery" (AnalyticsConsumer, analytics_consumer.go:45-47): an event    *)
(* that was gated and that nobody handles any more is counted.             *)
ExactlyOnce ==
    \A e \in consumed :
        \/ e \notin Countable
        \/ e \in claimed
        \/ \E l \in Projectors : Handling(l) /\ EventOf(l) = e

(* Every event that can be counted is, unless a fault hit its handling or  *)
(* a consumer stopped for good.                                            *)
EveryEventCounted ==
    \/ \A p \in Partitions : \A i \in On(p) :
          Sent[i] \in Countable => <>(Sent[i] \in claimed \cup cut)
    \/ <>(\E l \in Projectors : projector[l].at = "stopped")
=============================================================================
