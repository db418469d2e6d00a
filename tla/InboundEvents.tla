--------------------------- MODULE InboundEvents ---------------------------
(***************************************************************************)
(* The consumer of integration events: per topic, a loop that fetches a    *)
(* message, handles it in one transaction (the processed-event mark and    *)
(* the effect), retries, dead-letters what keeps failing, and commits the  *)
(* offset.  Replicas run the same loops in one consumer group.             *)
(*                                                                         *)
(* The effect of an event is a list of writes, each to one row that the    *)
(* transaction then keeps locked: a path's pool for an order's lines or a  *)
(* completion, a view's row for a labour plan or a stock change.  A pool's *)
(* optimistic save (WorkPlanning) waits for the row's lock, loses, and     *)
(* reads again in the same transaction: one step here.                     *)
(*                                                                         *)
(* Kafka and Postgres are external: the group hands partitions over while  *)
(* a message is being handled, and Postgres breaks a circle of waiting     *)
(* transactions by failing one.  Any call may fail, or get through and     *)
(* report a failure; a process may die at any point.  A shutdown cancels   *)
(* the loop's context and leaves the group; nothing waits for the message  *)
(* that the loop has in hand.                                              *)
(***************************************************************************)
EXTENDS Naturals, Sequences, FiniteSets

CONSTANTS Events,       \* event ids
          Partitions,
          NoPartition,
          Log,          \* the messages of each partition: event ids; an event
                        \* that its producer sent twice is there twice
          Kind,         \* what becomes of each event when it is handled
          Rows,         \* the rows written: path pools and views' rows
          Pools,        \* those that are pools
          Items,        \* the work units and changes written to them
          Writes,       \* the writes of each event, in order
          Loops,        \* the replicas' consume loops
          MaxAttempts,  \* maxHandlerAttempts, 3 in the code
          MaxFailures,  \* bound: failed calls, crashes and shutdowns
          MaxHandovers  \* bound: rebalances without a dead member

Kinds == {"malformed",  \* not a CloudEvent
          "foreign",    \* of a type that the topic's handler ignores
          "rejected",   \* its handling always fails: an unknown path, a unit
                        \* already completed
          "handled"}    \* an unknown unit's completion has no writes

ASSUME InboundAssumption ==
    /\ NoPartition \notin Partitions
    /\ Log \in [Partitions -> Seq(Events)]
    /\ Kind \in [Events -> Kinds]
    /\ Pools \subseteq Rows
    /\ Writes \in [Events -> Seq([row : Rows, item : Items])]
    /\ MaxAttempts \in Nat \ {0}
    /\ MaxFailures \in Nat
    /\ MaxHandovers \in Nat

VARIABLES marks,       \* the processed_events rows
          stored,      \* what each row holds, in the order it was written
          loop,        \* what each loop is at
          owner,       \* the loop each partition is assigned to
          position,    \* the messages its owner has fetched
          committed,   \* the group's committed offset
          dead,        \* the messages handed to the dead-letter topic
          kept,        \* those that the topic holds
          cancelled,   \* the loops whose process is shutting down
          failures,    \* history: failures and shutdowns so far
          attempts,    \* history: attempts that failed, other than by rejection
                       \* or under a cancelled context
          handovers,   \* history: rebalances without a dead member
          interrupted  \* history: messages in hand when their loop was cancelled

database == <<marks, stored>>
group    == <<owner, position, committed>>
topic    == <<dead, kept>>
faults   == <<cancelled, failures, attempts, handovers, interrupted>>
vars     == <<database, loop, group, topic, faults>>

Labels == {"idle", "begin", "apply", "deadletter", "commit", "stopped", "down"}

Nothing == [r \in Rows |-> <<>>]

NotInMessage(label) ==
    [at |-> label, part |-> NoPartition, off |-> 0, tries |-> 0, next |-> 1,
     staged |-> Nothing]

EventAt(p, i) == Log[p][i]
EventOf(l) == EventAt(loop[l].part, loop[l].off)
MessageOf(l) == <<loop[l].part, loop[l].off>>

Handling(l) == loop[l].at \notin {"idle", "stopped", "down"}

(* The type invariant; a loop that is handling a message knows which, only *)
(* a transaction under way has written anything, and a loop whose context  *)
(* is cancelled waits for no other message.                                *)
TypeOK ==
    /\ marks \subseteq Events
    /\ stored \in [Rows -> Seq(Items)]
    /\ loop \in [Loops -> [at : Labels, part : Partitions \cup {NoPartition},
                           off : Nat, tries : 0..MaxAttempts, next : Nat \ {0},
                           staged : [Rows -> Seq(Items)]]]
    /\ \A l \in Loops :
          IF Handling(l)
          THEN /\ loop[l].part \in Partitions
               /\ loop[l].off \in DOMAIN Log[loop[l].part]
               /\ loop[l].at # "apply" => loop[l].staged = Nothing
          ELSE loop[l] = NotInMessage(loop[l].at)
    /\ owner \in [Partitions -> Loops]
    /\ position \in [Partitions -> Nat]
    /\ committed \in [Partitions -> Nat]
    /\ \A p \in Partitions : position[p] <= Len(Log[p]) /\ committed[p] <= Len(Log[p])
    /\ dead \subseteq {m \in Partitions \X Nat : m[2] \in DOMAIN Log[m[1]]}
    /\ kept \subseteq dead
    /\ cancelled \subseteq {l \in Loops : Handling(l) \/ loop[l].at = "down"}
    /\ failures \in 0..MaxFailures
    /\ attempts \in 0..MaxAttempts
    /\ handovers \in 0..MaxHandovers
    /\ interrupted \subseteq {m \in Partitions \X Nat : m[2] \in DOMAIN Log[m[1]]}

Init ==
    /\ marks = {}
    /\ stored = Nothing
    /\ loop = [l \in Loops |-> NotInMessage("idle")]
    /\ owner \in [Partitions -> Loops]
    /\ position = [p \in Partitions |-> 0]
    /\ committed = [p \in Partitions |-> 0]
    /\ dead = {}
    /\ kept = {}
    /\ cancelled = {}
    /\ failures = 0
    /\ attempts = 0
    /\ handovers = 0
    /\ interrupted = {}

Fail ==
    /\ failures < MaxFailures
    /\ failures' = failures + 1
    /\ UNCHANGED <<cancelled, handovers, interrupted>>

(* What a loop does under a cancelled context fails without using up the   *)
(* bound, and is no attempt that was given to the event.  Attempts are     *)
(* counted up to MaxAttempts.                                              *)
MayFail(l) ==
    IF l \in cancelled THEN UNCHANGED <<cancelled, failures, handovers, interrupted>> ELSE Fail

CountAttempt(l) ==
    attempts' = IF l \in cancelled \/ attempts = MaxAttempts THEN attempts ELSE attempts + 1

-----------------------------------------------------------------------------
(* Fetch and dispatch *)

Goto(l, label) == loop' = [loop EXCEPT ![l].at = label]

(* Undecodable messages go straight to the dead letters, foreign events to *)
(* the offset commit.                                                      *)
Dispatch(e) ==
    CASE Kind[e] = "malformed" -> "deadletter"
      [] Kind[e] = "foreign"   -> "commit"
      [] OTHER                 -> "begin"

Fetch(l, p) ==
    /\ loop[l].at = "idle"
    /\ owner[p] = l
    /\ position[p] < Len(Log[p])
    /\ position' = [position EXCEPT ![p] = @ + 1]
    /\ loop' = [loop EXCEPT ![l].at = Dispatch(EventAt(p, position[p] + 1)),
                            ![l].part = p,
                            ![l].off = position[p] + 1]
    /\ UNCHANGED <<database, owner, committed, topic, faults>>

-----------------------------------------------------------------------------
(* One attempt: the mark and the effect, in one transaction *)

(* The transactions that have inserted the event's mark, or written the    *)
(* row, and have not ended.                                                *)
MarkHolders(e) == {l \in Loops : loop[l].at = "apply" /\ EventOf(l) = e}
RowHolders(r) == {l \in Loops : loop[l].staged[r] # <<>>}

(* After a failed attempt comes the next one, after the last one the dead  *)
(* letters.  A cancelled context ends the retries (backoff.WithContext),   *)
(* whatever attempts are left.                                             *)
AfterFailure(l) ==
    IF loop[l].tries + 1 < MaxAttempts /\ l \notin cancelled THEN "begin" ELSE "deadletter"

(* Mutated Retry: one attempt short.                                       *)
RetryShort(l) ==
    LET tried == loop[l].tries + 1
    IN  loop' = [loop EXCEPT
                   ![l].at = IF tried + 1 < MaxAttempts THEN "begin" ELSE "deadletter",
                   ![l].tries = tried,
                   ![l].next = 1,
                   ![l].staged = Nothing]

(* Mutated Retry: attempts are not limited.                                *)
RetryForever(l) ==
    loop' = [loop EXCEPT ![l].at = "begin", ![l].next = 1, ![l].staged = Nothing]

(* Mutated Retry: what the attempt wrote is not rolled back.               *)
RetryUnrolled(l) ==
    loop' = [loop EXCEPT ![l].at = AfterFailure(l), ![l].tries = @ + 1, ![l].next = 1]

(* The attempt failed and its transaction is rolled back.                  *)
Retry(l) ==
    loop' = [loop EXCEPT ![l].at = AfterFailure(l),
                         ![l].tries = @ + 1,
                         ![l].next = 1,
                         ![l].staged = Nothing]

(* Mutated Mark: the mark is committed first, by itself.                   *)
MarkFirst(l) ==
    /\ loop[l].at = "begin" /\ l \notin cancelled
    /\ Goto(l, IF EventOf(l) \in marks THEN "commit" ELSE "apply")
    /\ marks' = marks \cup {EventOf(l)}
    /\ UNCHANGED <<stored, group, topic, faults>>

(* Mutated Mark: that the mark was there already is not looked at.         *)
MarkUnread(l) ==
    /\ loop[l].at = "begin" /\ l \notin cancelled
    /\ MarkHolders(EventOf(l)) = {}
    /\ Goto(l, "apply")
    /\ UNCHANGED <<database, group, topic, faults>>

(* TryMarkProcessed: the insert waits for a transaction that has inserted  *)
(* the same mark.  A mark that is there means a redelivery.  Under a       *)
(* cancelled context no statement is sent any more.                        *)
Mark(l) ==
    /\ loop[l].at = "begin" /\ l \notin cancelled
    /\ MarkHolders(EventOf(l)) = {}
    /\ Goto(l, IF EventOf(l) \in marks THEN "commit" ELSE "apply")
    /\ UNCHANGED <<database, group, topic, faults>>

Reject(l) ==
    /\ loop[l].at = "apply"
    /\ Kind[EventOf(l)] = "rejected"
    /\ Retry(l)
    /\ UNCHANGED <<database, group, topic, faults>>

Writing(l) ==
    /\ loop[l].at = "apply"
    /\ Kind[EventOf(l)] = "handled"
    /\ loop[l].next <= Len(Writes[EventOf(l)])

NextWrite(l) == Writes[EventOf(l)][loop[l].next]

(* ErrDuplicateEntry, skipped: the work unit is in the pool already.       *)
IsDuplicate(l) ==
    LET w == NextWrite(l)
        found(s) == \E i \in DOMAIN s : s[i] = w.item
    IN  /\ w.row \in Pools
        /\ found(stored[w.row]) \/ found(loop[l].staged[w.row])

SkipDuplicate(l) ==
    /\ Writing(l) /\ l \notin cancelled
    /\ IsDuplicate(l)
    /\ loop' = [loop EXCEPT ![l].next = @ + 1]
    /\ UNCHANGED <<database, group, topic, faults>>

Write(l) ==
    /\ Writing(l) /\ l \notin cancelled
    /\ ~IsDuplicate(l)
    /\ RowHolders(NextWrite(l).row) \subseteq {l}
    /\ loop' = [loop EXCEPT ![l].next = @ + 1,
                            ![l].staged[NextWrite(l).row] = Append(@, NextWrite(l).item)]
    /\ UNCHANGED <<database, group, topic, faults>>

(* The transaction commits: the mark and all the writes at once. *)
CommitEffect(l) ==
    /\ loop[l].at = "apply"
    /\ Kind[EventOf(l)] = "handled"
    /\ loop[l].next > Len(Writes[EventOf(l)])
    /\ marks' = marks \cup {EventOf(l)}
    /\ stored' = [r \in Rows |-> stored[r] \o loop[l].staged[r]]
    /\ UNCHANGED <<group, topic>>

CommitTx(l) ==
    /\ CommitEffect(l) /\ l \notin cancelled
    /\ loop' = [loop EXCEPT ![l].at = "commit", ![l].next = 1, ![l].staged = Nothing]
    /\ UNCHANGED faults

(* The commit gets through but its answer does not, or comes after the     *)
(* context has been cancelled: a failed attempt.                           *)
LoseAnswer(l) ==
    /\ CommitEffect(l)
    /\ Retry(l)
    /\ MayFail(l)
    /\ CountAttempt(l)

(* A statement fails; or, under a cancelled context, the wait for the next *)
(* attempt ends without one.                                               *)
FailAttempt(l) ==
    /\ loop[l].at \in {"begin", "apply"}
    /\ Retry(l)
    /\ MayFail(l)
    /\ CountAttempt(l)
    /\ UNCHANGED <<database, group, topic>>

(* Under a cancelled context the attempt fails sooner or later. *)
GiveUp(l) == l \in cancelled /\ FailAttempt(l)

(* The transactions that hold what the loop's next write needs. *)
WaitsFor(l) ==
    IF Writing(l) /\ ~IsDuplicate(l) THEN RowHolders(NextWrite(l).row) \ {l} ELSE {}

(* Each waits for one other at most, so such a set is made of circles.     *)
InCircle(l) ==
    \E S \in SUBSET Loops :
        /\ l \in S
        /\ \A k \in S : WaitsFor(k) \cap S # {}
        /\ \A k \in S : \E j \in S : k \in WaitsFor(j)

BreakDeadlock(l) ==
    /\ InCircle(l)
    /\ Retry(l)
    /\ CountAttempt(l)
    /\ UNCHANGED <<database, group, topic, cancelled, failures, handovers, interrupted>>

-----------------------------------------------------------------------------
(* Dead letter and offset *)

(* Mutated DeadLetter: the offset is committed whether it was written or not. *)
DeadLetterBestEffort(l) ==
    /\ loop[l].at = "deadletter"
    /\ \/ dead' = dead \cup {MessageOf(l)} /\ kept' = kept \cup {MessageOf(l)} /\ UNCHANGED faults
       \/ UNCHANGED <<topic, attempts>> /\ Fail
    /\ Goto(l, "commit")
    /\ UNCHANGED <<database, group>>

(* The writer does not ask the broker for an acknowledgement (RequiredAcks *)
(* is not set): what it reports as written need not be in the topic.       *)
DeadLetter(l) ==
    /\ loop[l].at = "deadletter"
    /\ dead' = dead \cup {MessageOf(l)}
    /\ \/ kept' = kept \cup {MessageOf(l)} /\ UNCHANGED faults
       \/ UNCHANGED <<kept, attempts>> /\ Fail
    /\ Goto(l, "commit")
    /\ UNCHANGED <<database, group>>

(* The next fetch finds a cancelled context, and the loop returns. *)
CommitOffset(l) ==
    /\ loop[l].at = "commit"
    /\ committed' = [committed EXCEPT ![loop[l].part] = loop[l].off]
    /\ loop' = [loop EXCEPT ![l] = NotInMessage(IF l \in cancelled THEN "down" ELSE "idle")]
    /\ UNCHANGED <<database, owner, position, topic, faults>>

(* A fetch that fails, a dead letter or an offset that cannot be written   *)
(* ends the loop; what failed may have got through.  The process goes on   *)
(* without the loop, unless it was shutting down.                          *)
StopLoop(l) ==
    /\ \/ /\ loop[l].at = "idle"
          /\ UNCHANGED <<topic, committed>>
       \/ /\ loop[l].at = "deadletter"
          /\ \/ UNCHANGED topic
             \/ /\ dead' = dead \cup {MessageOf(l)}
                /\ kept' = kept \cup {MessageOf(l)}
          /\ UNCHANGED committed
       \/ /\ loop[l].at = "commit"
          /\ \/ UNCHANGED committed
             \/ committed' = [committed EXCEPT ![loop[l].part] = loop[l].off]
          /\ UNCHANGED topic
    /\ MayFail(l)
    /\ loop' = [loop EXCEPT ![l] = NotInMessage(IF l \in cancelled THEN "down" ELSE "stopped")]
    /\ UNCHANGED <<database, owner, position, attempts>>

-----------------------------------------------------------------------------
(* Processes and the group *)

(* The process dies, or has shut down and does not wait for its loop; a    *)
(* transaction is rolled back.                                             *)
Crash(l) ==
    /\ loop[l].at # "down"
    /\ MayFail(l)
    /\ loop' = [loop EXCEPT ![l] = NotInMessage("down")]
    /\ UNCHANGED <<database, group, topic, attempts>>

(* SIGTERM: the consumer's context is cancelled.  A loop that waits for a  *)
(* message returns at once, and so does the process of one that has        *)
(* stopped; one that handles a message goes on under the cancelled context.*)
Shutdown(l) ==
    /\ loop[l].at # "down" /\ l \notin cancelled
    /\ failures < MaxFailures
    /\ failures' = failures + 1
    /\ cancelled' = cancelled \cup {l}
    /\ \/ /\ Handling(l)
          /\ interrupted' = interrupted \cup {MessageOf(l)}
          /\ UNCHANGED loop
       \/ /\ ~Handling(l)
          /\ loop' = [loop EXCEPT ![l] = NotInMessage("down")]
          /\ UNCHANGED interrupted
    /\ UNCHANGED <<database, group, topic, attempts, handovers>>

(* A partition that is still the loop's is read from the committed offset. *)
Restart(l) ==
    /\ loop[l].at = "down"
    /\ loop' = [loop EXCEPT ![l] = NotInMessage("idle")]
    /\ position' = [p \in Partitions |-> IF owner[p] = l THEN committed[p] ELSE position[p]]
    /\ cancelled' = cancelled \ {l}
    /\ UNCHANGED <<database, owner, committed, topic, failures, attempts, handovers, interrupted>>

(* The shutdown closes the readers as soon as it has cancelled them. *)
Members == {l \in Loops : loop[l].at # "down"} \ cancelled

(* A rebalance reads every partition from its committed offset again.  The *)
(* loop that was handling a message of a partition goes on handling it,    *)
(* although another may own the partition now.  A loop that has stopped is *)
(* still a member: its reader is open.                                     *)
Assign(f) ==
    /\ owner' = f
    /\ position' = committed
    /\ UNCHANGED <<database, loop, committed, topic>>

Rebalance(f) ==
    /\ handovers < MaxHandovers
    /\ handovers' = handovers + 1
    /\ Assign(f)
    /\ UNCHANGED <<cancelled, failures, attempts, interrupted>>

TakeOver(f) ==
    /\ \E p \in Partitions : owner[p] \notin Members
    /\ Assign(f)
    /\ UNCHANGED faults

-----------------------------------------------------------------------------
Handle(l) ==
    \/ \E p \in Partitions : Fetch(l, p)
    \/ Mark(l) \/ Reject(l) \/ SkipDuplicate(l) \/ Write(l) \/ CommitTx(l)
    \/ BreakDeadlock(l) \/ DeadLetter(l) \/ CommitOffset(l)

TakeOverAny == \E f \in [Partitions -> Members] : TakeOver(f)

Next ==
    \/ \E l \in Loops : \/ Handle(l) \/ Restart(l)
                        \/ LoseAnswer(l) \/ FailAttempt(l) \/ StopLoop(l)
                        \/ Crash(l) \/ Shutdown(l)
    \/ \E f \in [Partitions -> Members] : Rebalance(f)
    \/ TakeOverAny

Spec == Init /\ [][Next]_vars

(* Loops run, waits end, a dead process is restarted and the group takes   *)
(* over its partitions.  Nothing restarts a loop that has stopped.         *)
FairSpec ==
    /\ Spec
    /\ \A l \in Loops : WF_vars(Handle(l)) /\ WF_vars(GiveUp(l)) /\ WF_vars(Restart(l))
    /\ WF_vars(TakeOverAny)

-----------------------------------------------------------------------------
(* Properties *)

Inbox == INSTANCE EventInbox
            WITH applied <- marks, Handled <- {e \in Events : Kind[e] = "handled"}

(* onceAtomically: whatever is retried, redelivered, handled by two loops  *)
(* at once, rolled back or committed without an answer, an event takes     *)
(* effect at most once, as a whole, and its mark says whether it has.      *)
ImplementsInbox == Inbox!Spec

Settled(p, i) ==
    \/ EventAt(p, i) \in marks
    \/ Kind[EventAt(p, i)] = "foreign"
    \/ <<p, i>> \in dead

(* The group's offset passes a message only when its event has taken       *)
(* effect, was not meant for this service, or was handed to the dead       *)
(* letters (handleMessage), also when two loops commit offsets.            *)
NothingSkipped ==
    \A p \in Partitions : \A i \in 1..committed[p] : Settled(p, i)

(* handleWithRetry: an event that can be handled is dead-lettered only     *)
(* when MaxAttempts attempts have failed, or when a shutdown found it in   *)
(* hand: then one may do.  Failed statements, lost answers, deadlocks,     *)
(* crashes, rebalances, and shutdowns that hit other messages, heal.       *)
BlipsHeal ==
    \A m \in dead : \/ Kind[EventAt(m[1], m[2])] \in {"malformed", "rejected"}
                    \/ attempts = MaxAttempts
                    \/ m \in interrupted

(* Some partition has both events, and a copy of e before any of f.        *)
SentBefore(e, f) ==
    \E p \in Partitions : \E i, k \in DOMAIN Log[p] :
        Log[p][i] = e /\ Log[p][k] = f /\ \A j \in 1..i : Log[p][j] # f

(* Messages are keyed by their event: its copies share a partition.        *)
OneHome ==
    \A p, q \in Partitions : \A i \in DOMAIN Log[p], j \in DOMAIN Log[q] :
        Log[p][i] = Log[q][j] => p = q

(* What a view's row is told apart by: the event that was written to it.   *)
ViewsShowEvents ==
    \A e \in Events : \A i \in DOMAIN Writes[e] :
        Writes[e][i].row \notin Pools => Writes[e][i].item = e

(* A view's changes are made in the order of the log; the last one made is *)
(* what a labour plan's view shows.                                        *)
ViewsFollowLog ==
    \A r \in Rows \ Pools : \A i, j \in DOMAIN stored[r] :
        i < j => ~SentBefore(stored[r][j], stored[r][i])

(* Redelivery, rebalances, crashes, failed attempts and a producer's       *)
(* duplicates never let an older plan replace a newer one, as long as no   *)
(* plan has been dead-lettered.                                            *)
ViewsFollowLogUnlessDeadLettered ==
    (\A m \in dead : Kind[EventAt(m[1], m[2])] # "handled") => ViewsFollowLog

(* The view holds "the latest labor plan Workforce Management reports for  *)
(* a path" (ObserveLaborPlan, observe_labor_plan.go:11-12).                *)
LatestPlanShown == ViewsFollowLog

(* "no message loss" (writeDLQ, consumer.go:545): what the offset has      *)
(* passed has taken effect, is foreign, or is in the dead-letter topic.    *)
NoMessageLost ==
    \A p \in Partitions : \A i \in 1..committed[p] :
        \/ EventAt(p, i) \in marks
        \/ Kind[EventAt(p, i)] = "foreign"
        \/ <<p, i>> \in kept

(* Every message is settled, whoever fails or shuts down, unless a loop    *)
(* stops for good because a fetch, a dead letter or an offset has failed.  *)
EveryMessageSettled ==
    \/ \A p \in Partitions : \A i \in DOMAIN Log[p] : <>Settled(p, i)
    \/ <>(\E l \in Loops : loop[l].at = "stopped")
=============================================================================
