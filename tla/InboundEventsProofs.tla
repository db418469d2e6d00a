------------------------ MODULE InboundEventsProofs ------------------------
(***************************************************************************)
(* Proofs about InboundEvents, for any log, effects, number of replicas    *)
(* and partitions, attempts, failures and rebalances.                      *)
(***************************************************************************)
EXTENDS InboundEvents, SequenceTheorems, TLAPS

-----------------------------------------------------------------------------
(* Types *)

Away == {"idle", "stopped", "down"}

LoopStates ==
    [at : Labels, part : Partitions \cup {NoPartition}, off : Nat, tries : 0..MaxAttempts,
     next : Nat \ {0}, staged : [Rows -> Seq(Items)]]

(* A loop between messages has nothing at hand; one that is handling a     *)
(* message knows which, and an attempt is only begun while one is left.    *)
Holds(k) ==
    IF k.at \in Away THEN k = NotInMessage(k.at)
    ELSE /\ k.part \in Partitions
         /\ k.off \in DOMAIN Log[k.part]
         /\ k.at # "apply" => k.staged = Nothing
         /\ k.at \in {"begin", "apply"} => k.tries < MaxAttempts

LoopsOK == loop \in [Loops -> LoopStates] /\ \A l \in Loops : Holds(loop[l])

StoreOK == marks \subseteq Events /\ stored \in [Rows -> Seq(Items)]

Within(offset) == offset \in [Partitions -> Nat] /\ \A p \in Partitions : offset[p] <= Len(Log[p])

GroupOK == owner \in [Partitions -> Loops] /\ Within(position) /\ Within(committed)

LogMessages == {m \in Partitions \X Nat : m[2] \in DOMAIN Log[m[1]]}

TopicOK == dead \subseteq LogMessages /\ kept \subseteq dead

CountsOK ==
    failures \in 0..MaxFailures /\ attempts \in 0..MaxAttempts /\ handovers \in 0..MaxHandovers

(* TypeOK, but for who is cancelled, and that no attempt is made past the  *)
(* last.                                                                   *)
TypeInv == LoopsOK /\ StoreOK /\ GroupOK /\ TopicOK /\ CountsOK

(* The constants that are numbers. *)
LEMMA NumbersAre == MaxAttempts \in Nat \ {0} /\ MaxFailures \in Nat /\ MaxHandovers \in Nat
  BY InboundAssumption

(* The places of a partition, and the events at them. *)
LEMMA LogIs ==
  ASSUME NEW p \in Partitions
  PROVE  /\ Len(Log[p]) \in Nat /\ DOMAIN Log[p] = 1..Len(Log[p])
         /\ \A i \in DOMAIN Log[p] : Log[p][i] \in Events /\ i \in Nat \ {0}
  <1>1. Log[p] \in Seq(Events)
    BY InboundAssumption
  <1> QED BY <1>1, ElementOfSeq

(* A loop that is handling a message has an event. *)
LEMMA EventIs ==
  ASSUME LoopsOK, NEW l \in Loops, loop[l].at \notin Away
  PROVE  /\ loop[l].part \in Partitions /\ loop[l].off \in DOMAIN Log[loop[l].part]
         /\ EventOf(l) \in Events /\ MessageOf(l) \in LogMessages
  <1>1. loop[l].part \in Partitions /\ loop[l].off \in DOMAIN Log[loop[l].part]
    BY DEF LoopsOK, Holds
  <1>2. EventOf(l) \in Events /\ loop[l].off \in Nat
    BY <1>1, LogIs DEF EventOf, EventAt
  <1> QED BY <1>1, <1>2 DEF MessageOf, LogMessages

(* What becomes of loop l: its new state is k. *)
Moved(l, k) == loop' = [loop EXCEPT ![l] = k]

(* The new states of a loop, one for each step it may take. *)
Passed(k, label) == [k EXCEPT !.at = label]
Fetched(k, p, i) == [k EXCEPT !.at = Dispatch(EventAt(p, i)), !.part = p, !.off = i]
Retried(k, label) == [k EXCEPT !.at = label, !.tries = k.tries + 1, !.next = 1,
                               !.staged = Nothing]
Skipped(k)       == [k EXCEPT !.next = @ + 1]
Extended(s, w)   == [s EXCEPT ![w.row] = Append(s[w.row], w.item)]
Written(k, w)    == [k EXCEPT !.next = k.next + 1, !.staged = Extended(k.staged, w)]
Effected(k)      == [k EXCEPT !.at = "commit", !.next = 1, !.staged = Nothing]

(* What each of these leaves as it was. *)
LEMMA FieldsOf ==
  ASSUME NEW k \in LoopStates
  PROVE  /\ \A label : LET n == Passed(k, label)
                       IN  n.at = label /\ n.part = k.part /\ n.off = k.off /\ n.tries = k.tries
                           /\ n.next = k.next /\ n.staged = k.staged
         /\ \A p, i : LET n == Fetched(k, p, i)
                      IN  n.at = Dispatch(EventAt(p, i)) /\ n.part = p /\ n.off = i
                          /\ n.tries = k.tries /\ n.next = k.next /\ n.staged = k.staged
         /\ \A label : LET n == Retried(k, label)
                       IN  n.at = label /\ n.part = k.part /\ n.off = k.off
                           /\ n.tries = k.tries + 1 /\ n.next = 1 /\ n.staged = Nothing
         /\ LET n == Skipped(k)
            IN  n.at = k.at /\ n.part = k.part /\ n.off = k.off /\ n.tries = k.tries
                /\ n.next = k.next + 1 /\ n.staged = k.staged
         /\ \A w : LET n == Written(k, w)
                   IN  n.at = k.at /\ n.part = k.part /\ n.off = k.off /\ n.tries = k.tries
                       /\ n.next = k.next + 1
                       /\ n.staged = Extended(k.staged, w)
         /\ LET n == Effected(k)
            IN  n.at = "commit" /\ n.part = k.part /\ n.off = k.off /\ n.tries = k.tries
                /\ n.next = 1 /\ n.staged = Nothing
  <1> USE DEF LoopStates
  <1>1. \A label : LET n == Passed(k, label)
                   IN  n.at = label /\ n.part = k.part /\ n.off = k.off /\ n.tries = k.tries
                       /\ n.next = k.next /\ n.staged = k.staged
    BY DEF Passed
  <1>2. \A p, i : LET n == Fetched(k, p, i)
                  IN  n.at = Dispatch(EventAt(p, i)) /\ n.part = p /\ n.off = i
                      /\ n.tries = k.tries /\ n.next = k.next /\ n.staged = k.staged
    BY DEF Fetched
  <1>3. \A label : LET n == Retried(k, label)
                   IN  n.at = label /\ n.part = k.part /\ n.off = k.off
                       /\ n.tries = k.tries + 1 /\ n.next = 1 /\ n.staged = Nothing
    BY DEF Retried
  <1>4. LET n == Skipped(k)
        IN  n.at = k.at /\ n.part = k.part /\ n.off = k.off /\ n.tries = k.tries
            /\ n.next = k.next + 1 /\ n.staged = k.staged
    BY DEF Skipped
  <1>5. \A w : LET n == Written(k, w)
               IN  n.at = k.at /\ n.part = k.part /\ n.off = k.off /\ n.tries = k.tries
                   /\ n.next = k.next + 1
                   /\ n.staged = Extended(k.staged, w)
    BY DEF Written
  <1>6. LET n == Effected(k)
        IN  n.at = "commit" /\ n.part = k.part /\ n.off = k.off /\ n.tries = k.tries
            /\ n.next = 1 /\ n.staged = Nothing
    BY DEF Effected
  <1> QED BY <1>1, <1>2, <1>3, <1>4, <1>5, <1>6

(* A loop between messages is in a state of its own. *)
LEMMA AwayIs ==
  ASSUME NEW label \in Away
  PROVE  NotInMessage(label) \in LoopStates /\ Holds(NotInMessage(label))
         /\ NotInMessage(label).at = label
  <1>1. Nothing \in [Rows -> Seq(Items)] /\ 0 \in 0..MaxAttempts
    BY NumbersAre DEF Nothing
  <1> QED BY <1>1 DEF NotInMessage, LoopStates, Holds, Away, Labels

(* The steps of a loop, in terms of these. *)
LEMMA StepsMove ==
  ASSUME LoopsOK, NEW l \in Loops
  PROVE  /\ \A p \in Partitions : Fetch(l, p) =>
               loop[l].at = "idle" /\ Moved(l, Fetched(loop[l], p, position[p] + 1))
         /\ Mark(l) => /\ loop[l].at = "begin"
                       /\ Moved(l, Passed(loop[l],
                                          IF EventOf(l) \in marks THEN "commit" ELSE "apply"))
         /\ Retry(l) => Moved(l, Retried(loop[l], AfterFailure(l)))
         /\ SkipDuplicate(l) => loop[l].at = "apply" /\ Moved(l, Skipped(loop[l]))
         /\ Write(l) => loop[l].at = "apply" /\ Moved(l, Written(loop[l], NextWrite(l)))
         /\ CommitTx(l) => loop[l].at = "apply" /\ Moved(l, Effected(loop[l]))
         /\ DeadLetter(l) => loop[l].at = "deadletter" /\ Moved(l, Passed(loop[l], "commit"))
  <1>1. loop \in [Loops -> LoopStates]
    BY DEF LoopsOK
  <1>2. ASSUME NEW p \in Partitions, Fetch(l, p)
        PROVE  loop[l].at = "idle" /\ Moved(l, Fetched(loop[l], p, position[p] + 1))
    BY <1>1, <1>2 DEF Fetch, Moved, Fetched
  <1>3. Mark(l) => /\ loop[l].at = "begin"
                   /\ Moved(l, Passed(loop[l],
                                      IF EventOf(l) \in marks THEN "commit" ELSE "apply"))
    BY <1>1 DEF Mark, Goto, Moved, Passed
  <1>4. Retry(l) => Moved(l, Retried(loop[l], AfterFailure(l)))
    BY <1>1 DEF Retry, Moved, Retried
  <1>5. SkipDuplicate(l) => loop[l].at = "apply" /\ Moved(l, Skipped(loop[l]))
    BY <1>1 DEF SkipDuplicate, Writing, Moved, Skipped
  <1>6. ASSUME Write(l)
        PROVE  loop[l].at = "apply" /\ Moved(l, Written(loop[l], NextWrite(l)))
    <2>1. PICK w : w = NextWrite(l)
      OBVIOUS
    <2>2. PICK k \in LoopStates : k = loop[l]
      BY <1>1
    <2>3. loop' = [loop EXCEPT ![l] = [k EXCEPT !.next = k.next + 1,
                                                !.staged[w.row] = Append(k.staged[w.row], w.item)]]
      BY <1>6, <2>1, <2>2, <1>1, Zenon DEF Write
    <2>4. [k EXCEPT !.next = k.next + 1, !.staged[w.row] = Append(k.staged[w.row], w.item)]
          = Written(k, w)
      BY Zenon DEF Written, Extended
    <2> QED BY <1>6, <2>1, <2>2, <2>3, <2>4 DEF Moved, Write, Writing
  <1>7. CommitTx(l) => loop[l].at = "apply" /\ Moved(l, Effected(loop[l]))
    BY <1>1 DEF CommitTx, CommitEffect, Moved, Effected
  <1>8. DeadLetter(l) => loop[l].at = "deadletter" /\ Moved(l, Passed(loop[l], "commit"))
    BY <1>1 DEF DeadLetter, Goto, Moved, Passed
  <1> QED BY <1>2, <1>3, <1>4, <1>5, <1>6, <1>7, <1>8

(* A loop that waits in a circle is in the middle of its writes. *)
LEMMA CircleIs ==
  ASSUME NEW l \in Loops, InCircle(l)
  PROVE  Writing(l)
  BY DEF InCircle, WaitsFor

(* The write a loop is at is one of its event's. *)
LEMMA WriteIs ==
  ASSUME LoopsOK, NEW l \in Loops, Writing(l)
  PROVE  NextWrite(l) \in [row : Rows, item : Items]
  <1>1. loop[l] \in LoopStates /\ loop[l].at = "apply" /\ loop[l].next <= Len(Writes[EventOf(l)])
    BY DEF LoopsOK, Writing
  <1>2. EventOf(l) \in Events
    BY <1>1, EventIs DEF Away
  <1>3. Writes[EventOf(l)] \in Seq([row : Rows, item : Items])
    BY <1>2, InboundAssumption
  <1>4. loop[l].next \in 1..Len(Writes[EventOf(l)])
    BY <1>1, <1>3 DEF LoopStates
  <1> QED BY <1>3, <1>4, ElementOfSeq DEF NextWrite

(* Each of the new states is one that a loop may be in. *)
LEMMA StatesFit ==
  ASSUME NEW k \in LoopStates, Holds(k)
  PROVE  /\ \A p \in Partitions : \A i \in DOMAIN Log[p] : k.at = "idle" =>
               Fetched(k, p, i) \in LoopStates /\ Holds(Fetched(k, p, i))
         /\ \A label \in {"apply", "commit"} : k.at = "begin" =>
               Passed(k, label) \in LoopStates /\ Holds(Passed(k, label))
         /\ k.at = "deadletter" =>
               Passed(k, "commit") \in LoopStates /\ Holds(Passed(k, "commit"))
         /\ \A label \in {"begin", "deadletter"} :
               k.at \in {"begin", "apply"} /\ (label = "begin" => k.tries + 1 < MaxAttempts) =>
               Retried(k, label) \in LoopStates /\ Holds(Retried(k, label))
         /\ k.at = "apply" => Skipped(k) \in LoopStates /\ Holds(Skipped(k))
         /\ \A w \in [row : Rows, item : Items] : k.at = "apply" =>
               Written(k, w) \in LoopStates /\ Holds(Written(k, w))
         /\ k.at = "apply" => Effected(k) \in LoopStates /\ Holds(Effected(k))
  <1>1. /\ k.at \in Labels /\ k.part \in Partitions \cup {NoPartition} /\ k.off \in Nat
        /\ k.tries \in 0..MaxAttempts /\ k.next \in Nat /\ k.next + 1 \in Nat \ {0}
        /\ k.staged \in [Rows -> Seq(Items)] /\ k.next \in Nat \ {0}
    BY DEF LoopStates
  <1>2. MaxAttempts \in Nat \ {0} /\ Nothing \in [Rows -> Seq(Items)] /\ 1 \in Nat \ {0}
    BY NumbersAre DEF Nothing
  <1>3. ASSUME NEW p \in Partitions, NEW i \in DOMAIN Log[p], k.at = "idle"
        PROVE  Fetched(k, p, i) \in LoopStates /\ Holds(Fetched(k, p, i))
    <2>1. Dispatch(EventAt(p, i)) \in {"deadletter", "commit", "begin"}
      BY DEF Dispatch
    <2>2. i \in Nat
      BY LogIs
    <2>3. Fetched(k, p, i) \in LoopStates
      BY <1>1, <2>1, <2>2 DEF Fetched, LoopStates, Labels
    <2>4. k.tries = 0 /\ k.staged = Nothing
      BY <1>3 DEF Holds, Away, NotInMessage
    <2> QED BY <2>1, <2>3, <2>4, <1>2, FieldsOf DEF Holds, Away
  <1>4. ASSUME NEW label \in {"apply", "commit"}, k.at = "begin"
        PROVE  Passed(k, label) \in LoopStates /\ Holds(Passed(k, label))
    <2>1. Passed(k, label) \in LoopStates
      BY <1>1 DEF Passed, LoopStates, Labels
    <2> QED BY <2>1, <1>4, FieldsOf DEF Holds, Away
  <1>5. ASSUME k.at = "deadletter"
        PROVE  Passed(k, "commit") \in LoopStates /\ Holds(Passed(k, "commit"))
    <2>1. Passed(k, "commit") \in LoopStates
      BY <1>1 DEF Passed, LoopStates, Labels
    <2> QED BY <2>1, <1>5, FieldsOf DEF Holds, Away
  <1>6. ASSUME NEW label \in {"begin", "deadletter"}, k.at \in {"begin", "apply"},
               label = "begin" => k.tries + 1 < MaxAttempts
        PROVE  Retried(k, label) \in LoopStates /\ Holds(Retried(k, label))
    <2>1. k.tries < MaxAttempts /\ k.part \in Partitions /\ k.off \in DOMAIN Log[k.part]
      BY <1>6 DEF Holds, Away
    <2>2. k.tries + 1 \in 0..MaxAttempts
      BY <2>1, <1>1, <1>2
    <2>3. Retried(k, label) \in LoopStates
      BY <1>1, <1>2, <2>2 DEF Retried, LoopStates, Labels
    <2> QED BY <2>1, <2>3, <1>6, FieldsOf DEF Holds, Away
  <1>7. ASSUME k.at = "apply"
        PROVE  Skipped(k) \in LoopStates /\ Holds(Skipped(k))
    <2>1. Skipped(k) \in LoopStates
      BY <1>1 DEF Skipped, LoopStates
    <2> QED BY <2>1, <1>7, FieldsOf DEF Holds, Away
  <1>8. ASSUME NEW w \in [row : Rows, item : Items], k.at = "apply"
        PROVE  Written(k, w) \in LoopStates /\ Holds(Written(k, w))
    <2>1. Extended(k.staged, w) \in [Rows -> Seq(Items)]
      BY <1>1 DEF Extended
    <2>2. Written(k, w) \in LoopStates
      BY <1>1, <2>1 DEF Written, LoopStates
    <2> QED BY <2>2, <1>8, FieldsOf DEF Holds, Away
  <1>9. ASSUME k.at = "apply"
        PROVE  Effected(k) \in LoopStates /\ Holds(Effected(k))
    <2>1. Effected(k) \in LoopStates
      BY <1>1, <1>2 DEF Effected, LoopStates, Labels
    <2> QED BY <2>1, <1>9, FieldsOf DEF Holds, Away
  <1> QED BY <1>3, <1>4, <1>5, <1>6, <1>7, <1>8, <1>9

(* One loop's new state fits in with the others'. *)
LEMMA MovedIs ==
  ASSUME LoopsOK, NEW l \in Loops, NEW k \in LoopStates, Holds(k), Moved(l, k)
  PROVE  LoopsOK' /\ loop'[l] = k /\ \A m \in Loops \ {l} : loop'[m] = loop[m]
  <1>1. loop' \in [Loops -> LoopStates] /\ loop'[l] = k
        /\ \A m \in Loops \ {l} : loop'[m] = loop[m]
    BY DEF LoopsOK, Moved
  <1>2. \A m \in Loops : Holds(loop'[m])
    BY <1>1 DEF LoopsOK
  <1> QED BY <1>1, <1>2 DEF LoopsOK

(* A loop that leaves its message, or comes back. *)
LEMMA LeftIs ==
  ASSUME LoopsOK, NEW l \in Loops, NEW label \in Away, Moved(l, NotInMessage(label))
  PROVE  LoopsOK'
  BY AwayIs, MovedIs

(* A failed attempt, whatever failed it. *)
LEMMA RetryIs ==
  ASSUME LoopsOK, NEW l \in Loops, loop[l].at \in {"begin", "apply"}, Retry(l)
  PROVE  /\ LoopsOK' /\ loop'[l] = Retried(loop[l], AfterFailure(l))
         /\ \A m \in Loops \ {l} : loop'[m] = loop[m]
  <1>1. PICK label : label = AfterFailure(l)
    OBVIOUS
  <1>2. label \in {"begin", "deadletter"} /\ (label = "begin" => loop[l].tries + 1 < MaxAttempts)
    BY <1>1 DEF AfterFailure
  <1>3. Retried(loop[l], label) \in LoopStates /\ Holds(Retried(loop[l], label))
    BY <1>2, StatesFit DEF LoopsOK
  <1> QED BY <1>1, <1>3, StepsMove, MovedIs

(* Counting failures and attempts keeps to their bounds. *)
LEMMA FailIs ==
  ASSUME CountsOK, NEW l \in Loops, Fail \/ MayFail(l) \/ UNCHANGED <<failures, handovers>>,
         UNCHANGED attempts \/ CountAttempt(l)
  PROVE  CountsOK'
  BY NumbersAre DEF CountsOK, Fail, MayFail, CountAttempt

(* The transactions keep the types of what they write. *)
LEMMA EffectIs ==
  ASSUME LoopsOK, StoreOK, NEW l \in Loops, CommitEffect(l)
  PROVE  /\ StoreOK' /\ marks' = marks \cup {EventOf(l)} /\ EventOf(l) \in Events
         /\ loop[l].at = "apply" /\ UNCHANGED <<owner, position, committed, dead, kept>>
  <1>1. loop[l].at = "apply" /\ EventOf(l) \in Events
    BY EventIs DEF CommitEffect, Away
  <1>2. loop[l].staged \in [Rows -> Seq(Items)]
    BY DEF LoopsOK, LoopStates
  <1>3. marks' = marks \cup {EventOf(l)} /\ UNCHANGED <<owner, position, committed, dead, kept>>
        /\ stored' = [r \in Rows |-> stored[r] \o loop[l].staged[r]]
    BY DEF CommitEffect, group, topic
  <1>4. ASSUME NEW r \in Rows
        PROVE  stored[r] \o loop[l].staged[r] \in Seq(Items)
    <2>1. stored[r] \in Seq(Items) /\ loop[l].staged[r] \in Seq(Items)
      BY <1>2 DEF StoreOK
    <2> QED BY <2>1, ConcatProperties
  <1> QED BY <1>1, <1>3, <1>4 DEF StoreOK

(* The loops' own steps keep the types. *)
LEMMA HandleType ==
  ASSUME TypeInv, NEW l \in Loops, Handle(l)
  PROVE  TypeInv'
  <1> USE DEF TypeInv
  <1>0. loop \in [Loops -> LoopStates] /\ loop[l] \in LoopStates /\ Holds(loop[l])
    BY DEF LoopsOK
  <1>1. ASSUME NEW p \in Partitions, Fetch(l, p)
        PROVE  TypeInv'
    <2>1. position[p] + 1 \in DOMAIN Log[p]
      BY <1>1, LogIs DEF Fetch, GroupOK, Within
    <2>2. LoopsOK'
      BY <1>0, <1>1, <2>1, StepsMove, StatesFit, MovedIs
    <2>3. Within(position)'
      BY <1>1, <2>1, LogIs DEF Fetch, GroupOK, Within
    <2>4. UNCHANGED <<marks, stored, owner, committed, dead, kept, failures, attempts, handovers>>
      BY <1>1 DEF Fetch, database, topic, faults
    <2> QED BY <2>2, <2>3, <2>4 DEF StoreOK, GroupOK, Within, TopicOK, CountsOK
  <1>2. ASSUME Mark(l) \/ SkipDuplicate(l) \/ Write(l)
        PROVE  TypeInv'
    <2>1. Write(l) => NextWrite(l) \in [row : Rows, item : Items]
      BY WriteIs DEF Write
    <2>2. LoopsOK'
      BY <1>0, <1>2, <2>1, StepsMove, StatesFit, MovedIs
    <2>3. UNCHANGED <<marks, stored, owner, position, committed, dead, kept,
                      failures, attempts, handovers>>
      BY <1>2 DEF Mark, SkipDuplicate, Write, database, group, topic, faults
    <2> QED BY <2>2, <2>3 DEF StoreOK, GroupOK, Within, TopicOK, CountsOK
  <1>3. ASSUME Reject(l) \/ BreakDeadlock(l)
        PROVE  TypeInv'
    <2>1. loop[l].at \in {"begin", "apply"} /\ Retry(l)
      BY <1>3, CircleIs DEF Reject, BreakDeadlock, Writing
    <2>2. LoopsOK'
      BY <2>1, RetryIs
    <2>3. UNCHANGED <<marks, stored, owner, position, committed, dead, kept, failures, handovers>>
          /\ (UNCHANGED attempts \/ CountAttempt(l))
      BY <1>3 DEF Reject, BreakDeadlock, database, group, topic, faults
    <2>4. CountsOK'
      BY <2>3, FailIs
    <2> QED BY <2>2, <2>3, <2>4 DEF StoreOK, GroupOK, Within, TopicOK
  <1>4. ASSUME CommitTx(l)
        PROVE  TypeInv'
    <2>1. LoopsOK'
      BY <1>0, <1>4, StepsMove, StatesFit, MovedIs
    <2>2. StoreOK' /\ UNCHANGED <<owner, position, committed, dead, kept>>
      BY <1>4, EffectIs DEF CommitTx
    <2>3. UNCHANGED <<failures, attempts, handovers>>
      BY <1>4 DEF CommitTx, faults
    <2> QED BY <2>1, <2>2, <2>3 DEF GroupOK, Within, TopicOK, CountsOK
  <1>5. ASSUME DeadLetter(l)
        PROVE  TypeInv'
    <2>1. LoopsOK'
      BY <1>0, <1>5, StepsMove, StatesFit, MovedIs
    <2>2. MessageOf(l) \in LogMessages
      BY <1>5, EventIs DEF DeadLetter, Away
    <2>3. TopicOK'
      BY <1>5, <2>2 DEF DeadLetter, TopicOK
    <2>4. CountsOK'
      BY <1>5, FailIs DEF DeadLetter, faults
    <2>5. UNCHANGED <<marks, stored, owner, position, committed>>
      BY <1>5 DEF DeadLetter, database, group
    <2> QED BY <2>1, <2>3, <2>4, <2>5 DEF StoreOK, GroupOK, Within
  <1>6. ASSUME CommitOffset(l)
        PROVE  TypeInv'
    <2>0. PICK label \in Away : Moved(l, NotInMessage(label))
      BY <1>6 DEF CommitOffset, Moved, Away
    <2>1. LoopsOK'
      BY <2>0, LeftIs
    <2>2. loop[l].part \in Partitions /\ loop[l].off \in DOMAIN Log[loop[l].part]
      BY <1>6, EventIs DEF CommitOffset, Away
    <2>3. Within(committed)'
      BY <1>6, <2>2, LogIs DEF CommitOffset, GroupOK, Within
    <2>4. UNCHANGED <<marks, stored, owner, position, dead, kept, failures, attempts, handovers>>
      BY <1>6 DEF CommitOffset, database, topic, faults
    <2> QED BY <2>1, <2>3, <2>4 DEF StoreOK, GroupOK, Within, TopicOK, CountsOK
  <1> QED BY <1>1, <1>2, <1>3, <1>4, <1>5, <1>6 DEF Handle

(* So do failures, crashes, shutdowns and restarts. *)
LEMMA FaultType ==
  ASSUME TypeInv, NEW l \in Loops,
         \/ Restart(l) \/ LoseAnswer(l) \/ FailAttempt(l) \/ StopLoop(l)
         \/ Crash(l) \/ Shutdown(l)
  PROVE  TypeInv'
  <1> USE DEF TypeInv
  <1>1. ASSUME Restart(l)
        PROVE  TypeInv'
    <2>1. LoopsOK'
      BY <1>1, LeftIs DEF Restart, Moved, Away
    <2>2. Within(position)'
      BY <1>1 DEF Restart, GroupOK, Within
    <2>3. UNCHANGED <<marks, stored, owner, committed, dead, kept, failures, attempts, handovers>>
      BY <1>1 DEF Restart, database, topic, faults
    <2> QED BY <2>1, <2>2, <2>3 DEF StoreOK, GroupOK, Within, TopicOK, CountsOK
  <1>2. ASSUME LoseAnswer(l)
        PROVE  TypeInv'
    <2>1. StoreOK' /\ UNCHANGED <<owner, position, committed, dead, kept>>
          /\ loop[l].at = "apply"
      BY <1>2, EffectIs DEF LoseAnswer
    <2>2. LoopsOK'
      BY <1>2, <2>1, RetryIs DEF LoseAnswer
    <2>3. CountsOK'
      BY <1>2, FailIs DEF LoseAnswer
    <2> QED BY <2>1, <2>2, <2>3 DEF GroupOK, Within, TopicOK
  <1>3. ASSUME FailAttempt(l)
        PROVE  TypeInv'
    <2>1. LoopsOK'
      BY <1>3, RetryIs DEF FailAttempt
    <2>2. CountsOK'
      BY <1>3, FailIs DEF FailAttempt
    <2>3. UNCHANGED <<marks, stored, owner, position, committed, dead, kept>>
      BY <1>3 DEF FailAttempt, database, group, topic
    <2> QED BY <2>1, <2>2, <2>3 DEF StoreOK, GroupOK, Within, TopicOK
  <1>4. ASSUME StopLoop(l)
        PROVE  TypeInv'
    <2>0. PICK label \in Away : Moved(l, NotInMessage(label))
      BY <1>4 DEF StopLoop, Moved, Away
    <2>1. LoopsOK'
      BY <2>0, LeftIs
    <2>2. CountsOK'
      BY <1>4, FailIs DEF StopLoop
    <2>3. loop[l].at # "idle" =>
             /\ loop[l].part \in Partitions /\ loop[l].off \in DOMAIN Log[loop[l].part]
             /\ MessageOf(l) \in LogMessages
      BY <1>4, EventIs DEF StopLoop, Away
    <2>4. TopicOK'
      BY <1>4, <2>3 DEF StopLoop, TopicOK, topic
    <2>5. Within(committed)'
      <3>1. CASE UNCHANGED committed
        BY <3>1 DEF GroupOK, Within
      <3>2. CASE loop[l].at = "commit" /\ committed' = [committed EXCEPT ![loop[l].part] = loop[l].off]
        <4>1. Within(committed) /\ loop[l].off \in Nat /\ loop[l].off <= Len(Log[loop[l].part])
          BY <2>3, <3>2, LogIs DEF GroupOK
        <4> QED BY <2>3, <3>2, <4>1 DEF Within
      <3> QED BY <1>4, <3>1, <3>2 DEF StopLoop
    <2>6. UNCHANGED <<marks, stored, owner, position>>
      BY <1>4 DEF StopLoop, database
    <2> QED BY <2>1, <2>2, <2>4, <2>5, <2>6 DEF StoreOK, GroupOK, Within
  <1>5. ASSUME Crash(l)
        PROVE  TypeInv'
    <2>1. LoopsOK'
      BY <1>5, LeftIs DEF Crash, Moved, Away
    <2>2. CountsOK'
      BY <1>5, FailIs DEF Crash
    <2>3. UNCHANGED <<marks, stored, owner, position, committed, dead, kept>>
      BY <1>5 DEF Crash, database, group, topic
    <2> QED BY <2>1, <2>2, <2>3 DEF StoreOK, GroupOK, Within, TopicOK
  <1>6. ASSUME Shutdown(l)
        PROVE  TypeInv'
    <2>1. LoopsOK'
      <3>1. CASE UNCHANGED loop
        BY <3>1 DEF LoopsOK
      <3>2. CASE Moved(l, NotInMessage("down"))
        BY <3>2, LeftIs DEF Away
      <3> QED BY <1>6, <3>1, <3>2 DEF Shutdown, Moved
    <2>2. CountsOK'
      BY <1>6, NumbersAre DEF Shutdown, CountsOK
    <2>3. UNCHANGED <<marks, stored, owner, position, committed, dead, kept>>
      BY <1>6 DEF Shutdown, database, group, topic
    <2> QED BY <2>1, <2>2, <2>3 DEF StoreOK, GroupOK, Within, TopicOK
  <1> QED BY <1>1, <1>2, <1>3, <1>4, <1>5, <1>6

(* The group hands partitions to its members, from the committed offsets.  *)
LEMMA AssignIs ==
  ASSUME NEW f \in [Partitions -> Members], Rebalance(f) \/ TakeOver(f)
  PROVE  /\ owner' = f /\ position' = committed /\ f \in [Partitions -> Loops]
         /\ UNCHANGED <<marks, stored, loop, committed, dead, kept, failures, attempts,
                       cancelled, interrupted>>
         /\ handovers' = handovers \/ (handovers < MaxHandovers /\ handovers' = handovers + 1)
  BY DEF Rebalance, TakeOver, Assign, database, topic, faults, Members

(* Each step keeps the types. *)
LEMMA TypeStep == TypeInv /\ [Next]_vars => TypeInv'
  <1> SUFFICES ASSUME TypeInv, [Next]_vars
               PROVE  TypeInv'
    OBVIOUS
  <1>1. ASSUME NEW f \in [Partitions -> Members], Rebalance(f) \/ TakeOver(f)
        PROVE  TypeInv'
    <2>1. CountsOK'
      BY <1>1, AssignIs, NumbersAre DEF TypeInv, CountsOK
    <2> QED BY <1>1, <2>1, AssignIs
            DEF TypeInv, LoopsOK, StoreOK, GroupOK, Within, TopicOK
  <1>2. CASE UNCHANGED vars
    BY <1>2 DEF vars, database, group, topic, faults, TypeInv, LoopsOK, StoreOK, GroupOK,
                Within, TopicOK, CountsOK
  <1> QED BY <1>1, <1>2, HandleType, FaultType DEF Next, TakeOverAny

(* At first no loop has a message. *)
LEMMA TypeInit == Init => TypeInv
  <1> SUFFICES ASSUME Init
               PROVE  TypeInv
    OBVIOUS
  <1>1. LoopsOK
    BY AwayIs DEF Init, LoopsOK, Away
  <1>2. StoreOK /\ TopicOK /\ CountsOK
    BY NumbersAre DEF Init, StoreOK, TopicOK, CountsOK, Nothing
  <1>3. GroupOK
    BY LogIs DEF Init, GroupOK, Within
  <1> QED BY <1>1, <1>2, <1>3 DEF TypeInv

(* The inductive type invariant holds in every behaviour. *)
LEMMA TypeInvHolds == Spec => []TypeInv
  BY TypeInit, TypeStep, PTL DEF Spec

-----------------------------------------------------------------------------
(* What a step of a loop does, in terms of what the loop is at *)

Part(l) == loop[l].part
Off(l)  == loop[l].off

(* The next message of a partition that the loop owns. *)
Fetches(l, p) ==
    /\ loop[l].at = "idle" /\ owner[p] = l /\ position[p] + 1 \in DOMAIN Log[p]
    /\ loop'[l].at = Dispatch(EventAt(p, position[p] + 1)) /\ loop'[l].part = p
    /\ loop'[l].off = position[p] + 1 /\ loop'[l].tries = 0
    /\ position' = [position EXCEPT ![p] = @ + 1]
    /\ UNCHANGED <<committed, marks, dead, attempts, cancelled, interrupted>>

(* On with the message: into the transaction, through its writes, or, when *)
(* it is settled, to the offset.                                           *)
GoesOn(l) ==
    /\ loop[l].at \in {"begin", "apply", "deadletter"} /\ loop'[l].at \in {"apply", "commit"}
    /\ loop'[l].part = Part(l) /\ loop'[l].off = Off(l) /\ loop'[l].tries = loop[l].tries
    /\ loop'[l].at = "apply" => loop[l].at \in {"begin", "apply"} /\ UNCHANGED dead
    /\ loop'[l].at = "commit" => EventOf(l) \in marks' \/ MessageOf(l) \in dead'
    /\ dead' = dead \/ (loop[l].at = "deadletter" /\ dead' = dead \cup {MessageOf(l)})
    /\ UNCHANGED <<position, committed, attempts, cancelled, interrupted>>

(* Another attempt, or the dead letters. *)
TriesAgain(l) ==
    /\ loop[l].at \in {"begin", "apply"}
    /\ loop'[l].at = AfterFailure(l)
    /\ loop'[l].part = Part(l) /\ loop'[l].off = Off(l) /\ loop'[l].tries = loop[l].tries + 1
    /\ \/ Kind[EventOf(l)] = "rejected" /\ UNCHANGED attempts
       \/ CountAttempt(l)
    /\ UNCHANGED <<position, committed, dead, cancelled, interrupted>>

OffsetPasses(l) == committed' = [committed EXCEPT ![Part(l)] = Off(l)]

Finishes(l) ==
    /\ loop[l].at = "commit" /\ loop'[l] = NotInMessage("idle") /\ OffsetPasses(l)
    /\ l \notin cancelled
    /\ UNCHANGED <<position, marks, dead, attempts, cancelled, interrupted>>

(* A dead letter or an offset that is reported as failed may have got      *)
(* through.                                                                *)
Ends(l) ==
    /\ loop'[l].at \in {"stopped", "down"} /\ loop'[l] = NotInMessage(loop'[l].at)
    /\ UNCHANGED committed \/ (loop[l].at = "commit" /\ OffsetPasses(l))
    /\ dead' = dead \/ (loop[l].at = "deadletter" /\ dead' = dead \cup {MessageOf(l)})
    /\ cancelled' \in {cancelled, cancelled \cup {l}}
    /\ loop'[l].at = "stopped" => l \notin cancelled'
    /\ UNCHANGED <<position, marks, attempts, interrupted>>

ComesBack(l) ==
    /\ loop[l].at = "down" /\ loop'[l] = NotInMessage("idle")
    /\ position' = [p \in Partitions |-> IF owner[p] = l THEN committed[p] ELSE position[p]]
    /\ cancelled' = cancelled \ {l}
    /\ UNCHANGED <<committed, marks, dead, attempts, interrupted>>

Does(l) ==
    /\ \A m \in Loops \ {l} : loop'[m] = loop[m]
    /\ UNCHANGED owner /\ marks \subseteq marks'
    /\ \/ \E p \in Partitions : Fetches(l, p)
       \/ GoesOn(l) \/ TriesAgain(l) \/ Finishes(l) \/ Ends(l) \/ ComesBack(l)

(* A shutdown finds a loop with a message in hand. *)
Interrupts(l) ==
    /\ loop[l].at \notin Away
    /\ cancelled' = cancelled \cup {l} /\ interrupted' = interrupted \cup {MessageOf(l)}
    /\ UNCHANGED <<loop, committed, marks, stored, dead, attempts, owner, position>>

(* A failed attempt is a new one, or the last. *)
LEMMA RetryDoes ==
  ASSUME TypeInv, NEW l \in Loops, loop[l].at \in {"begin", "apply"}, Retry(l),
         UNCHANGED <<owner, position, committed, dead, cancelled, interrupted>>,
         marks \subseteq marks',
         (Kind[EventOf(l)] = "rejected" /\ UNCHANGED attempts) \/ CountAttempt(l)
  PROVE  Does(l)
  <1>1. loop'[l] = Retried(loop[l], AfterFailure(l)) /\ \A m \in Loops \ {l} : loop'[m] = loop[m]
    BY RetryIs DEF TypeInv
  <1>2. loop[l] \in LoopStates
    BY DEF TypeInv, LoopsOK
  <1>3. TriesAgain(l)
    BY <1>1, <1>2, FieldsOf DEF TriesAgain, Part, Off
  <1> QED BY <1>1, <1>3 DEF Does

(* Failures leave it alone who is cancelled. *)
LEMMA FailKeeps ==
  ASSUME NEW l \in Loops, Fail \/ MayFail(l)
  PROVE  UNCHANGED <<cancelled, interrupted>>
  BY DEF Fail, MayFail

(* Every step of a loop, and everything that may happen to it but a        *)
(* shutdown, is one of these.                                              *)
LEMMA LoopDoes ==
  ASSUME TypeInv, NEW l \in Loops,
         \/ Handle(l) \/ Restart(l)
         \/ LoseAnswer(l) \/ FailAttempt(l) \/ StopLoop(l) \/ Crash(l)
  PROVE  Does(l)
  <1>0. loop \in [Loops -> LoopStates] /\ loop[l] \in LoopStates /\ Holds(loop[l]) /\ LoopsOK
    BY DEF TypeInv, LoopsOK
  <1>1. ASSUME NEW k, Moved(l, k)
        PROVE  loop'[l] = k /\ \A m \in Loops \ {l} : loop'[m] = loop[m]
    BY <1>0, <1>1 DEF Moved
  <1>2. ASSUME NEW p \in Partitions, Fetch(l, p)
        PROVE  Does(l)
    <2>1. loop[l].at = "idle" /\ Moved(l, Fetched(loop[l], p, position[p] + 1))
      BY <1>0, <1>2, StepsMove
    <2>2. loop'[l] = Fetched(loop[l], p, position[p] + 1)
          /\ \A m \in Loops \ {l} : loop'[m] = loop[m]
      BY <2>1, <1>1
    <2>3. loop[l].tries = 0
      BY <2>1, <1>0 DEF Holds, Away, NotInMessage
    <2>4. position[p] + 1 \in DOMAIN Log[p]
      BY <1>2, LogIs DEF Fetch, TypeInv, GroupOK, Within
    <2>5. Fetches(l, p)
      BY <1>0, <1>2, <2>1, <2>2, <2>3, <2>4, FieldsOf
      DEF Fetch, Fetches, database, topic, faults
    <2> QED BY <1>2, <2>2, <2>5 DEF Does, Fetch, database
  <1>3. ASSUME Mark(l)
        PROVE  Does(l)
    <2> DEFINE label == IF EventOf(l) \in marks THEN "commit" ELSE "apply"
    <2>1. loop[l].at = "begin" /\ Moved(l, Passed(loop[l], label))
      BY <1>0, <1>3, StepsMove
    <2>2. loop'[l] = Passed(loop[l], label) /\ \A m \in Loops \ {l} : loop'[m] = loop[m]
      BY <2>1, <1>1
    <2>3. UNCHANGED <<marks, owner, position, committed, dead, attempts, cancelled, interrupted>>
      BY <1>3 DEF Mark, database, group, topic, faults
    <2>4. GoesOn(l)
      BY <1>0, <2>1, <2>2, <2>3, FieldsOf DEF GoesOn, Part, Off
    <2> QED BY <2>2, <2>3, <2>4 DEF Does
  <1>4. ASSUME SkipDuplicate(l) \/ Write(l)
        PROVE  Does(l)
    <2>1. loop[l].at = "apply"
          /\ (Moved(l, Skipped(loop[l])) \/ Moved(l, Written(loop[l], NextWrite(l))))
      BY <1>0, <1>4, StepsMove
    <2>2. /\ loop'[l].at = "apply" /\ loop'[l].part = Part(l) /\ loop'[l].off = Off(l)
          /\ loop'[l].tries = loop[l].tries /\ \A m \in Loops \ {l} : loop'[m] = loop[m]
      BY <1>0, <2>1, <1>1, FieldsOf DEF Part, Off
    <2>3. UNCHANGED <<marks, owner, position, committed, dead, attempts, cancelled, interrupted>>
      BY <1>4 DEF SkipDuplicate, Write, database, group, topic, faults
    <2>4. GoesOn(l)
      BY <2>1, <2>2, <2>3 DEF GoesOn
    <2> QED BY <2>2, <2>3, <2>4 DEF Does
  <1>5. ASSUME Reject(l) \/ BreakDeadlock(l)
        PROVE  Does(l)
    <2>1. loop[l].at \in {"begin", "apply"} /\ Retry(l)
      BY <1>5, CircleIs DEF Reject, BreakDeadlock, Writing
    <2>2. UNCHANGED <<marks, owner, position, committed, dead, cancelled, interrupted>>
      BY <1>5 DEF Reject, BreakDeadlock, database, group, topic, faults
    <2>3. (Kind[EventOf(l)] = "rejected" /\ UNCHANGED attempts) \/ CountAttempt(l)
      BY <1>5 DEF Reject, BreakDeadlock, faults
    <2> QED BY <2>1, <2>2, <2>3, RetryDoes
  <1>6. ASSUME CommitTx(l)
        PROVE  Does(l)
    <2>1. loop[l].at = "apply" /\ Moved(l, Effected(loop[l]))
      BY <1>0, <1>6, StepsMove
    <2>2. loop'[l] = Effected(loop[l]) /\ \A m \in Loops \ {l} : loop'[m] = loop[m]
      BY <2>1, <1>1
    <2>3. marks' = marks \cup {EventOf(l)}
          /\ UNCHANGED <<owner, position, committed, dead, kept>>
      BY <1>6, EffectIs DEF CommitTx, TypeInv
    <2>4. UNCHANGED <<attempts, cancelled, interrupted>>
      BY <1>6 DEF CommitTx, faults
    <2>5. GoesOn(l)
      BY <1>0, <2>1, <2>2, <2>3, <2>4, FieldsOf DEF GoesOn, Part, Off
    <2> QED BY <2>2, <2>3, <2>5 DEF Does
  <1>7. ASSUME DeadLetter(l)
        PROVE  Does(l)
    <2>1. loop[l].at = "deadletter" /\ Moved(l, Passed(loop[l], "commit"))
      BY <1>0, <1>7, StepsMove
    <2>2. loop'[l] = Passed(loop[l], "commit") /\ \A m \in Loops \ {l} : loop'[m] = loop[m]
      BY <2>1, <1>1
    <2>3. dead' = dead \cup {MessageOf(l)}
          /\ UNCHANGED <<owner, position, committed, marks, attempts, cancelled, interrupted>>
      BY <1>7, FailKeeps DEF DeadLetter, database, group, faults
    <2>4. GoesOn(l)
      BY <1>0, <2>1, <2>2, <2>3, FieldsOf DEF GoesOn, Part, Off
    <2> QED BY <2>2, <2>3, <2>4 DEF Does
  <1>8. ASSUME CommitOffset(l)
        PROVE  Does(l)
    <2>1. \A m \in Loops \ {l} : loop'[m] = loop[m]
      BY <1>1, <1>8 DEF CommitOffset, Moved
    <2>2. /\ loop[l].at = "commit" /\ OffsetPasses(l)
          /\ UNCHANGED <<owner, position, marks, dead, attempts, cancelled, interrupted>>
      BY <1>8 DEF CommitOffset, OffsetPasses, Part, Off, database, topic, faults
    <2>3. CASE l \in cancelled
      <3>1. loop'[l] = NotInMessage("down")
        BY <2>3, <1>1, <1>8 DEF CommitOffset, Moved
      <3>2. loop'[l].at = "down"
        BY <3>1 DEF NotInMessage
      <3>3. Ends(l)
        BY <2>2, <3>1, <3>2 DEF Ends
      <3> QED BY <2>1, <2>2, <3>3 DEF Does
    <2>4. CASE l \notin cancelled
      <3>1. loop'[l] = NotInMessage("idle")
        BY <2>4, <1>1, <1>8 DEF CommitOffset, Moved
      <3>2. Finishes(l)
        BY <2>2, <2>4, <3>1 DEF Finishes
      <3> QED BY <2>1, <2>2, <3>2 DEF Does
    <2> QED BY <2>3, <2>4
  <1>9. ASSUME Restart(l)
        PROVE  Does(l)
    <2>1. loop'[l] = NotInMessage("idle") /\ \A m \in Loops \ {l} : loop'[m] = loop[m]
      BY <1>1, <1>9 DEF Restart, Moved
    <2>2. ComesBack(l)
      BY <1>9, <2>1 DEF Restart, ComesBack, database, topic, faults
    <2> QED BY <1>9, <2>1, <2>2 DEF Does, Restart, database
  <1>10. ASSUME LoseAnswer(l)
         PROVE  Does(l)
    <2>1. marks' = marks \cup {EventOf(l)} /\ loop[l].at = "apply"
          /\ UNCHANGED <<owner, position, committed, dead, kept>>
      BY <1>10, EffectIs DEF LoseAnswer, TypeInv
    <2> QED BY <1>10, <2>1, FailKeeps, RetryDoes DEF LoseAnswer
  <1>11. ASSUME FailAttempt(l)
         PROVE  Does(l)
    <2>1. UNCHANGED <<marks, owner, position, committed, dead>>
      BY <1>11 DEF FailAttempt, database, group, topic
    <2> QED BY <1>11, <2>1, FailKeeps, RetryDoes DEF FailAttempt
  <1>12. ASSUME StopLoop(l)
         PROVE  Does(l)
    <2>1. PICK label \in {"stopped", "down"} : /\ Moved(l, NotInMessage(label))
                                               /\ label = "stopped" => l \notin cancelled
      BY <1>12 DEF StopLoop, Moved
    <2>2. /\ loop'[l] = NotInMessage(label) /\ loop'[l].at = label
          /\ \A m \in Loops \ {l} : loop'[m] = loop[m]
      BY <2>1, <1>1 DEF NotInMessage
    <2>3. /\ UNCHANGED committed \/ (loop[l].at = "commit" /\ OffsetPasses(l))
          /\ dead' = dead \/ (loop[l].at = "deadletter" /\ dead' = dead \cup {MessageOf(l)})
      BY <1>12 DEF StopLoop, topic, OffsetPasses, Part, Off
    <2>4. UNCHANGED <<position, marks, attempts, owner, cancelled, interrupted>>
      BY <1>12, FailKeeps DEF StopLoop, database
    <2>5. Ends(l)
      BY <2>1, <2>2, <2>3, <2>4 DEF Ends
    <2> QED BY <2>2, <2>4, <2>5 DEF Does
  <1>13. ASSUME Crash(l)
         PROVE  Does(l)
    <2>1. loop'[l] = NotInMessage("down") /\ \A m \in Loops \ {l} : loop'[m] = loop[m]
      BY <1>1, <1>13 DEF Crash, Moved
    <2>2. loop'[l].at = "down"
      BY <2>1 DEF NotInMessage
    <2>3. UNCHANGED <<position, committed, dead, marks, attempts, owner, cancelled, interrupted>>
      BY <1>13, FailKeeps DEF Crash, database, group, topic
    <2>4. Ends(l)
      BY <2>1, <2>2, <2>3 DEF Ends
    <2> QED BY <2>1, <2>3, <2>4 DEF Does
  <1> QED BY <1>2, <1>3, <1>4, <1>5, <1>6, <1>7, <1>8, <1>9, <1>10, <1>11, <1>12, <1>13 DEF Handle

(* A shutdown ends a loop, or finds it with a message in hand. *)
LEMMA ShutdownDoes ==
  ASSUME TypeInv, NEW l \in Loops, Shutdown(l)
  PROVE  Does(l) \/ Interrupts(l)
  <1>1. UNCHANGED <<committed, marks, stored, dead, attempts, owner, position>>
        /\ cancelled' = cancelled \cup {l}
    BY DEF Shutdown, database, group, topic
  <1>2. CASE Handling(l)
    BY <1>1, <1>2 DEF Shutdown, Handling, Interrupts, Away
  <1>3. CASE ~Handling(l)
    <2>1. /\ loop'[l] = NotInMessage("down") /\ UNCHANGED interrupted
          /\ \A m \in Loops \ {l} : loop'[m] = loop[m]
      BY <1>3 DEF Shutdown, TypeInv, LoopsOK
    <2>2. loop'[l].at = "down"
      BY <2>1 DEF NotInMessage
    <2>3. Ends(l)
      BY <1>1, <2>1, <2>2 DEF Ends
    <2> QED BY <1>1, <2>1, <2>3 DEF Does
  <1> QED BY <1>2, <1>3

(* A step is one of a loop, a shutdown, a rebalance, or nothing. *)
LEMMA StepIs ==
  ASSUME TypeInv, [Next]_vars
  PROVE  \/ \E l \in Loops : Does(l) \/ Interrupts(l)
         \/ /\ UNCHANGED <<loop, committed, marks, dead, attempts, cancelled, interrupted>>
            /\ \/ UNCHANGED <<owner, position>>
               \/ owner' \in [Partitions -> Loops] /\ position' = committed
  <1>1. ASSUME NEW f \in [Partitions -> Members], Rebalance(f) \/ TakeOver(f)
        PROVE  /\ UNCHANGED <<loop, committed, marks, dead, attempts, cancelled, interrupted>>
               /\ owner' \in [Partitions -> Loops] /\ position' = committed
    BY <1>1, AssignIs
  <1>2. ASSUME UNCHANGED vars
        PROVE  UNCHANGED <<loop, committed, marks, dead, attempts, cancelled, interrupted,
                           owner, position>>
    BY <1>2 DEF vars, database, group, topic, faults
  <1> QED BY <1>1, <1>2, LoopDoes, ShutdownDoes DEF Next, TakeOverAny

(* A loop that waits for a message has not been cancelled. *)
CancelOK ==
    /\ cancelled \subseteq Loops
    /\ \A l \in cancelled : loop[l].at \notin {"idle", "stopped"}
    /\ interrupted \subseteq LogMessages

(* Each step keeps it. *)
LEMMA CancelStep == TypeInv /\ CancelOK /\ [Next]_vars => CancelOK'
  <1> SUFFICES ASSUME TypeInv, CancelOK, [Next]_vars
               PROVE  CancelOK'
    OBVIOUS
  <1>1. ASSUME NEW l \in Loops, Interrupts(l)
        PROVE  CancelOK'
    <2>1. MessageOf(l) \in LogMessages
      BY <1>1, EventIs DEF Interrupts, TypeInv
    <2> QED BY <1>1, <2>1 DEF Interrupts, CancelOK, Away
  <1>2. ASSUME NEW l \in Loops, Does(l)
        PROVE  CancelOK'
    <2>1. \A m \in Loops \ {l} : loop'[m] = loop[m]
      BY <1>2 DEF Does
    <2>2. ASSUME NEW p \in Partitions, Fetches(l, p)
          PROVE  CancelOK'
      BY <2>1, <2>2 DEF Fetches, CancelOK
    <2>3. CASE GoesOn(l) \/ TriesAgain(l)
      BY <2>1, <2>3 DEF GoesOn, TriesAgain, AfterFailure, CancelOK
    <2>4. CASE Finishes(l) \/ ComesBack(l)
      BY <2>1, <2>4 DEF Finishes, ComesBack, CancelOK
    <2>5. CASE Ends(l)
      BY <2>1, <2>5 DEF Ends, CancelOK
    <2> QED BY <1>2, <2>2, <2>3, <2>4, <2>5 DEF Does
  <1>3. CASE UNCHANGED <<loop, cancelled, interrupted>>
    BY <1>3 DEF CancelOK
  <1> QED BY <1>1, <1>2, <1>3, StepIs

(* It holds in every behaviour. *)
LEMMA CancelHolds == Spec => []CancelOK
  <1>1. Init => CancelOK
    BY DEF Init, CancelOK
  <1> QED BY <1>1, CancelStep, TypeInvHolds, PTL DEF Spec

(* Each variable keeps its range: in particular only a transaction under   *)
(* way has written anything, no attempt is made past the last, and a loop  *)
(* whose context is cancelled waits for no other message.                  *)
THEOREM TypeCorrect == Spec => []TypeOK
  <1>1. TypeInv /\ CancelOK => TypeOK
    <2> SUFFICES ASSUME TypeInv, CancelOK
                 PROVE  TypeOK
      OBVIOUS
    <2>1. cancelled \subseteq {l \in Loops : Handling(l) \/ loop[l].at = "down"}
      BY DEF CancelOK, Handling
    <2> QED BY <2>1
            DEF TypeInv, LoopsOK, Holds, Away, Handling, LoopStates, StoreOK, GroupOK, Within,
                TopicOK, LogMessages, CountsOK, CancelOK, TypeOK
  <1> QED BY <1>1, TypeInvHolds, CancelHolds, PTL

-----------------------------------------------------------------------------
(* Offsets *)

(* Where a message is being handled, those before it are settled; it is,   *)
(* once the offset is to be committed.  What a loop that may fetch has     *)
(* fetched of its partitions is settled, but for what it is handling.      *)
BehindOK(l) ==
    loop[l].at \notin Away =>
        /\ \A i \in 1..Off(l) : i # Off(l) => Settled(Part(l), i)
        /\ loop[l].at = "commit" => Settled(Part(l), Off(l))

FetchedOK(p) ==
    loop[owner[p]].at \notin {"stopped", "down"} =>
        \A i \in 1..position[p] :
            Settled(p, i) \/ (loop[owner[p]].at # "idle" /\ <<p, i>> = MessageOf(owner[p]))

SkipInv ==
    /\ NothingSkipped
    /\ \A l \in Loops : BehindOK(l)
    /\ \A p \in Partitions : FetchedOK(p)

(* What is settled stays so. *)
LEMMA StaysSettled ==
  ASSUME marks \subseteq marks', dead \subseteq dead', NEW p, NEW i, Settled(p, i)
  PROVE  Settled(p, i)'
  BY DEF Settled, EventAt

(* A loop's step settles what it passes. *)
LEMMA SkipDoes ==
  ASSUME TypeInv, SkipInv, NEW l \in Loops, Does(l)
  PROVE  SkipInv'
  <1>0. /\ LoopsOK /\ owner \in [Partitions -> Loops] /\ Within(position) /\ Within(committed)
        /\ \A p \in Partitions : \A i \in 1..committed[p] : Settled(p, i)
        /\ \A m \in Loops : BehindOK(m)
        /\ \A p \in Partitions : FetchedOK(p)
    BY DEF TypeInv, GroupOK, SkipInv, NothingSkipped
  <1>1. /\ \A m \in Loops \ {l} : loop'[m] = loop[m]
        /\ owner' = owner /\ marks \subseteq marks' /\ dead \subseteq dead'
    BY DEF Does, Fetches, GoesOn, TriesAgain, Finishes, Ends, ComesBack
  <1>2. \A p, i : Settled(p, i) => Settled(p, i)'
    BY <1>1, StaysSettled
  <1>3. ASSUME NEW m \in Loops \ {l}
        PROVE  BehindOK(m)'
    BY <1>0, <1>1, <1>2, <1>3 DEF BehindOK, Part, Off
  <1>4. ASSUME NEW p \in Partitions, owner[p] # l, position'[p] = position[p]
        PROVE  FetchedOK(p)'
    BY <1>0, <1>1, <1>2, <1>4 DEF FetchedOK, MessageOf
  <1>5. ASSUME committed' = committed
        PROVE  NothingSkipped'
    BY <1>0, <1>2, <1>5 DEF NothingSkipped
  <1>6. ASSUME loop[l].at = "commit", OffsetPasses(l)
        PROVE  NothingSkipped'
    <2>1. Part(l) \in Partitions /\ Off(l) \in DOMAIN Log[Part(l)] /\ Off(l) \in Nat
      BY <1>0, <1>6, EventIs, LogIs DEF Part, Off, Away
    <2>2. \A i \in 1..Off(l) : Settled(Part(l), i)
      BY <1>0, <1>6 DEF BehindOK, Away
    <2>3. ASSUME NEW p \in Partitions, NEW i \in 1..committed'[p]
          PROVE  Settled(p, i)'
      <3>1. CASE p = Part(l)
        BY <3>1, <2>1, <2>2, <2>3, <1>0, <1>2, <1>6 DEF OffsetPasses, Within
      <3>2. CASE p # Part(l)
        BY <3>2, <2>3, <1>0, <1>2, <1>6 DEF OffsetPasses, Within
      <3> QED BY <3>1, <3>2
    <2> QED BY <2>3 DEF NothingSkipped
  <1>7. ASSUME NEW q \in Partitions, Fetches(l, q)
        PROVE  SkipInv'
    <2>1. \A i \in 1..position[q] : Settled(q, i)
      BY <1>0, <1>7 DEF Fetches, FetchedOK
    <2>2. position[q] \in Nat /\ position \in [Partitions -> Nat]
      BY <1>0 DEF Within
    <2>3. BehindOK(l)'
      <3>1. \A i \in 1..Off(l)' : i # Off(l)' => i \in 1..position[q]
        BY <1>7, <2>2 DEF Fetches, Off
      <3>2. Part(l)' = q /\ Off(l)' = position[q] + 1
        BY <1>7 DEF Fetches, Part, Off
      <3>3. loop'[l].at = "commit" => Settled(q, position[q] + 1)
        BY <1>7 DEF Fetches, Dispatch, Settled
      <3> QED BY <2>1, <3>1, <3>2, <3>3, <1>2 DEF BehindOK
    <2>4. ASSUME NEW p \in Partitions
          PROVE  FetchedOK(p)'
      <3>1. CASE owner[p] # l
        BY <3>1, <1>4, <1>7, <2>2 DEF Fetches
      <3>2. CASE owner[p] = l /\ p # q
        <4>1. \A i \in 1..position[p] : Settled(p, i)
          BY <3>2, <1>0, <1>7 DEF Fetches, FetchedOK
        <4>2. position'[p] = position[p]
          BY <3>2, <1>7, <2>2 DEF Fetches
        <4> QED BY <4>1, <4>2, <1>2 DEF FetchedOK
      <3>3. CASE p = q
        <4>1. position'[q] = position[q] + 1 /\ owner'[q] = l
          BY <1>7, <1>1, <2>2 DEF Fetches
        <4>2. \A i \in 1..position'[q] : i \in 1..position[q] \/ i = position[q] + 1
          BY <4>1, <2>2
        <4>3. MessageOf(l)' = <<q, position[q] + 1>> /\ loop'[l].at # "idle"
          BY <1>7 DEF Fetches, MessageOf, Dispatch
        <4> QED BY <3>3, <4>1, <4>2, <4>3, <2>1, <1>2 DEF FetchedOK
      <3> QED BY <3>1, <3>2, <3>3
    <2>5. NothingSkipped'
      BY <1>5, <1>7 DEF Fetches
    <2> QED BY <1>3, <2>3, <2>4, <2>5 DEF SkipInv
  <1>8. ASSUME GoesOn(l) \/ TriesAgain(l)
        PROVE  SkipInv'
    <2>1. /\ loop[l].at \notin Away /\ loop'[l].at \notin Away
          /\ loop'[l].part = loop[l].part /\ loop'[l].off = loop[l].off
          /\ UNCHANGED <<position, committed>>
          /\ loop'[l].at = "commit" => EventOf(l) \in marks' \/ MessageOf(l) \in dead'
      BY <1>8 DEF GoesOn, TriesAgain, AfterFailure, Away, Part, Off
    <2>2. loop'[l].at = "commit" => Settled(Part(l), Off(l))'
      BY <2>1 DEF Settled, EventOf, MessageOf, Part, Off, EventAt
    <2>3. BehindOK(l)'
      BY <2>1, <2>2, <1>0, <1>2 DEF BehindOK, Part, Off
    <2>4. ASSUME NEW p \in Partitions, owner[p] = l
          PROVE  FetchedOK(p)'
      BY <2>1, <2>4, <1>0, <1>1, <1>2 DEF FetchedOK, MessageOf, Away
    <2> QED BY <1>3, <1>4, <1>5, <2>1, <2>3, <2>4 DEF SkipInv
  <1>9. ASSUME Finishes(l)
        PROVE  SkipInv'
    <2>1. loop[l].at = "commit" /\ loop'[l].at = "idle" /\ UNCHANGED position /\ OffsetPasses(l)
      BY <1>9 DEF Finishes, NotInMessage
    <2>2. BehindOK(l)'
      BY <2>1 DEF BehindOK, Away
    <2>3. Settled(Part(l), Off(l))
      BY <2>1, <1>0 DEF BehindOK, Away
    <2>4. ASSUME NEW p \in Partitions, owner[p] = l
          PROVE  FetchedOK(p)'
      <3>1. \A i \in 1..position[p] : Settled(p, i) \/ <<p, i>> = MessageOf(l)
        BY <2>1, <2>4, <1>0 DEF FetchedOK
      <3>2. \A i \in 1..position[p] : Settled(p, i)
        BY <3>1, <2>3 DEF MessageOf, Part, Off
      <3> QED BY <2>1, <3>2, <1>2 DEF FetchedOK
    <2> QED BY <1>3, <1>4, <1>6, <2>1, <2>2, <2>4 DEF SkipInv
  <1>10. ASSUME Ends(l)
         PROVE  SkipInv'
    <2>1. loop'[l].at \in {"stopped", "down"} /\ UNCHANGED position
      BY <1>10 DEF Ends
    <2>2. BehindOK(l)'
      BY <2>1 DEF BehindOK, Away
    <2>3. ASSUME NEW p \in Partitions, owner[p] = l
          PROVE  FetchedOK(p)'
      BY <2>1, <2>3, <1>1 DEF FetchedOK
    <2>4. NothingSkipped'
      BY <1>10, <1>5, <1>6 DEF Ends
    <2> QED BY <1>3, <1>4, <2>1, <2>2, <2>3, <2>4 DEF SkipInv
  <1>11. ASSUME ComesBack(l)
         PROVE  SkipInv'
    <2>1. loop'[l].at = "idle" /\ committed' = committed
          /\ position' = [p \in Partitions |-> IF owner[p] = l THEN committed[p] ELSE position[p]]
      BY <1>11 DEF ComesBack, NotInMessage
    <2>2. BehindOK(l)'
      BY <2>1 DEF BehindOK, Away
    <2>3. ASSUME NEW p \in Partitions, owner[p] = l
          PROVE  FetchedOK(p)'
      BY <2>1, <2>3, <1>0, <1>2 DEF FetchedOK
    <2> QED BY <1>3, <1>4, <1>5, <2>1, <2>2, <2>3 DEF SkipInv
  <1> QED BY <1>7, <1>8, <1>9, <1>10, <1>11 DEF Does

(* Each step keeps it; after a rebalance all that is read is settled.      *)
LEMMA SkipStep == TypeInv /\ SkipInv /\ [Next]_vars => SkipInv'
  <1> SUFFICES ASSUME TypeInv, SkipInv, [Next]_vars
               PROVE  SkipInv'
    OBVIOUS
  <1>1. ASSUME UNCHANGED <<loop, committed, marks, dead>>
        PROVE  NothingSkipped' /\ \A l \in Loops : BehindOK(l)'
    BY <1>1 DEF SkipInv, NothingSkipped, Settled, BehindOK, Part, Off
  <1>2. CASE UNCHANGED <<loop, committed, marks, dead, owner, position>>
    <2>1. \A p \in Partitions : FetchedOK(p)'
      BY <1>2 DEF SkipInv, FetchedOK, Settled, MessageOf
    <2> QED BY <1>1, <1>2, <2>1 DEF SkipInv
  <1>3. CASE UNCHANGED <<loop, committed, marks, dead>> /\ position' = committed
    <2>1. \A p \in Partitions : FetchedOK(p)'
      BY <1>3 DEF SkipInv, NothingSkipped, FetchedOK, Settled
    <2> QED BY <1>1, <1>3, <2>1 DEF SkipInv
  <1> QED BY <1>2, <1>3, StepIs, SkipDoes DEF Interrupts

(* It holds in every behaviour. *)
LEMMA SkipInvHolds == Spec => []SkipInv
  <1>1. Init => SkipInv
    BY DEF Init, SkipInv, NothingSkipped, BehindOK, FetchedOK, NotInMessage, Away
  <1> QED BY <1>1, SkipStep, TypeInvHolds, PTL DEF Spec

(* The group's offset passes a message only when its event has taken       *)
(* effect, was not meant for this service, or was handed to the dead       *)
(* letters: over any rebalances, crashes, redeliveries and offsets that go *)
(* backwards because two loops commit them.                                *)
THEOREM NothingSkippedHolds == Spec => []NothingSkipped
  <1>1. SkipInv => NothingSkipped
    BY DEF SkipInv
  <1> QED BY <1>1, SkipInvHolds, PTL

-----------------------------------------------------------------------------
(* Attempts *)

(* An event whose handling can succeed has been tried as often as an       *)
(* attempt has failed, at most; it is on its way to the dead letters only  *)
(* after the last one, or after a shutdown that found it in hand.          *)
BlipOK(l) ==
    loop[l].at \notin Away =>
        /\ loop[l].at \in {"begin", "apply"} => Kind[EventOf(l)] \in {"rejected", "handled"}
        /\ Kind[EventOf(l)] # "rejected" /\ l \notin cancelled => loop[l].tries <= attempts
        /\ loop[l].at = "deadletter" =>
               \/ Kind[EventOf(l)] \in {"malformed", "rejected"}
               \/ l \in cancelled
               \/ loop[l].tries = MaxAttempts
        /\ l \in cancelled => MessageOf(l) \in interrupted

BlipInv == BlipsHeal /\ \A l \in Loops : BlipOK(l)

(* A loop's step keeps count. *)
LEMMA BlipDoes ==
  ASSUME TypeInv, CancelOK, BlipInv, NEW l \in Loops, Does(l)
  PROVE  BlipInv'
  <1>0. /\ LoopsOK /\ owner \in [Partitions -> Loops] /\ Within(position) /\ Within(committed)
        /\ attempts \in Nat /\ attempts <= MaxAttempts /\ MaxAttempts \in Nat \ {0}
        /\ \A m \in Loops : BlipOK(m) /\ loop[m].tries \in Nat
    <2>1. \A m \in Loops : loop[m].tries \in Nat
      BY NumbersAre DEF TypeInv, LoopsOK, LoopStates
    <2>2. attempts \in Nat /\ attempts <= MaxAttempts
      BY NumbersAre DEF TypeInv, CountsOK
    <2> QED BY <2>1, <2>2, NumbersAre DEF TypeInv, GroupOK, BlipInv
  <1>1. \A m \in Loops \ {l} : loop'[m] = loop[m]
    BY DEF Does
  <1>2. /\ attempts' = attempts \/ (attempts' = attempts + 1 /\ attempts # MaxAttempts)
        /\ cancelled' \in {cancelled, cancelled \cup {l}, cancelled \ {l}}
        /\ interrupted' = interrupted
    BY DEF Does, Fetches, GoesOn, TriesAgain, CountAttempt, Finishes, Ends, ComesBack
  <1>3. ASSUME NEW m \in Loops \ {l}
        PROVE  BlipOK(m)'
    <2>1. loop'[m] = loop[m] /\ (m \in cancelled' <=> m \in cancelled)
          /\ EventOf(m)' = EventOf(m) /\ MessageOf(m)' = MessageOf(m)
      BY <1>1, <1>2 DEF EventOf, EventAt, MessageOf
    <2>2. attempts <= attempts'
      BY <1>0, <1>2
    <2> QED BY <2>1, <2>2, <1>0, <1>2 DEF BlipOK
  <1>4. ASSUME dead' = dead
        PROVE  BlipsHeal'
    BY <1>0, <1>2, <1>4 DEF BlipInv, BlipsHeal, EventAt
  <1>5. ASSUME loop[l].at = "deadletter", dead' = dead \cup {MessageOf(l)}, attempts' = attempts
        PROVE  BlipsHeal'
    <2>1. \/ Kind[EventOf(l)] \in {"malformed", "rejected"}
          \/ attempts = MaxAttempts
          \/ MessageOf(l) \in interrupted
      BY <1>0, <1>5 DEF BlipOK, Away
    <2>2. EventAt(MessageOf(l)[1], MessageOf(l)[2]) = EventOf(l)
      BY DEF MessageOf, EventOf
    <2> QED BY <1>2, <1>5, <2>1, <2>2 DEF BlipInv, BlipsHeal, EventAt
  <1>6. ASSUME NEW p \in Partitions, Fetches(l, p)
        PROVE  BlipInv'
    <2>1. Kind[EventAt(p, position[p] + 1)] \in Kinds
      BY <1>6, LogIs, InboundAssumption DEF Fetches, EventAt
    <2>2. loop'[l].at = Dispatch(EventAt(p, position[p] + 1)) /\ loop'[l].tries = 0
          /\ EventOf(l)' = EventAt(p, position[p] + 1) /\ attempts' = attempts
      BY <1>6 DEF Fetches, EventOf, EventAt
    <2>3. l \notin cancelled'
      BY <1>6 DEF Fetches, CancelOK
    <2>4. BlipOK(l)'
      BY <2>1, <2>2, <2>3, <1>0 DEF BlipOK, Dispatch, Kinds
    <2> QED BY <1>3, <1>4, <1>6, <2>4 DEF BlipInv, Fetches
  <1>7. ASSUME GoesOn(l)
        PROVE  BlipInv'
    <2>1. EventOf(l)' = EventOf(l) /\ MessageOf(l)' = MessageOf(l)
      BY <1>7 DEF GoesOn, EventOf, EventAt, MessageOf, Part, Off
    <2>2. BlipOK(l)'
      BY <1>7, <2>1, <1>0 DEF BlipOK, GoesOn, Away
    <2> QED BY <1>3, <1>4, <1>5, <1>7, <2>2 DEF BlipInv, GoesOn
  <1>8. ASSUME TriesAgain(l)
        PROVE  BlipInv'
    <2>1. EventOf(l)' = EventOf(l) /\ MessageOf(l)' = MessageOf(l) /\ UNCHANGED <<cancelled, interrupted>>
      BY <1>8 DEF TriesAgain, EventOf, EventAt, MessageOf, Part, Off
    <2>2. loop[l].at \in {"begin", "apply"} /\ loop[l].tries < MaxAttempts
          /\ loop'[l].tries = loop[l].tries + 1 /\ loop'[l].at = AfterFailure(l)
      BY <1>8, <1>0 DEF TriesAgain, LoopsOK, Holds, Away
    <2>3. Kind[EventOf(l)] \in {"rejected", "handled"}
          /\ (l \in cancelled => MessageOf(l) \in interrupted)
          /\ (Kind[EventOf(l)] # "rejected" /\ l \notin cancelled => loop[l].tries <= attempts)
      BY <2>2, <1>0 DEF BlipOK, Away
    <2>4. Kind[EventOf(l)] # "rejected" /\ l \notin cancelled => loop'[l].tries <= attempts'
      <3> SUFFICES ASSUME Kind[EventOf(l)] # "rejected", l \notin cancelled
                   PROVE  loop'[l].tries <= attempts'
        OBVIOUS
      <3>1. attempts' = IF attempts = MaxAttempts THEN attempts ELSE attempts + 1
        BY <1>8 DEF TriesAgain, CountAttempt
      <3> QED BY <3>1, <2>2, <2>3, <1>0
    <2>5. loop'[l].at = "deadletter" => l \in cancelled \/ loop'[l].tries = MaxAttempts
      BY <2>2, <1>0 DEF AfterFailure
    <2>6. BlipOK(l)'
      BY <2>1, <2>2, <2>3, <2>4, <2>5 DEF BlipOK
    <2> QED BY <1>3, <1>4, <1>8, <2>6 DEF BlipInv, TriesAgain
  <1>9. ASSUME Finishes(l) \/ Ends(l) \/ ComesBack(l)
        PROVE  BlipInv'
    <2>1. loop'[l].at \in Away
      BY <1>9 DEF Finishes, Ends, ComesBack, NotInMessage, Away
    <2>2. BlipOK(l)'
      BY <2>1 DEF BlipOK
    <2> QED BY <1>3, <1>4, <1>5, <1>9, <2>2 DEF BlipInv, Finishes, Ends, ComesBack
  <1> QED BY <1>6, <1>7, <1>8, <1>9 DEF Does

(* Each step keeps it. *)
LEMMA BlipStep == TypeInv /\ CancelOK /\ BlipInv /\ [Next]_vars => BlipInv'
  <1> SUFFICES ASSUME TypeInv, CancelOK, BlipInv, [Next]_vars
               PROVE  BlipInv'
    OBVIOUS
  <1>1. ASSUME NEW l \in Loops, Interrupts(l)
        PROVE  BlipInv'
    <2>1. BlipsHeal'
      BY <1>1 DEF Interrupts, BlipInv, BlipsHeal, EventAt
    <2>2. ASSUME NEW m \in Loops
          PROVE  BlipOK(m)'
      <3>1. loop'[m] = loop[m] /\ EventOf(m)' = EventOf(m) /\ MessageOf(m)' = MessageOf(m)
        BY <1>1 DEF Interrupts, EventOf, EventAt, MessageOf
      <3> QED BY <1>1, <3>1 DEF Interrupts, BlipInv, BlipOK
    <2> QED BY <2>1, <2>2 DEF BlipInv
  <1>2. CASE UNCHANGED <<loop, dead, attempts, cancelled, interrupted>>
    <2>1. BlipsHeal'
      BY <1>2 DEF BlipInv, BlipsHeal, EventAt
    <2>2. ASSUME NEW m \in Loops
          PROVE  BlipOK(m)'
      <3>1. loop'[m] = loop[m] /\ EventOf(m)' = EventOf(m) /\ MessageOf(m)' = MessageOf(m)
        BY <1>2 DEF EventOf, EventAt, MessageOf
      <3> QED BY <1>2, <3>1 DEF BlipInv, BlipOK
    <2> QED BY <2>1, <2>2 DEF BlipInv
  <1> QED BY <1>1, <1>2, StepIs, BlipDoes

(* An event that can be handled is dead-lettered only when as many         *)
(* attempts have failed as it is given, or when a shutdown found it in     *)
(* hand: failed statements, lost answers, broken deadlocks, crashes and    *)
(* shutdowns of loops that handle something else heal.                     *)
THEOREM BlipsHealHolds == Spec => []BlipsHeal
  <1>1. Init => BlipInv
    BY DEF Init, BlipInv, BlipsHeal, BlipOK, NotInMessage, Away
  <1>2. BlipInv => BlipsHeal
    BY DEF BlipInv
  <1> QED BY <1>1, <1>2, BlipStep, TypeInvHolds, CancelHolds, PTL DEF Spec

-----------------------------------------------------------------------------
(* The inbox *)

(* The event a loop in state k is handling. *)
Ev(k) == EventAt(k.part, k.off)

InSeq(s, x) == \E i \in DOMAIN s : s[i] = x

(* The new writes of e to row r before the n-th. *)
NewBefore(e, r, n) == {i \in Inbox!NewWrites(e, r) : i < n}

(* What a transaction has written is its event's new writes so far, in     *)
(* their order, whoever commits meanwhile; and each unit so far is in its  *)
(* pool.                                                                   *)
Carries(k, r) == Inbox!Lists(k.staged[r], Ev(k), NewBefore(Ev(k), r, k.next))

Pooled(k) ==
    \A i \in DOMAIN Writes[Ev(k)] :
        LET w == Writes[Ev(k)][i]
        IN  i < k.next /\ w.row \in Pools =>
                InSeq(stored[w.row], w.item) \/ InSeq(k.staged[w.row], w.item)

TxOK(k) ==
    /\ k.at = "begin" => k.next = 1
    /\ k.at = "apply" => Ev(k) \notin marks /\ Pooled(k) /\ \A r \in Rows : Carries(k, r)

(* Two transactions neither handle one event nor have written one row. *)
Apart(k, j) ==
    /\ k.at = "apply" /\ j.at = "apply" => Ev(k) # Ev(j)
    /\ \A r \in Rows : k.staged[r] = <<>> \/ j.staged[r] = <<>>

TxInv ==
    /\ \A l \in Loops : TxOK(loop[l])
    /\ \A l, m \in Loops : l # m => Apart(loop[l], loop[m])

(* What lists nothing is empty. *)
LEMMA ListsNothing ==
  ASSUME NEW e, NEW W
  PROVE  Inbox!Lists(<<>>, e, W) <=> W = {}
  <1>1. DOMAIN <<>> = {}
    OBVIOUS
  <1>2. ASSUME Inbox!Lists(<<>>, e, W)
        PROVE  W = {}
    BY <1>1, <1>2 DEF Inbox!Lists
  <1>3. ASSUME W = {}
        PROVE  Inbox!Lists(<<>>, e, W)
    <2>1. [n \in {} |-> 0] \in [{} -> {}]
      OBVIOUS
    <2> QED BY <1>1, <1>3, <2>1 DEF Inbox!Lists
  <1> QED BY <1>2, <1>3

(* A list grows by the next write. *)
LEMMA ListsNext ==
  ASSUME NEW e, NEW W \in SUBSET Nat, NEW s \in Seq(Items), Inbox!Lists(s, e, W),
         NEW n \in Nat, \A i \in W : i < n, Writes[e][n].item \in Items
  PROVE  Inbox!Lists(Append(s, Writes[e][n].item), e, W \cup {n})
  <1> DEFINE x == Writes[e][n].item
             t == Append(s, x)
  <1>1. /\ Len(s) \in Nat /\ DOMAIN s = 1..Len(s) /\ DOMAIN t = 1..(Len(s) + 1)
        /\ \A i \in 1..Len(s) : t[i] = s[i]
        /\ t[Len(s) + 1] = x
    BY AppendProperties
  <1>2. PICK at \in [DOMAIN s -> W] :
           /\ \A m, k \in DOMAIN s : m < k => at[m] < at[k]
           /\ \A i \in W : \E k \in DOMAIN s : at[k] = i
           /\ \A k \in DOMAIN s : s[k] = Writes[e][at[k]].item
    BY DEF Inbox!Lists
  <1> DEFINE to == [m \in DOMAIN t |-> IF m \in DOMAIN s THEN at[m] ELSE n]
  <1>3. /\ \A m \in DOMAIN s : m \in DOMAIN t /\ m < Len(s) + 1 /\ to[m] = at[m] /\ at[m] \in W
        /\ Len(s) + 1 \in DOMAIN t /\ to[Len(s) + 1] = n
        /\ \A m \in DOMAIN t : m \in DOMAIN s \/ m = Len(s) + 1
    BY <1>1, <1>2
  <1>4. to \in [DOMAIN t -> W \cup {n}]
    BY <1>3
  <1>5. \A m, k \in DOMAIN t : m < k => to[m] < to[k]
    <2> SUFFICES ASSUME NEW m \in DOMAIN t, NEW k \in DOMAIN t, m < k
                 PROVE  to[m] < to[k]
      OBVIOUS
    <2>1. m \in DOMAIN s
      BY <1>1, <1>3
    <2> QED BY <2>1, <1>2, <1>3
  <1>6. \A i \in W \cup {n} : \E k \in DOMAIN t : to[k] = i
    BY <1>2, <1>3
  <1>7. \A k \in DOMAIN t : t[k] = Writes[e][to[k]].item
    BY <1>1, <1>2, <1>3
  <1> HIDE DEF t, to
  <1>8. Inbox!Lists(t, e, W \cup {n})
    BY <1>4, <1>5, <1>6, <1>7 DEF Inbox!Lists
  <1> QED BY <1>8 DEF t

(* Other transactions do not disturb one: they leave the rows it has       *)
(* written alone, and what they add to a row leaves it less to add.        *)
LEMMA StaysTx ==
  ASSUME NEW k \in LoopStates, TxOK(k),
         k.at = "apply" => Ev(k) \notin marks',
         \A r \in Rows : \/ stored'[r] = stored[r]
                         \/ /\ k.staged[r] = <<>>
                            /\ \A i \in DOMAIN stored[r] :
                                  i \in DOMAIN stored'[r] /\ stored'[r][i] = stored[r][i]
  PROVE  TxOK(k)'
  <1>1. \A r \in Rows : \A x : InSeq(stored[r], x) => InSeq(stored'[r], x)
    BY DEF InSeq
  <1>2. ASSUME k.at = "apply", NEW r \in Rows
        PROVE  Carries(k, r)'
    <2>1. Carries(k, r)
      BY <1>2 DEF TxOK
    <2>2. CASE stored'[r] = stored[r]
      <3>1. NewBefore(Ev(k), r, k.next)' = NewBefore(Ev(k), r, k.next)
        BY <2>2 DEF NewBefore, Inbox!NewWrites, Inbox!IsNew, Ev, EventAt
      <3> QED BY <2>1, <3>1 DEF Carries, Inbox!Lists, Ev, EventAt
    <2>3. CASE /\ k.staged[r] = <<>>
               /\ \A i \in DOMAIN stored[r] :
                     i \in DOMAIN stored'[r] /\ stored'[r][i] = stored[r][i]
      <3>1. NewBefore(Ev(k), r, k.next) = {}
        BY <2>1, <2>3, ListsNothing DEF Carries
      <3>2. NewBefore(Ev(k), r, k.next)' \subseteq NewBefore(Ev(k), r, k.next)
        BY <2>3 DEF NewBefore, Inbox!NewWrites, Inbox!IsNew, Ev, EventAt
      <3> QED BY <2>3, <3>1, <3>2, ListsNothing DEF Carries, Ev, EventAt, Inbox!Lists
    <2> QED BY <2>2, <2>3
  <1>3. ASSUME k.at = "apply"
        PROVE  Pooled(k)'
    BY <1>1, <1>3, InboundAssumption DEF Pooled, TxOK, Ev, EventAt
  <1> QED BY <1>2, <1>3 DEF TxOK, Ev, EventAt

(* A step of a loop that is not one inside its transaction: the loop gets  *)
(* out of it, with its effect or without, or was not in one.               *)
Leaves(l) ==
    /\ loop'[l].at # "apply" /\ (loop'[l].at = "begin" => loop'[l].next = 1)
    /\ UNCHANGED <<marks, stored>> \/ CommitEffect(l)

Enters(l) ==
    /\ loop[l].at = "begin" /\ EventOf(l) \notin marks /\ MarkHolders(EventOf(l)) = {}
    /\ loop'[l] = Passed(loop[l], "apply")
    /\ UNCHANGED <<marks, stored>>

(* A failed attempt gets out of its transaction. *)
LEMMA RetryLeaves ==
  ASSUME TypeInv, NEW l \in Loops, loop[l].at \in {"begin", "apply"}, Retry(l),
         UNCHANGED <<marks, stored>> \/ CommitEffect(l)
  PROVE  Leaves(l)
  <1>1. loop'[l] = Retried(loop[l], AfterFailure(l)) /\ loop[l] \in LoopStates
    BY RetryIs DEF TypeInv, LoopsOK
  <1>2. PICK label \in {"begin", "deadletter"} : label = AfterFailure(l)
    BY DEF AfterFailure
  <1> QED BY <1>1, <1>2, FieldsOf DEF Leaves

(* Every step of a loop as seen by the database. *)
LEMMA LoopTransacts ==
  ASSUME TypeInv, NEW l \in Loops,
         \/ Handle(l) \/ Restart(l)
         \/ LoseAnswer(l) \/ FailAttempt(l) \/ StopLoop(l) \/ Crash(l)
  PROVE  Leaves(l) \/ Enters(l) \/ SkipDuplicate(l) \/ Write(l)
  <1>0. loop \in [Loops -> LoopStates] /\ loop[l] \in LoopStates /\ Holds(loop[l]) /\ LoopsOK
    BY DEF TypeInv, LoopsOK
  <1>1. ASSUME NEW k, Moved(l, k)
        PROVE  loop'[l] = k
    BY <1>0, <1>1 DEF Moved
  <1>2. ASSUME NEW p \in Partitions, Fetch(l, p)
        PROVE  Leaves(l)
    <2>1. loop[l].at = "idle" /\ loop'[l] = Fetched(loop[l], p, position[p] + 1)
      BY <1>0, <1>1, <1>2, StepsMove
    <2>2. loop[l].next = 1
      BY <2>1, <1>0 DEF Holds, Away, NotInMessage
    <2>3. loop'[l].at # "apply" /\ loop'[l].next = 1
      BY <2>1, <2>2, <1>0, FieldsOf DEF Dispatch
    <2> QED BY <2>3, <1>2 DEF Leaves, Fetch, database
  <1>3. ASSUME Mark(l)
        PROVE  Leaves(l) \/ Enters(l)
    <2>1. loop[l].at = "begin"
          /\ loop'[l] = Passed(loop[l], IF EventOf(l) \in marks THEN "commit" ELSE "apply")
      BY <1>0, <1>1, <1>3, StepsMove
    <2>2. MarkHolders(EventOf(l)) = {} /\ UNCHANGED <<marks, stored>>
      BY <1>3 DEF Mark, database
    <2>3. CASE EventOf(l) \in marks
      BY <2>1, <2>2, <2>3, <1>0, FieldsOf DEF Leaves
    <2>4. CASE EventOf(l) \notin marks
      BY <2>1, <2>2, <2>4 DEF Enters
    <2> QED BY <2>3, <2>4
  <1>4. ASSUME Reject(l) \/ BreakDeadlock(l) \/ FailAttempt(l)
        PROVE  Leaves(l)
    <2>1. loop[l].at \in {"begin", "apply"} /\ Retry(l) /\ UNCHANGED <<marks, stored>>
      BY <1>4, CircleIs DEF Reject, BreakDeadlock, FailAttempt, Writing, database
    <2> QED BY <2>1, RetryLeaves
  <1>5. ASSUME LoseAnswer(l)
        PROVE  Leaves(l)
    BY <1>5, RetryLeaves DEF LoseAnswer, CommitEffect
  <1>6. ASSUME CommitTx(l)
        PROVE  Leaves(l)
    <2>1. loop'[l] = Effected(loop[l])
      BY <1>0, <1>1, <1>6, StepsMove
    <2> QED BY <2>1, <1>0, <1>6, FieldsOf DEF Leaves, CommitTx
  <1>7. ASSUME DeadLetter(l)
        PROVE  Leaves(l)
    <2>1. loop'[l] = Passed(loop[l], "commit")
      BY <1>0, <1>1, <1>7, StepsMove
    <2> QED BY <2>1, <1>0, <1>7, FieldsOf DEF Leaves, DeadLetter, database
  <1>8. ASSUME CommitOffset(l) \/ Restart(l) \/ StopLoop(l) \/ Crash(l)
        PROVE  Leaves(l)
    <2>1. PICK label \in Away : Moved(l, NotInMessage(label))
      BY <1>8 DEF CommitOffset, Restart, StopLoop, Crash, Moved, Away
    <2>2. loop'[l].at = label
      BY <2>1, <1>1, AwayIs
    <2>3. UNCHANGED <<marks, stored>>
      BY <1>8 DEF CommitOffset, Restart, StopLoop, Crash, database
    <2> QED BY <2>2, <2>3 DEF Leaves, Away
  <1> QED BY <1>2, <1>3, <1>4, <1>5, <1>6, <1>7, <1>8 DEF Handle

(* A shutdown leaves the database alone. *)
LEMMA ShutdownTransacts ==
  ASSUME TypeInv, NEW l \in Loops, Shutdown(l)
  PROVE  (Does(l) /\ Leaves(l)) \/ UNCHANGED <<loop, marks, stored, dead>>
  <1>1. UNCHANGED <<marks, stored, dead>>
    BY DEF Shutdown, database, topic
  <1>2. CASE UNCHANGED loop
    BY <1>1, <1>2
  <1>3. CASE loop' = [loop EXCEPT ![l] = NotInMessage("down")] /\ ~Handling(l)
    <2>1. loop'[l].at = "down"
      BY <1>3 DEF TypeInv, LoopsOK, NotInMessage
    <2>2. Does(l)
      BY <1>3, ShutdownDoes DEF Interrupts, Handling, Away
    <2> QED BY <1>1, <2>1, <2>2 DEF Leaves
  <1> QED BY <1>2, <1>3 DEF Shutdown

(* A step is one of a loop, or leaves loops and database alone. *)
LEMMA StepTransacts ==
  ASSUME TypeInv, [Next]_vars
  PROVE  \/ \E l \in Loops : /\ Does(l)
                             /\ Leaves(l) \/ Enters(l) \/ SkipDuplicate(l) \/ Write(l)
         \/ UNCHANGED <<loop, marks, stored, dead>>
  <1>1. ASSUME NEW f \in [Partitions -> Members], Rebalance(f) \/ TakeOver(f)
        PROVE  UNCHANGED <<loop, marks, stored, dead>>
    BY <1>1, AssignIs
  <1>2. ASSUME UNCHANGED vars
        PROVE  UNCHANGED <<loop, marks, stored, dead>>
    BY <1>2 DEF vars, database, topic
  <1> QED BY <1>1, <1>2, LoopDoes, LoopTransacts, ShutdownTransacts DEF Next, TakeOverAny

(* A sequence begins what it is extended to. *)
LEMMA ConcatBegins ==
  ASSUME NEW s \in Seq(Items), NEW u \in Seq(Items)
  PROVE  /\ u = <<>> => s \o u = s
         /\ \A i \in DOMAIN s : i \in DOMAIN (s \o u) /\ (s \o u)[i] = s[i]
  <1>1. /\ s \o u \in Seq(Items) /\ Len(s \o u) = Len(s) + Len(u)
        /\ \A i \in 1..(Len(s) + Len(u)) :
              (s \o u)[i] = IF i <= Len(s) THEN s[i] ELSE u[i - Len(s)]
    BY ConcatProperties
  <1>2. /\ Len(s) \in Nat /\ Len(u) \in Nat /\ DOMAIN s = 1..Len(s)
        /\ DOMAIN (s \o u) = 1..Len(s \o u)
    BY <1>1
  <1>3. ASSUME NEW i \in DOMAIN s
        PROVE  i \in DOMAIN (s \o u) /\ (s \o u)[i] = s[i]
    <2>1. i \in 1..(Len(s) + Len(u)) /\ i <= Len(s)
      BY <1>2
    <2> QED BY <2>1, <1>1, <1>2
  <1> QED BY <1>3, ConcatEmptySeq

(* What the commit of a transaction does to a row. *)
LEMMA CommitGrows ==
  ASSUME TypeInv, NEW l \in Loops, CommitEffect(l), NEW r \in Rows
  PROVE  /\ stored'[r] = stored[r] \o loop[l].staged[r]
         /\ stored[r] \in Seq(Items) /\ loop[l].staged[r] \in Seq(Items)
         /\ loop[l].staged[r] = <<>> => stored'[r] = stored[r]
         /\ \A i \in DOMAIN stored[r] : i \in DOMAIN stored'[r] /\ stored'[r][i] = stored[r][i]
  <1>1. stored'[r] = stored[r] \o loop[l].staged[r]
    BY DEF CommitEffect
  <1>2. stored[r] \in Seq(Items) /\ loop[l].staged[r] \in Seq(Items)
    BY DEF TypeInv, StoreOK, LoopsOK, LoopStates
  <1>3. PICK s \in Seq(Items), u \in Seq(Items) : s = stored[r] /\ u = loop[l].staged[r]
    BY <1>2
  <1>4. stored'[r] = s \o u
    BY <1>1, <1>3
  <1>5. /\ u = <<>> => stored'[r] = s
        /\ \A i \in DOMAIN s : i \in DOMAIN stored'[r] /\ stored'[r][i] = s[i]
    BY <1>4, ConcatBegins
  <1> QED BY <1>1, <1>3, <1>5

(* Between transactions nothing is staged. *)
LEMMA NotStaged ==
  ASSUME TypeInv, NEW l \in Loops, loop[l].at # "apply"
  PROVE  loop[l].staged = Nothing
  BY DEF TypeInv, LoopsOK, Holds, NotInMessage

(* A transaction begins: no other handles the event, and nothing of it is  *)
(* written yet.                                                            *)
LEMMA TxEnters ==
  ASSUME TypeInv, TxInv, NEW l \in Loops, Does(l), Enters(l)
  PROVE  TxInv'
  <1>1. /\ \A m \in Loops \ {l} : loop'[m] = loop[m]
        /\ loop[l].at = "begin" /\ loop'[l] = Passed(loop[l], "apply")
        /\ UNCHANGED <<marks, stored>>
    BY DEF Does, Enters
  <1>2. PICK k \in LoopStates : k = loop[l]
    BY DEF TypeInv, LoopsOK
  <1> DEFINE j == Passed(k, "apply")
  <1>3. /\ j.at = "apply" /\ j.part = k.part /\ j.off = k.off /\ j.next = 1
        /\ j.staged = Nothing /\ Ev(j) = Ev(k) /\ Ev(j) = EventOf(l)
    <2>1. k.next = 1 /\ k.staged = Nothing
      BY <1>1, <1>2, NotStaged DEF TxInv, TxOK
    <2> QED BY <1>2, <2>1, FieldsOf DEF Ev, EventOf
  <1> HIDE DEF j
  <1>4. TxOK(j)'
    <2>1. Ev(j) \notin marks
      BY <1>3 DEF Enters
    <2>0. \A i \in DOMAIN Writes[Ev(j)] : ~(i < j.next)
      <3>1. EventOf(l) \in Events
        BY <1>1, EventIs DEF TypeInv, Away
      <3>2. Writes[Ev(j)] \in Seq([row : Rows, item : Items])
        BY <3>1, <1>3, InboundAssumption
      <3> QED BY <3>2, <1>3
    <2>2. ASSUME NEW r \in Rows
          PROVE  Carries(j, r)'
      <3>1. NewBefore(Ev(j), r, j.next)' = {}
        BY <2>0 DEF NewBefore, Inbox!NewWrites, Ev, EventAt
      <3>2. j.staged[r] = <<>>
        BY <1>3 DEF Nothing
      <3> QED BY <3>1, <3>2, ListsNothing DEF Carries, Inbox!Lists
    <2>3. Pooled(j)'
      BY <2>0 DEF Pooled, Ev, EventAt
    <2> QED BY <1>1, <1>3, <2>1, <2>2, <2>3 DEF TxOK, Ev, EventAt
  <1>5. ASSUME NEW m \in Loops \ {l}
        PROVE  TxOK(loop[m])' /\ Apart(loop[m], loop[l])' /\ Apart(loop[l], loop[m])'
    <2>1. PICK n \in LoopStates : n = loop[m] /\ TxOK(n)
      BY DEF TypeInv, LoopsOK, TxInv
    <2>2. TxOK(n)'
      BY <2>1, <1>1, StaysTx DEF TxOK
    <2>3. n.at = "apply" => Ev(n) # Ev(j)
      BY <1>3, <2>1 DEF Enters, MarkHolders, Ev, EventOf
    <2>4. \A r \in Rows : j.staged[r] = <<>>
      BY <1>3 DEF Nothing
    <2>5. Apart(n, j) /\ Apart(j, n)
      BY <2>3, <2>4 DEF Apart
    <2> QED BY <2>1, <2>2, <2>5, <1>1, <1>2 DEF j, Apart, Ev, EventAt
  <1>6. ASSUME NEW m \in Loops \ {l}, NEW n \in Loops \ {l}, m # n
        PROVE  Apart(loop[m], loop[n])'
    BY <1>1, <1>6 DEF TxInv, Apart, Ev, EventAt
  <1>7. TxOK(loop[l])'
    BY <1>1, <1>2, <1>4 DEF j
  <1> QED BY <1>5, <1>6, <1>7 DEF TxInv

(* A transaction ends, or there was none. *)
LEMMA TxLeaves ==
  ASSUME TypeInv, TypeInv', TxInv, NEW l \in Loops, Does(l), Leaves(l)
  PROVE  TxInv'
  <1>1. /\ \A m \in Loops \ {l} : loop'[m] = loop[m]
        /\ loop'[l].at # "apply" /\ (loop'[l].at = "begin" => loop'[l].next = 1)
        /\ UNCHANGED <<marks, stored>> \/ CommitEffect(l)
    BY DEF Does, Leaves
  <1>2. \A r \in Rows : loop'[l].staged[r] = <<>>
    <2>1. loop'[l].staged = Nothing
      BY <1>1 DEF TypeInv, LoopsOK, Holds, NotInMessage
    <2> QED BY <2>1 DEF Nothing
  <1>3. TxOK(loop[l])'
    BY <1>1 DEF TxOK
  <1>4. ASSUME NEW m \in Loops \ {l}
        PROVE  Apart(loop[m], loop[l])' /\ Apart(loop[l], loop[m])'
    BY <1>1, <1>2 DEF Apart
  <1>5. ASSUME NEW m \in Loops \ {l}, NEW n \in Loops \ {l}, m # n
        PROVE  Apart(loop[m], loop[n])'
    BY <1>1, <1>5 DEF TxInv, Apart, Ev, EventAt
  <1>6. ASSUME NEW m \in Loops \ {l}
        PROVE  TxOK(loop[m])'
    <2>1. PICK n \in LoopStates : n = loop[m] /\ TxOK(n) /\ Apart(n, loop[l])
      BY DEF TypeInv, LoopsOK, TxInv
    <2>2. CASE UNCHANGED <<marks, stored>>
      BY <2>1, <2>2, <1>1, StaysTx DEF TxOK
    <2>3. CASE CommitEffect(l)
      <3>1. marks' = marks \cup {EventOf(l)} /\ loop[l].at = "apply"
        BY <2>3 DEF CommitEffect
      <3>2. n.at = "apply" => Ev(n) \notin marks'
        BY <2>1, <3>1 DEF TxOK, Apart, Ev, EventOf
      <3>3. \A r \in Rows : \/ stored'[r] = stored[r]
                            \/ /\ n.staged[r] = <<>>
                               /\ \A i \in DOMAIN stored[r] :
                                     i \in DOMAIN stored'[r] /\ stored'[r][i] = stored[r][i]
        BY <2>1, <2>3, CommitGrows DEF Apart
      <3> QED BY <2>1, <3>2, <3>3, <1>1, StaysTx
    <2> QED BY <2>2, <2>3, <1>1
  <1> QED BY <1>3, <1>4, <1>5, <1>6 DEF TxInv

(* The writes of an event. *)
LEMMA WritesAre ==
  ASSUME NEW e \in Events
  PROVE  /\ Len(Writes[e]) \in Nat /\ DOMAIN Writes[e] = 1..Len(Writes[e])
         /\ \A i \in DOMAIN Writes[e] : Writes[e][i] \in [row : Rows, item : Items]
  <1> DEFINE lines == [row : Rows, item : Items]
  <1>1. Writes[e] \in Seq(lines)
    BY InboundAssumption
  <1> HIDE DEF lines
  <1>2. /\ Len(Writes[e]) \in Nat /\ DOMAIN Writes[e] = 1..Len(Writes[e])
        /\ \A i \in DOMAIN Writes[e] : Writes[e][i] \in lines
    BY <1>1, ElementOfSeq
  <1> QED BY <1>2 DEF lines

(* Past a write that is not new, the same are new; past one that is, it    *)
(* is so too.                                                              *)
LEMMA NewNext ==
  ASSUME NEW e \in Events, NEW n \in DOMAIN Writes[e], NEW r
  PROVE  NewBefore(e, r, n + 1) = IF n \in Inbox!NewWrites(e, r)
                                  THEN NewBefore(e, r, n) \cup {n} ELSE NewBefore(e, r, n)
  <1>1. n \in Nat /\ \A i \in Inbox!NewWrites(e, r) : i \in Nat
    BY WritesAre DEF Inbox!NewWrites
  <1>2. \A i \in Inbox!NewWrites(e, r) : i < n + 1 <=> i < n \/ i = n
    BY <1>1
  <1> QED BY <1>1, <1>2 DEF NewBefore

(* What a transaction that is about to write knows. *)
LEMMA WritingIs ==
  ASSUME TypeInv, TxInv, NEW l \in Loops, Writing(l)
  PROVE  \E k \in LoopStates, w \in [row : Rows, item : Items] :
            /\ k = loop[l] /\ w = NextWrite(l) /\ TxOK(k) /\ k.at = "apply"
            /\ w = Writes[Ev(k)][k.next] /\ k.next \in Nat /\ Ev(k) \in Events
            /\ DOMAIN Writes[Ev(k)] = 1..Len(Writes[Ev(k)]) /\ k.next \in DOMAIN Writes[Ev(k)]
            /\ \A i \in DOMAIN Writes[Ev(k)] : Writes[Ev(k)][i] \in [row : Rows, item : Items]
  <1>1. LoopsOK /\ loop[l] \in LoopStates /\ TxOK(loop[l]) /\ loop[l].at = "apply"
    BY DEF TypeInv, LoopsOK, TxInv, Writing
  <1>2. PICK k \in LoopStates : k = loop[l]
    BY <1>1
  <1>3. Ev(k) \in Events /\ Ev(k) = EventOf(l)
    BY <1>1, <1>2, EventIs DEF Ev, EventOf, Away
  <1>5. /\ DOMAIN Writes[Ev(k)] = 1..Len(Writes[Ev(k)]) /\ Len(Writes[Ev(k)]) \in Nat
        /\ \A i \in DOMAIN Writes[Ev(k)] : Writes[Ev(k)][i] \in [row : Rows, item : Items]
    BY <1>3, WritesAre
  <1>6. k.next \in Nat \ {0} /\ k.next <= Len(Writes[Ev(k)])
    BY <1>2, <1>3 DEF Writing, LoopStates
  <1>7. k.next \in DOMAIN Writes[Ev(k)]
    BY <1>5, <1>6
  <1>8. NextWrite(l) = Writes[Ev(k)][k.next]
    BY <1>2, <1>3 DEF NextWrite
  <1> QED BY <1>1, <1>2, <1>3, <1>5, <1>6, <1>7, <1>8

(* A line whose unit is in the pool is passed over: it is not new. *)
LEMMA TxSkips ==
  ASSUME TypeInv, TxInv, NEW l \in Loops, Does(l), SkipDuplicate(l)
  PROVE  TxInv'
  <1>1. PICK k \in LoopStates, w \in [row : Rows, item : Items] :
           /\ k = loop[l] /\ w = NextWrite(l) /\ TxOK(k) /\ k.at = "apply"
           /\ w = Writes[Ev(k)][k.next] /\ k.next \in Nat /\ Ev(k) \in Events
           /\ DOMAIN Writes[Ev(k)] = 1..Len(Writes[Ev(k)]) /\ k.next \in DOMAIN Writes[Ev(k)]
           /\ \A i \in DOMAIN Writes[Ev(k)] : Writes[Ev(k)][i] \in [row : Rows, item : Items]
    BY WritingIs DEF SkipDuplicate
  <1> DEFINE j == Skipped(k)
             e == Ev(k)
  <1>2. /\ j.at = "apply" /\ j.next = k.next + 1 /\ j.staged = k.staged /\ Ev(j) = e
    BY <1>1, FieldsOf DEF Ev
  <1>3. \A m \in Loops \ {l} : loop'[m] = loop[m]
    BY DEF Does
  <1>4. loop'[l] = j /\ UNCHANGED <<marks, stored>>
    <2>1. Moved(l, j)
      BY <1>1, StepsMove DEF TypeInv
    <2> QED BY <2>1 DEF SkipDuplicate, database, TypeInv, LoopsOK, Moved
  <1> HIDE DEF j, e
  <1>5. w.row \in Pools /\ (InSeq(stored[w.row], w.item) \/ InSeq(k.staged[w.row], w.item))
    BY <1>1 DEF SkipDuplicate, IsDuplicate, InSeq
  <1>6. \A r \in Rows : k.next \notin Inbox!NewWrites(e, r)
    <2>1. CASE InSeq(stored[w.row], w.item)
      BY <2>1, <1>1, <1>5 DEF Inbox!NewWrites, Inbox!IsNew, InSeq, e
    <2>2. CASE InSeq(k.staged[w.row], w.item)
      <3>1. Carries(k, w.row)
        BY <1>1 DEF TxOK
      <3>2. PICK i \in NewBefore(e, w.row, k.next) : w.item = Writes[e][i].item
        BY <2>2, <3>1 DEF Carries, Inbox!Lists, InSeq, e
      <3>3. i \in DOMAIN Writes[e] /\ Writes[e][i].row = w.row /\ i < k.next
        BY <3>2 DEF NewBefore, Inbox!NewWrites
      <3>4. Writes[e][i] = w
        BY <3>2, <3>3, <1>1 DEF e
      <3>5. i \in 1..k.next /\ i # k.next
        BY <3>3, <1>1 DEF e
      <3> QED BY <3>4, <3>5, <1>1, <1>5 DEF Inbox!NewWrites, Inbox!IsNew, e
    <2> QED BY <1>5, <2>1, <2>2
  <1>7. TxOK(j)
    <2>1. ASSUME NEW r \in Rows
          PROVE  Carries(j, r)
      <3>1. NewBefore(e, r, k.next + 1) = NewBefore(e, r, k.next)
        BY <1>1, <1>6, NewNext DEF e
      <3> QED BY <3>1, <1>1, <1>2 DEF TxOK, Carries, e
    <2>2. Pooled(j)
      <3>1. \A i \in DOMAIN Writes[e] : i < k.next + 1 => i < k.next \/ i = k.next
        BY <1>1 DEF e
      <3> QED BY <3>1, <1>1, <1>2, <1>5 DEF Pooled, TxOK, e
    <2> QED BY <2>1, <2>2, <1>1, <1>2 DEF TxOK, e
  <1>8. TxOK(j)'
    <2>1. j \in LoopStates
      BY <1>1, StatesFit DEF TypeInv, LoopsOK, j
    <2> QED BY <2>1, <1>4, <1>7, StaysTx DEF TxOK
  <1>9. ASSUME NEW m \in Loops \ {l}
        PROVE  TxOK(loop[m])' /\ Apart(loop[m], loop[l])' /\ Apart(loop[l], loop[m])'
    <2>1. PICK n \in LoopStates : n = loop[m] /\ TxOK(n) /\ Apart(n, k) /\ Apart(k, n)
      BY <1>1 DEF TypeInv, LoopsOK, TxInv
    <2>2. TxOK(n)'
      BY <2>1, <1>4, StaysTx DEF TxOK
    <2>3. Apart(n, j) /\ Apart(j, n)
      BY <2>1, <1>1, <1>2 DEF Apart, e
    <2> QED BY <2>1, <2>2, <2>3, <1>3, <1>4 DEF Apart, Ev, EventAt
  <1>10. ASSUME NEW m \in Loops \ {l}, NEW n \in Loops \ {l}, m # n
         PROVE  Apart(loop[m], loop[n])'
    BY <1>3, <1>10 DEF TxInv, Apart, Ev, EventAt
  <1>11. TxOK(loop[l])'
    BY <1>4, <1>8
  <1> QED BY <1>9, <1>10, <1>11 DEF TxInv

(* A sequence that has grown has what it had, and what was appended. *)
LEMMA InAppended ==
  ASSUME NEW s \in Seq(Items), NEW x \in Items
  PROVE  InSeq(Append(s, x), x) /\ \A y : InSeq(s, y) => InSeq(Append(s, x), y)
  <1>1. /\ Len(s) \in Nat /\ DOMAIN s = 1..Len(s) /\ DOMAIN Append(s, x) = 1..(Len(s) + 1)
        /\ \A i \in 1..Len(s) : Append(s, x)[i] = s[i]
        /\ Append(s, x)[Len(s) + 1] = x
    BY AppendProperties
  <1>2. Len(s) + 1 \in DOMAIN Append(s, x) /\ \A i \in DOMAIN s : i \in DOMAIN Append(s, x)
    BY <1>1
  <1> QED BY <1>1, <1>2 DEF InSeq

(* A new write: nobody else has written the row, and no earlier write is   *)
(* the same, for then its unit would be in the pool.                       *)
LEMMA TxWrites ==
  ASSUME TypeInv, TypeInv', TxInv, NEW l \in Loops, Does(l), Write(l)
  PROVE  TxInv'
  <1>1. PICK k \in LoopStates, w \in [row : Rows, item : Items] :
           /\ k = loop[l] /\ w = NextWrite(l) /\ TxOK(k) /\ k.at = "apply"
           /\ w = Writes[Ev(k)][k.next] /\ k.next \in Nat /\ Ev(k) \in Events
           /\ DOMAIN Writes[Ev(k)] = 1..Len(Writes[Ev(k)]) /\ k.next \in DOMAIN Writes[Ev(k)]
           /\ \A i \in DOMAIN Writes[Ev(k)] : Writes[Ev(k)][i] \in [row : Rows, item : Items]
    BY WritingIs DEF Write
  <1> DEFINE j == Written(k, w)
             e == Ev(k)
             t == Append(k.staged[w.row], w.item)
  <1>2. /\ j.at = "apply" /\ j.next = k.next + 1 /\ Ev(j) = e
        /\ j.staged = Extended(k.staged, w)
    BY <1>1, FieldsOf DEF Ev
  <1>3. /\ w.row \in Rows /\ w.item \in Items
        /\ k.staged \in [Rows -> Seq(Items)] /\ k.staged[w.row] \in Seq(Items)
    BY DEF LoopStates
  <1>4. j.staged[w.row] = t /\ \A r \in Rows \ {w.row} : j.staged[r] = k.staged[r]
    BY <1>2, <1>3 DEF Extended
  <1>5. \A m \in Loops \ {l} : loop'[m] = loop[m]
    BY DEF Does
  <1>6. loop'[l] = j /\ UNCHANGED <<marks, stored>>
    <2>1. Moved(l, j)
      BY <1>1, StepsMove DEF TypeInv
    <2> QED BY <2>1 DEF Write, database, TypeInv, LoopsOK, Moved
  <1>7. /\ w.row \in Pools => ~InSeq(stored[w.row], w.item) /\ ~InSeq(k.staged[w.row], w.item)
        /\ \A m \in Loops \ {l} : loop[m].staged[w.row] = <<>>
    BY <1>1 DEF Write, IsDuplicate, InSeq, RowHolders
  <1> HIDE DEF j, e, t
  <1>8. k.next \in Inbox!NewWrites(e, w.row)
        /\ \A r \in Rows \ {w.row} : k.next \notin Inbox!NewWrites(e, r)
    <2>1. ASSUME w.row \in Pools, NEW i \in 1..k.next, i # k.next
          PROVE  Writes[e][i] # w
      <3>1. i \in DOMAIN Writes[e] /\ i < k.next
        BY <2>1, <1>1 DEF e
      <3> QED BY <2>1, <3>1, <1>1, <1>7 DEF TxOK, Pooled, e
    <2>2. w.row \in Pools => \A i \in DOMAIN stored[w.row] : stored[w.row][i] # w.item
      BY <1>7 DEF InSeq
    <2>3. Inbox!IsNew(e, k.next)
      BY <2>1, <2>2, <1>1 DEF Inbox!IsNew, e
    <2> QED BY <2>3, <1>1 DEF Inbox!NewWrites, e
  <1>9. TxOK(j)
    <2>1. ASSUME NEW r \in Rows \ {w.row}
          PROVE  Carries(j, r)
      <3>1. NewBefore(e, r, k.next + 1) = NewBefore(e, r, k.next)
        BY <1>1, <1>8, NewNext DEF e
      <3> QED BY <3>1, <1>1, <1>2, <1>4 DEF TxOK, Carries, e
    <2>2. Carries(j, w.row)
      <3> DEFINE W == NewBefore(e, w.row, k.next)
      <3>1. NewBefore(e, w.row, k.next + 1) = W \cup {k.next}
        BY <1>1, <1>8, NewNext DEF e
      <3>2. W \in SUBSET Nat /\ \A i \in W : i < k.next
        BY <1>1 DEF NewBefore, Inbox!NewWrites, e
      <3>3. Inbox!Lists(k.staged[w.row], e, W)
        BY <1>1, <1>3 DEF TxOK, Carries, e
      <3> HIDE DEF W
      <3>4. Inbox!Lists(t, e, W \cup {k.next})
        <4>1. w = Writes[e][k.next]
          BY <1>1 DEF e
        <4>2. Writes[e][k.next].item \in Items
          BY <4>1, <1>3
        <4>3. Inbox!Lists(Append(k.staged[w.row], Writes[e][k.next].item), e, W \cup {k.next})
          BY <3>2, <3>3, <4>2, <1>1, <1>3, ListsNext
        <4> QED BY <4>1, <4>3 DEF t
      <3> QED BY <3>1, <3>4, <1>2, <1>4 DEF Carries
    <2>3. Pooled(j)
      <3>1. \A i \in DOMAIN Writes[e] : i < k.next + 1 => i < k.next \/ i = k.next
        BY <1>1 DEF e
      <3>2. InSeq(t, w.item) /\ \A x : InSeq(k.staged[w.row], x) => InSeq(t, x)
        BY <1>3, InAppended DEF t
      <3>3. ASSUME NEW i \in DOMAIN Writes[e], i < k.next + 1, Writes[e][i].row \in Pools
            PROVE  LET v == Writes[e][i]
                   IN  InSeq(stored[v.row], v.item) \/ InSeq(j.staged[v.row], v.item)
        <4>1. PICK v \in [row : Rows, item : Items] : v = Writes[e][i]
          BY <1>1 DEF e
        <4>2. v.row \in Rows
          OBVIOUS
        <4>3. CASE i = k.next
          BY <4>1, <4>3, <1>1, <1>4, <3>2 DEF e
        <4>4. CASE i < k.next
          <5>1. InSeq(stored[v.row], v.item) \/ InSeq(k.staged[v.row], v.item)
            BY <3>3, <4>1, <4>4, <1>1 DEF TxOK, Pooled, e
          <5> QED BY <4>1, <4>2, <5>1, <1>4, <3>2
        <4> QED BY <3>1, <3>3, <4>3, <4>4
      <3> QED BY <3>3, <1>2 DEF Pooled
    <2> QED BY <2>1, <2>2, <2>3, <1>1, <1>2 DEF TxOK, e
  <1>10. TxOK(j)'
    <2>1. j \in LoopStates
      BY <1>1, StatesFit DEF TypeInv, LoopsOK, j
    <2> QED BY <2>1, <1>6, <1>9, StaysTx DEF TxOK
  <1>11. ASSUME NEW m \in Loops \ {l}
         PROVE  TxOK(loop[m])' /\ Apart(loop[m], loop[l])' /\ Apart(loop[l], loop[m])'
    <2>1. PICK n \in LoopStates : n = loop[m] /\ TxOK(n) /\ Apart(n, k) /\ Apart(k, n)
      BY <1>1 DEF TypeInv, LoopsOK, TxInv
    <2>2. TxOK(n)'
      BY <2>1, <1>6, StaysTx DEF TxOK
    <2>3. n.staged[w.row] = <<>>
      BY <2>1, <1>7
    <2>4. Apart(n, j) /\ Apart(j, n)
      BY <2>1, <2>3, <1>1, <1>2, <1>4 DEF Apart, e
    <2> QED BY <2>1, <2>2, <2>4, <1>5, <1>6 DEF Apart, Ev, EventAt
  <1>12. ASSUME NEW m \in Loops \ {l}, NEW n \in Loops \ {l}, m # n
         PROVE  Apart(loop[m], loop[n])'
    BY <1>5, <1>12 DEF TxInv, Apart, Ev, EventAt
  <1>13. TxOK(loop[l])'
    BY <1>6, <1>10
  <1> QED BY <1>11, <1>12, <1>13 DEF TxInv

(* Each step keeps it. *)
LEMMA TxStep == TypeInv /\ TxInv /\ [Next]_vars => TxInv'
  <1> SUFFICES ASSUME TypeInv, TxInv, [Next]_vars
               PROVE  TxInv'
    OBVIOUS
  <1>1. TypeInv'
    BY TypeStep
  <1>2. CASE UNCHANGED <<loop, marks, stored>>
    <2>1. ASSUME NEW l \in Loops
          PROVE  TxOK(loop[l])'
      <3>1. PICK k \in LoopStates : k = loop[l] /\ TxOK(k)
        BY DEF TypeInv, LoopsOK, TxInv
      <3>2. TxOK(k)'
        BY <3>1, <1>2, StaysTx DEF TxOK
      <3> QED BY <3>1, <3>2, <1>2
    <2>2. ASSUME NEW l \in Loops, NEW m \in Loops, l # m
          PROVE  Apart(loop[l], loop[m])'
      BY <1>2, <2>2 DEF TxInv, Apart, Ev, EventAt
    <2> QED BY <2>1, <2>2 DEF TxInv
  <1> QED BY <1>1, <1>2, StepTransacts, TxEnters, TxLeaves, TxSkips, TxWrites

(* It holds in every behaviour. *)
LEMMA TxInvHolds == Spec => []TxInv
  <1>1. Init => TxInv
    BY DEF Init, TxInv, TxOK, Apart, NotInMessage, Nothing
  <1> QED BY <1>1, TxStep, TypeInvHolds, PTL DEF Spec

(* What a sequence was extended by is its end. *)
LEMMA ConcatEnds ==
  ASSUME NEW u \in Seq(Items), NEW s \in Seq(Items)
  PROVE  SubSeq(u \o s, Len(u) + 1, Len(u \o s)) = s
  <1> DEFINE w == u \o s
             z == SubSeq(w, Len(u) + 1, Len(w))
  <1>1. /\ Len(u) \in Nat /\ Len(s) \in Nat /\ w \in Seq(Items) /\ Len(w) = Len(u) + Len(s)
        /\ \A i \in 1..(Len(u) + Len(s)) : w[i] = IF i <= Len(u) THEN u[i] ELSE s[i - Len(u)]
    BY ConcatProperties
  <1> HIDE DEF w
  <1>2. \A i \in (Len(u) + 1)..Len(w) : w[i] \in Items
    BY <1>1, ElementOfSeq
  <1>3. /\ z \in Seq(Items)
        /\ Len(z) = IF Len(u) + 1 <= Len(w) THEN Len(w) - (Len(u) + 1) + 1 ELSE 0
        /\ \A i \in 1..(Len(w) - (Len(u) + 1) + 1) : z[i] = w[Len(u) + 1 + i - 1]
    BY <1>1, <1>2, SubSeqProperties
  <1> HIDE DEF z
  <1>4. Len(z) = Len(s)
    BY <1>1, <1>3
  <1>5. ASSUME NEW i \in 1..Len(s)
        PROVE  z[i] = s[i]
    <2>1. z[i] = w[Len(u) + i]
      BY <1>1, <1>3
    <2>2. w[Len(u) + i] = s[i]
      BY <1>1
    <2> QED BY <2>1, <2>2
  <1>6. z = s
    BY <1>3, <1>4, <1>5, SeqEqual
  <1> QED BY <1>6 DEF z, w

(* What the commit of a transaction adds to the rows is the event's        *)
(* effect, as a whole.                                                     *)
LEMMA CommitApplies ==
  ASSUME TypeInv, TxInv, NEW l \in Loops, CommitEffect(l)
  PROVE  Inbox!Next
  <1>1. /\ loop[l].at = "apply" /\ Kind[EventOf(l)] = "handled" /\ EventOf(l) \in Events
        /\ marks' = marks \cup {EventOf(l)} /\ loop[l].next > Len(Writes[EventOf(l)])
        /\ stored' = [r \in Rows |-> stored[r] \o loop[l].staged[r]]
    BY EventIs DEF CommitEffect, TypeInv, Away
  <1>2. PICK k \in LoopStates : k = loop[l] /\ TxOK(k)
    BY DEF TypeInv, LoopsOK, TxInv
  <1>3. PICK e \in Events : e = EventOf(l) /\ e = Ev(k)
    BY <1>1, <1>2 DEF Ev, EventOf
  <1>4. e \in {x \in Events : Kind[x] = "handled"} \ marks
    BY <1>1, <1>2, <1>3 DEF TxOK
  <1>5. ASSUME NEW r \in Rows
        PROVE  LET s == SubSeq(stored'[r], Len(stored[r]) + 1, Len(stored'[r]))
               IN  stored'[r] = stored[r] \o s /\ Inbox!Lists(s, e, Inbox!NewWrites(e, r))
    <2>1. PICK u \in Seq(Items), s \in Seq(Items) :
             u = stored[r] /\ s = k.staged[r] /\ stored'[r] = u \o s
      BY <1>2, <1>1 DEF TypeInv, StoreOK, LoopStates
    <2>2. SubSeq(u \o s, Len(u) + 1, Len(u \o s)) = s
      BY ConcatEnds
    <2>3. NewBefore(e, r, k.next) = Inbox!NewWrites(e, r)
      <3>1. \A i \in DOMAIN Writes[e] : i < k.next
        <4>1. k.next \in Nat /\ k.next > Len(Writes[e])
          BY <1>1, <1>2, <1>3 DEF LoopStates
        <4> QED BY <4>1, WritesAre
      <3> QED BY <3>1 DEF NewBefore, Inbox!NewWrites
    <2>4. Inbox!Lists(s, e, Inbox!NewWrites(e, r))
      BY <1>1, <1>2, <1>3, <2>1, <2>3 DEF TxOK, Carries
    <2> QED BY <2>1, <2>2, <2>4
  <1>6. stored' = [r \in Rows |-> stored'[r]]
    BY <1>1
  <1>7. Inbox!Apply(e)
    BY <1>1, <1>3, <1>4, <1>5, <1>6 DEF Inbox!Apply
  <1> QED BY <1>7 DEF Inbox!Next

(* Each step is one of the inbox, or none. *)
LEMMA InboxStep ==
  ASSUME TypeInv, TxInv, [Next]_vars
  PROVE  [Inbox!Next]_(Inbox!inboxVars)
  <1>1. \/ \E l \in Loops : CommitEffect(l)
        \/ UNCHANGED <<marks, stored>>
    BY StepTransacts DEF Leaves, Enters, SkipDuplicate, Write, database
  <1> QED BY <1>1, CommitApplies DEF Inbox!inboxVars

(* onceAtomically: loops, retries, redeliveries, rebalances, crashes,      *)
(* deadlocks and lost answers are steps of the inbox or none: an event     *)
(* takes effect at most once and as a whole, and its mark tells.           *)
THEOREM InboxImplemented == Spec => ImplementsInbox
  <1>1. Init => Inbox!Init
    BY DEF Init, Inbox!Init, Nothing
  <1>2. TypeInv /\ TxInv /\ [Next]_vars => [Inbox!Next]_(Inbox!inboxVars)
    BY InboxStep
  <1> QED BY <1>1, <1>2, TypeInvHolds, TxInvHolds, PTL DEF Spec, ImplementsInbox, Inbox!Spec

-----------------------------------------------------------------------------
(* Views *)

Handleable(e) == Kind[e] = "handled"

NoneLeftOut == \A m \in dead : ~Handleable(EventAt(m[1], m[2]))

(* What the log has before a change that a view shows has taken effect. *)
LogBehind(g) == \A e \in Events : Handleable(e) /\ SentBefore(e, g) => e \in marks

ViewInv ==
    NoneLeftOut => /\ ViewsFollowLog
                   /\ \A r \in Rows \ Pools : \A j \in DOMAIN stored[r] : LogBehind(stored[r][j])

(* What has taken effect before a handled event is the log before it. *)
LEMMA HandledInOrder ==
  ASSUME OneHome, TypeInv, SkipInv, NoneLeftOut, NEW l \in Loops, loop[l].at = "apply"
  PROVE  LogBehind(EventOf(l))
  <1>1. /\ Part(l) \in Partitions /\ Off(l) \in DOMAIN Log[Part(l)]
        /\ EventOf(l) = Log[Part(l)][Off(l)]
        /\ \A i \in 1..Off(l) : i # Off(l) => Settled(Part(l), i)
    BY EventIs DEF TypeInv, SkipInv, BehindOK, Part, Off, EventOf, EventAt, Away
  <1>2. SUFFICES ASSUME NEW e \in Events, Handleable(e), SentBefore(e, EventOf(l))
                 PROVE  e \in marks
    BY DEF LogBehind
  <1>3. PICK p \in Partitions : \E i, k \in DOMAIN Log[p] :
           Log[p][i] = e /\ Log[p][k] = EventOf(l) /\ \A j \in 1..i : Log[p][j] # EventOf(l)
    BY <1>2 DEF SentBefore
  <1>4. PICK i \in DOMAIN Log[p], k \in DOMAIN Log[p] :
           Log[p][i] = e /\ Log[p][k] = EventOf(l) /\ \A j \in 1..i : Log[p][j] # EventOf(l)
    BY <1>3
  <1>5. p = Part(l)
    BY <1>1, <1>4 DEF OneHome
  <1>6. i \in 1..Off(l) /\ i # Off(l)
    BY <1>1, <1>4, <1>5, LogIs
  <1>7. Settled(p, i)
    BY <1>1, <1>5, <1>6
  <1> QED BY <1>2, <1>4, <1>7 DEF Settled, EventAt, NoneLeftOut, Handleable

(* What a transaction has written to a view is its event. *)
LEMMA ViewWrites ==
  ASSUME ViewsShowEvents, NEW k \in LoopStates, TxOK(k), k.at = "apply", Ev(k) \in Events,
         NEW r \in Rows \ Pools, NEW n \in DOMAIN k.staged[r]
  PROVE  k.staged[r][n] = Ev(k)
  <1>1. PICK i \in NewBefore(Ev(k), r, k.next) : k.staged[r][n] = Writes[Ev(k)][i].item
    BY DEF TxOK, Carries, Inbox!Lists
  <1>2. i \in DOMAIN Writes[Ev(k)] /\ Writes[Ev(k)][i].row = r
    BY DEF NewBefore, Inbox!NewWrites
  <1> QED BY <1>1, <1>2 DEF ViewsShowEvents

(* A commit appends its event, which nothing in the view comes after, and  *)
(* what comes before the event has taken effect.                           *)
LEMMA ViewCommit ==
  ASSUME OneHome, ViewsShowEvents, TypeInv, SkipInv, TxInv, ViewInv,
         NEW l \in Loops, CommitEffect(l), NoneLeftOut
  PROVE  /\ ViewsFollowLog'
         /\ \A r \in Rows \ Pools : \A j \in DOMAIN stored'[r] : LogBehind(stored[r][j])'
  <1>1. loop[l].at = "apply" /\ EventOf(l) \in Events /\ Handleable(EventOf(l))
        /\ marks' = marks \cup {EventOf(l)}
    BY EventIs DEF CommitEffect, TypeInv, Away, Handleable
  <1>2. PICK k \in LoopStates : k = loop[l] /\ TxOK(k)
    BY DEF TypeInv, LoopsOK, TxInv
  <1>3. PICK e \in Events : e = EventOf(l) /\ e = Ev(k) /\ Handleable(e)
    BY <1>1, <1>2 DEF Ev, EventOf
  <1>4. e \notin marks
    BY <1>1, <1>2, <1>3 DEF TxOK
  <1>5. \A g : LogBehind(g) => LogBehind(g)' /\ ~SentBefore(e, g)
    BY <1>1, <1>3, <1>4 DEF LogBehind
  <1>6. LogBehind(e)' /\ ~SentBefore(e, e)
    <2>1. LogBehind(e)
      BY <1>1, <1>3, HandledInOrder
    <2> QED BY <2>1, <1>5
  <1>7. ASSUME NEW r \in Rows \ Pools
        PROVE  \A j \in DOMAIN stored'[r] :
               /\ j \in Nat
               /\ \/ j \in DOMAIN stored[r] /\ stored'[r][j] = stored[r][j]
                  \/ stored'[r][j] = e /\ \A i \in DOMAIN stored[r] : i < j
    <2>1. PICK u \in Seq(Items), s \in Seq(Items) :
             u = stored[r] /\ s = k.staged[r] /\ stored'[r] = u \o s
      BY <1>2 DEF TypeInv, StoreOK, LoopStates, CommitEffect
    <2>2. \A n \in DOMAIN s : s[n] = e
      BY <2>1, <1>1, <1>2, <1>3, ViewWrites
    <2>3. /\ Len(u) \in Nat /\ Len(s) \in Nat /\ DOMAIN u = 1..Len(u) /\ DOMAIN s = 1..Len(s)
          /\ DOMAIN (u \o s) = 1..(Len(u) + Len(s))
          /\ \A i \in 1..(Len(u) + Len(s)) :
                (u \o s)[i] = IF i <= Len(u) THEN u[i] ELSE s[i - Len(u)]
      BY ConcatProperties
    <2>4. ASSUME NEW j \in DOMAIN (u \o s)
          PROVE  /\ j \in Nat
                 /\ \/ j \in DOMAIN u /\ (u \o s)[j] = u[j]
                    \/ (u \o s)[j] = e /\ \A i \in DOMAIN u : i < j
      <3>1. CASE j <= Len(u)
        BY <3>1, <2>3
      <3>2. CASE ~(j <= Len(u))
        <4>1. j - Len(u) \in DOMAIN s /\ (u \o s)[j] = s[j - Len(u)] /\ \A i \in DOMAIN u : i < j
          BY <3>2, <2>3
        <4> QED BY <4>1, <2>2
      <3> QED BY <3>1, <3>2, <2>3
    <2> QED BY <2>1, <2>4
  <1>8. ASSUME NEW r \in Rows \ Pools, NEW j \in DOMAIN stored'[r]
        PROVE  LogBehind(stored[r][j])'
    <2>1. PICK g : g = stored'[r][j]
      OBVIOUS
    <2>2. LogBehind(g)'
      BY <2>1, <1>5, <1>6, <1>7 DEF ViewInv
    <2> QED BY <2>1, <2>2 DEF LogBehind, SentBefore
  <1>9. ASSUME NEW r \in Rows \ Pools, NEW i \in DOMAIN stored'[r], NEW j \in DOMAIN stored'[r],
               i < j
        PROVE  ~SentBefore(stored'[r][j], stored'[r][i])
    <2>1. i \in Nat /\ j \in Nat
      BY <1>7
    <2>2. CASE j \in DOMAIN stored[r] /\ stored'[r][j] = stored[r][j]
      <3>1. i \in DOMAIN stored[r] /\ stored'[r][i] = stored[r][i]
        BY <2>1, <2>2, <1>7, <1>9
      <3> QED BY <2>2, <3>1, <1>9 DEF ViewInv, ViewsFollowLog
    <2>3. CASE stored'[r][j] = e
      <3>1. CASE i \in DOMAIN stored[r] /\ stored'[r][i] = stored[r][i]
        BY <2>3, <3>1, <1>5 DEF ViewInv
      <3>2. CASE stored'[r][i] = e
        BY <2>3, <3>2, <1>6
      <3> QED BY <3>1, <3>2, <1>7
    <2> QED BY <2>2, <2>3, <1>7
  <1> QED BY <1>8, <1>9 DEF ViewsFollowLog, SentBefore

(* Each step keeps it; what is dead-lettered stays so. *)
LEMMA ViewStep ==
  ASSUME OneHome, ViewsShowEvents
  PROVE  TypeInv /\ SkipInv /\ TxInv /\ ViewInv /\ [Next]_vars => ViewInv'
  <1> SUFFICES ASSUME TypeInv, SkipInv, TxInv, ViewInv, [Next]_vars, NoneLeftOut'
               PROVE  /\ ViewsFollowLog'
                      /\ \A r \in Rows \ Pools : \A j \in DOMAIN stored'[r] :
                            LogBehind(stored[r][j])'
    BY DEF ViewInv
  <1>1. dead \subseteq dead' /\ marks \subseteq marks'
    BY StepTransacts DEF Does, Fetches, GoesOn, TriesAgain, Finishes, Ends, ComesBack
  <1>2. NoneLeftOut
    BY <1>1 DEF NoneLeftOut, Handleable, EventAt
  <1>3. \/ \E l \in Loops : CommitEffect(l)
        \/ UNCHANGED <<marks, stored>>
    BY StepTransacts DEF Leaves, Enters, SkipDuplicate, Write, database
  <1>4. CASE UNCHANGED <<marks, stored>>
    BY <1>2, <1>4 DEF ViewInv, ViewsFollowLog, LogBehind, SentBefore, Handleable
  <1> QED BY <1>2, <1>3, <1>4, ViewCommit

(* Redelivery, rebalances, crashes and failed attempts never let an older  *)
(* change of a view replace a newer one of its partition, unless one has   *)
(* been dead-lettered.                                                     *)
THEOREM ViewsFollowLogHolds ==
  OneHome /\ ViewsShowEvents /\ Spec => []ViewsFollowLogUnlessDeadLettered
  <1> SUFFICES ASSUME OneHome, ViewsShowEvents
               PROVE  Spec => []ViewsFollowLogUnlessDeadLettered
    OBVIOUS
  <1>1. Init => ViewInv
    BY DEF Init, ViewInv, ViewsFollowLog, Nothing
  <1>2. ViewInv => ViewsFollowLogUnlessDeadLettered
    BY DEF ViewInv, ViewsFollowLogUnlessDeadLettered, NoneLeftOut, Handleable
  <1> QED BY <1>1, <1>2, ViewStep, TypeInvHolds, SkipInvHolds, TxInvHolds, PTL DEF Spec
=============================================================================
