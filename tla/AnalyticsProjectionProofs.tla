---------------------- MODULE AnalyticsProjectionProofs ----------------------
(***************************************************************************)
(* Proofs about AnalyticsProjection, for any messages sent, partitions,    *)
(* replicas, failures, shutdowns and rebalances.                           *)
(***************************************************************************)
EXTENDS AnalyticsProjection, FiniteSetTheorems, TLAPS

-----------------------------------------------------------------------------
(* The parts of the type invariant *)

Away == {"idle", "stopped", "down"}

Replica == [at : Labels, part : Partitions \cup {NoPartition}, off : Nat]

(* What a replica holds: a message of its partition, or nothing. *)
Holds(l) ==
    IF Handling(l)
    THEN projector[l].part \in Partitions /\ projector[l].off \in On(projector[l].part)
    ELSE projector[l] = Without(projector[l].at)

StoreOK ==
    /\ consumed \subseteq Messages
    /\ claimed \subseteq Messages
    /\ DOMAIN rollup \subseteq {RowKey(e) : e \in Messages}
    /\ rollup \in [DOMAIN rollup -> [Counters -> Nat]]

ReplicasOK == projector \in [Projectors -> Replica] /\ \A l \in Projectors : Holds(l)

GroupOK ==
    /\ owner \in [Partitions -> Projectors]
    /\ position \in [Partitions -> Nat] /\ committed \in [Partitions -> Nat]
    /\ \A p \in Partitions : {position[p], committed[p]} \subseteq {0} \cup On(p)

FaultsOK ==
    /\ faults \in [failures : 0..MaxFailures, shutdowns : 0..MaxShutdowns,
                   handovers : 0..MaxHandovers]
    /\ cut \subseteq Messages

(* The type invariant is the conjunction of the four. *)
LEMMA TypeParts == TypeOK <=> StoreOK /\ ReplicasOK /\ GroupOK /\ FaultsOK
  BY DEF TypeOK, StoreOK, ReplicasOK, GroupOK, FaultsOK, Holds, Replica

(* The places of a partition are places of the log of all messages. *)
LEMMA PlacesAre ==
  ASSUME NEW p, NEW i \in On(p)
  PROVE  i \in Nat /\ i \in DOMAIN Sent /\ Sent[i] \in Messages
  <1>1. DOMAIN Sent \subseteq Nat
    BY AnalyticsAssumption DEF AnalyticsAssumption
  <1> QED BY <1>1 DEF On, Messages

(* A replica that handles a message handles one that was sent. *)
LEMMA EventIs ==
  ASSUME ReplicasOK, NEW l \in Projectors, Handling(l)
  PROVE  EventOf(l) \in Messages
  <1>1. projector[l].off \in On(projector[l].part)
    BY DEF ReplicasOK, Holds
  <1> QED BY <1>1, PlacesAre DEF EventOf

(* A message's key of the read model, and the message's type. *)
LEMMA MessagesAre ==
  ASSUME NEW e \in Messages
  PROVE  e.at \in Nat /\ e.at # 0 /\ e.readable \in BOOLEAN
  BY AnalyticsAssumption DEF AnalyticsAssumption

-----------------------------------------------------------------------------
(* How a replica moves *)

(* A step of a replica to a label: what the others are at stays, and what  *)
(* it holds is kept or let go.                                             *)
LEMMA Moves ==
  ASSUME ReplicasOK, NEW l \in Projectors, NEW label \in Labels, Goto(l, label),
         label \notin Away => Handling(l)
  PROVE  /\ ReplicasOK'
         /\ \A m \in Projectors \ {l} : projector'[m] = projector[m]
         /\ projector'[l].at = label
         /\ label \notin Away => projector'[l].off = projector[l].off
  <1>1. projector \in [Projectors -> Replica] /\ projector[l] \in Replica /\ Holds(l)
    BY DEF ReplicasOK
  <1> DEFINE q == IF label \in Away THEN Without(label) ELSE [projector[l] EXCEPT !.at = label]
  <1>2. projector' = [projector EXCEPT ![l] = q]
    BY <1>1 DEF Goto, Away
  <1>3. ASSUME label \in Away
        PROVE  q \in Replica /\ q.at = label /\ q = Without(label)
    BY <1>3 DEF Without, Replica
  <1>4. ASSUME label \notin Away
        PROVE  /\ q \in Replica
               /\ q.at = label
               /\ q.part = projector[l].part
               /\ q.off = projector[l].off
    BY <1>1, <1>4 DEF Replica
  <1>5. q \in Replica /\ q.at = label
    BY <1>3, <1>4
  <1> HIDE DEF q
  <1>6. /\ projector' \in [Projectors -> Replica]
        /\ projector'[l] = q
        /\ \A m \in Projectors \ {l} : projector'[m] = projector[m]
    BY <1>1, <1>2, <1>5
  <1>7. \A m \in Projectors \ {l} : Holds(m)'
    BY <1>6 DEF ReplicasOK, Holds, Handling
  <1>8. Holds(l)'
    <2>1. CASE label \in Away
      BY <2>1, <1>3, <1>6 DEF Holds, Handling, Away
    <2>2. CASE label \notin Away
      BY <2>2, <1>1, <1>4, <1>6 DEF Holds, Handling, Away
    <2> QED BY <2>1, <2>2
  <1> QED BY <1>4, <1>5, <1>6, <1>7, <1>8 DEF ReplicasOK

(* A replica takes up a message of a partition. *)
LEMMA Reads ==
  ASSUME ReplicasOK, GroupOK, NEW l \in Projectors, NEW p \in Partitions, ReadMessage(l, p)
  PROVE  /\ ReplicasOK' /\ GroupOK'
         /\ \A m \in Projectors \ {l} : projector'[m] = projector[m]
         /\ projector'[l].at = "offset"
  <1>1. PICK i \in On(p) :
          /\ position' = [position EXCEPT ![p] = i]
          /\ projector' = [projector EXCEPT ![l] = [at |-> "offset", part |-> p, off |-> i]]
    BY DEF ReadMessage
  <1>2. i \in Nat
    BY <1>1, PlacesAre
  <1> DEFINE q == [at |-> "offset", part |-> p, off |-> i]
  <1>3. q \in Replica /\ q.at = "offset" /\ q.part = p /\ q.off = i
    BY <1>2 DEF Replica, Labels
  <1>4. projector' = [projector EXCEPT ![l] = q]
    BY <1>1
  <1> HIDE DEF q
  <1>5. /\ projector' \in [Projectors -> Replica]
        /\ projector'[l] = q
        /\ \A m \in Projectors \ {l} : projector'[m] = projector[m]
    BY <1>3, <1>4 DEF ReplicasOK
  <1>6. \A m \in Projectors \ {l} : Holds(m)'
    BY <1>5 DEF ReplicasOK, Holds, Handling
  <1>7. Holds(l)'
    BY <1>3, <1>5 DEF Holds, Handling
  <1>8. GroupOK'
    <2>1. owner' = owner /\ committed' = committed
      BY DEF ReadMessage
    <2>2. position' \in [Partitions -> Nat]
      BY <1>1, <1>2 DEF GroupOK
    <2>3. \A s \in Partitions : position'[s] \in {0} \cup On(s)
      BY <1>1 DEF GroupOK
    <2> QED BY <2>1, <2>2, <2>3 DEF GroupOK
  <1> QED BY <1>3, <1>5, <1>6, <1>7, <1>8 DEF ReplicasOK

(* What cuts a handling short is noted. *)
LEMMA Cuts ==
  ASSUME ReplicasOK, FaultsOK, NEW l \in Projectors, Cut(l)
  PROVE  cut' \subseteq Messages
  BY EventIs DEF Cut, FaultsOK

(* A failure is counted, up to the bound. *)
LEMMA Fails ==
  ASSUME ReplicasOK, FaultsOK, NEW l \in Projectors, Fail(l)
  PROVE  FaultsOK'
  <1>1. MaxFailures \in Nat
    BY AnalyticsAssumption DEF AnalyticsAssumption
  <1>2. /\ faults.failures \in 0..MaxFailures /\ faults.failures < MaxFailures
        /\ faults.shutdowns \in 0..MaxShutdowns /\ faults.handovers \in 0..MaxHandovers
    BY DEF FaultsOK, Fail
  <1>3. faults.failures + 1 \in 0..MaxFailures
    BY <1>1, <1>2
  <1>4. faults' = [faults EXCEPT !.failures = faults.failures + 1]
    BY DEF Fail
  <1>5. faults' \in [failures : 0..MaxFailures, shutdowns : 0..MaxShutdowns,
                     handovers : 0..MaxHandovers]
    BY <1>3, <1>4 DEF FaultsOK
  <1> QED BY <1>5, Cuts DEF FaultsOK, Fail

(* A replica commits the place of the message it holds. *)
LEMMA Commits ==
  ASSUME ReplicasOK, GroupOK, NEW l \in Projectors, Handling(l),
         Commit(l) \/ UNCHANGED committed, UNCHANGED <<owner, position>>
  PROVE  GroupOK'
  <1>1. projector[l].part \in Partitions /\ projector[l].off \in On(projector[l].part)
    BY DEF ReplicasOK, Holds
  <1>2. projector[l].off \in Nat
    BY <1>1, PlacesAre
  <1>3. CASE Commit(l)
    <2>1. committed' = [committed EXCEPT ![projector[l].part] = projector[l].off]
      BY <1>3 DEF Commit
    <2>2. committed' \in [Partitions -> Nat]
      BY <1>2, <2>1 DEF GroupOK
    <2>3. \A s \in Partitions : committed'[s] \in {0} \cup On(s)
      BY <1>1, <2>1 DEF GroupOK
    <2> QED BY <2>2, <2>3 DEF GroupOK
  <1>4. CASE UNCHANGED committed
    BY <1>4 DEF GroupOK
  <1> QED BY <1>3, <1>4

(* The upsert makes or finds the row and adds one to one of its counters. *)
LEMMA Upserts ==
  ASSUME StoreOK, NEW e \in Messages, rollup' = UpsertCounter(e)
  PROVE  /\ DOMAIN rollup' = DOMAIN rollup \cup {RowKey(e)}
         /\ DOMAIN rollup' \subseteq {RowKey(f) : f \in Messages}
         /\ rollup' \in [DOMAIN rollup' -> [Counters -> Nat]]
         /\ \A k \in DOMAIN rollup' : \A c \in Counters :
               rollup'[k][c] = (IF k \in DOMAIN rollup THEN rollup[k][c] ELSE 0)
                               + (IF k = RowKey(e) /\ c = e.type THEN 1 ELSE 0)
  <1> DEFINE new == DOMAIN rollup \cup {RowKey(e)}
             old(k, c) == IF k \in DOMAIN rollup THEN rollup[k][c] ELSE 0
             add(k, c) == IF k = RowKey(e) /\ c = e.type THEN 1 ELSE 0
  <1>1. rollup' = [k \in new |-> [c \in Counters |-> old(k, c) + add(k, c)]]
    BY DEF UpsertCounter
  <1>2. \A k : \A c \in Counters : old(k, c) \in Nat
    BY DEF StoreOK
  <1>3. \A k : \A c \in Counters : add(k, c) \in Nat
    OBVIOUS
  <1> HIDE DEF old, add
  <1>4. \A k : \A c \in Counters : old(k, c) + add(k, c) \in Nat
    BY <1>2, <1>3
  <1>5. DOMAIN rollup' = new
    BY <1>1
  <1>6. \A k \in new : rollup'[k] \in [Counters -> Nat]
    BY <1>1, <1>4
  <1>7. rollup' \in [new -> [Counters -> Nat]]
    BY <1>1, <1>4
  <1>8. \A k \in new : \A c \in Counters : rollup'[k][c] = old(k, c) + add(k, c)
    BY <1>1
  <1>9. new \subseteq {RowKey(f) : f \in Messages}
    BY DEF StoreOK
  <1> QED BY <1>5, <1>7, <1>8, <1>9 DEF old, add

-----------------------------------------------------------------------------
(* Type correctness, action by action *)

(* The conditions of the types that a step needs; each is left as it was.  *)
TypeParted == StoreOK /\ ReplicasOK /\ GroupOK /\ FaultsOK

(* The initial states are well typed. *)
LEMMA InitType ==
  ASSUME Init
  PROVE  TypeParted
  <1>1. StoreOK
    BY DEF Init, StoreOK
  <1>2. ReplicasOK
    BY DEF Init, ReplicasOK, Holds, Handling, Without, Replica, Labels
  <1>3. GroupOK
    BY DEF Init, GroupOK
  <1>4. FaultsOK
    BY AnalyticsAssumption DEF Init, FaultsOK, AnalyticsAssumption
  <1> QED BY <1>1, <1>2, <1>3, <1>4 DEF TypeParted

(* The store keeps its type when nothing is written to it but the gate.    *)
LEMMA GateType ==
  ASSUME StoreOK, ReplicasOK, NEW l \in Projectors, Handling(l),
         consumed' = consumed \cup {EventOf(l)} \/ UNCHANGED consumed,
         UNCHANGED <<claimed, rollup>>
  PROVE  StoreOK'
  BY EventIs DEF StoreOK

(* What cuts a handling short has done the statement under way, or not. *)
LEMMA InterruptedType ==
  ASSUME StoreOK, ReplicasOK, NEW l \in Projectors, Interrupted(l)
  PROVE  StoreOK'
  <1>1. CASE projector[l].at = "mark" /\ consumed' = consumed \cup {EventOf(l)}
    BY <1>1, GateType DEF Interrupted, Handling
  <1>2. CASE UNCHANGED consumed
    BY <1>2 DEF Interrupted, StoreOK
  <1> QED BY <1>1, <1>2 DEF Interrupted

(* A step that leaves a part alone. *)
LEMMA Untouched ==
  /\ StoreOK /\ UNCHANGED store => StoreOK'
  /\ ReplicasOK /\ UNCHANGED projector => ReplicasOK'
  /\ GroupOK /\ UNCHANGED group => GroupOK'
  /\ FaultsOK /\ UNCHANGED <<faults, cut>> => FaultsOK'
  BY DEF store, group, StoreOK, ReplicasOK, GroupOK, FaultsOK, Holds, Handling

(* A read keeps the types: what is read is the next message of the partition. *)
LEMMA ReadType ==
  ASSUME TypeParted, NEW l \in Projectors, NEW p \in Partitions, ReadMessage(l, p)
  PROVE  TypeParted'
  BY Reads, Untouched DEF TypeParted, ReadMessage

(* An offset that is committed stays within the partition. *)
LEMMA OffsetType ==
  ASSUME TypeParted, NEW l \in Projectors, CommitOffset(l)
  PROVE  TypeParted'
  <1>1. Handling(l)
    BY DEF CommitOffset, Handling
  <1>2. ReplicasOK'
    BY <1>1, Moves DEF TypeParted, CommitOffset, Labels
  <1>3. GroupOK'
    BY <1>1, Commits DEF TypeParted, CommitOffset
  <1> QED BY <1>2, <1>3, Untouched DEF TypeParted, CommitOffset

(* A reader that stops keeps its place. *)
LEMMA StopType ==
  ASSUME TypeParted, NEW l \in Projectors, StopRun(l)
  PROVE  TypeParted'
  <1>1. UNCHANGED committed \/ Handling(l)
    BY DEF StopRun, Handling
  <1>2. ReplicasOK'
    BY Moves DEF TypeParted, StopRun, Labels, Away
  <1>3. GroupOK'
    BY <1>1, Commits DEF TypeParted, StopRun, GroupOK
  <1> QED BY <1>2, <1>3, Fails, Untouched DEF TypeParted, StopRun

(* A gate that is set, or found set, keeps the types. *)
LEMMA MarkType ==
  ASSUME TypeParted, NEW l \in Projectors, MarkProcessed(l)
  PROVE  TypeParted'
  <1>1. Handling(l)
    BY DEF MarkProcessed, Handling
  <1>2. ReplicasOK'
    BY <1>1, Moves DEF TypeParted, MarkProcessed, Labels
  <1>3. StoreOK'
    BY <1>1, GateType DEF TypeParted, MarkProcessed
  <1> QED BY <1>2, <1>3, Untouched DEF TypeParted, MarkProcessed

(* A claim that is taken belongs to one replica: the primary key is free. *)
LEMMA ClaimType ==
  ASSUME TypeParted, NEW l \in Projectors, Claim(l)
  PROVE  TypeParted'
  <1>1. Handling(l)
    BY DEF Claim, Handling
  <1>2. ReplicasOK'
    BY <1>1, Moves DEF TypeParted, Claim, Labels
  <1> QED BY <1>2, Untouched DEF TypeParted, Claim

(* A row that is locked belongs to one replica, until its transaction ends. *)
LEMMA UpsertType ==
  ASSUME TypeParted, NEW l \in Projectors, Upsert(l)
  PROVE  TypeParted'
  <1>1. Handling(l)
    BY DEF Upsert, Handling
  <1>2. ReplicasOK'
    BY <1>1, Moves DEF TypeParted, Upsert, Labels
  <1> QED BY <1>2, Untouched DEF TypeParted, Upsert

(* The counter's commit frees claim and row together. *)
LEMMA EffectType ==
  ASSUME TypeParted, NEW l \in Projectors, Effect(l), Fail(l) \/ UNCHANGED <<faults, cut>>
  PROVE  TypeParted'
  <1>1. Handling(l)
    BY DEF Effect, Handling
  <1>2. ReplicasOK'
    BY <1>1, Moves DEF TypeParted, Effect, Labels, Away
  <1>3. EventOf(l) \in Messages
    BY <1>1, EventIs DEF TypeParted
  <1>4. StoreOK'
    BY <1>3, Upserts DEF TypeParted, Effect, StoreOK
  <1>5. GroupOK'
    BY Untouched DEF TypeParted, Effect
  <1>6. FaultsOK'
    BY Fails, Untouched DEF TypeParted
  <1> QED BY <1>2, <1>4, <1>5, <1>6 DEF TypeParted

(* A failed statement frees what the transaction held. *)
LEMMA FailType ==
  ASSUME TypeParted, NEW l \in Projectors, FailHandling(l)
  PROVE  TypeParted'
  <1>1. ReplicasOK'
    BY Moves DEF TypeParted, FailHandling, Labels, Away
  <1> QED BY <1>1, InterruptedType, Fails, Untouched DEF TypeParted, FailHandling

(* A crash frees what the replica held. *)
LEMMA CrashType ==
  ASSUME TypeParted, NEW l \in Projectors, Crash(l)
  PROVE  TypeParted'
  <1>1. ReplicasOK'
    BY Moves DEF TypeParted, Crash, Labels, Away
  <1> QED BY <1>1, InterruptedType, Fails, Untouched DEF TypeParted, Crash

(* A shutdown cancels what the replica is doing, at any label. *)
LEMMA ShutdownType ==
  ASSUME TypeParted, NEW l \in Projectors, Shutdown(l)
  PROVE  TypeParted'
  <1>1. ReplicasOK'
    BY Moves DEF TypeParted, Shutdown, Labels, Away
  <1>2. StoreOK' /\ GroupOK'
    BY InterruptedType, Untouched DEF TypeParted, Shutdown
  <1>3. MaxShutdowns \in Nat
    BY AnalyticsAssumption DEF AnalyticsAssumption
  <1>4. /\ faults.shutdowns \in 0..MaxShutdowns /\ faults.shutdowns < MaxShutdowns
        /\ faults.failures \in 0..MaxFailures /\ faults.handovers \in 0..MaxHandovers
    BY DEF TypeParted, FaultsOK, Shutdown
  <1>5. faults.shutdowns + 1 \in 0..MaxShutdowns
    BY <1>3, <1>4
  <1>6. faults' = [faults EXCEPT !.shutdowns = faults.shutdowns + 1]
    BY DEF Shutdown
  <1>7. faults' \in [failures : 0..MaxFailures, shutdowns : 0..MaxShutdowns,
                     handovers : 0..MaxHandovers]
    BY <1>5, <1>6 DEF TypeParted, FaultsOK
  <1>8. cut' \subseteq Messages
    BY Cuts DEF TypeParted, Shutdown
  <1> QED BY <1>1, <1>2, <1>7, <1>8 DEF TypeParted, FaultsOK

(* A restarted replica has nothing under way. *)
LEMMA RestartType ==
  ASSUME TypeParted, NEW l \in Projectors, Restart(l)
  PROVE  TypeParted'
  <1>1. ReplicasOK'
    BY Moves DEF TypeParted, Restart, Labels, Away
  <1>2. GroupOK'
    <2>1. position' = [p \in Partitions |-> IF owner[p] = l THEN committed[p] ELSE position[p]]
      BY DEF Restart
    <2>2. owner' = owner /\ committed' = committed
      BY DEF Restart
    <2>3. position' \in [Partitions -> Nat]
      BY <2>1 DEF TypeParted, GroupOK
    <2>4. \A p \in Partitions : position'[p] \in {0} \cup On(p)
      BY <2>1 DEF TypeParted, GroupOK
    <2> QED BY <2>2, <2>3, <2>4 DEF TypeParted, GroupOK
  <1> QED BY <1>1, <1>2, Untouched DEF TypeParted, Restart

(* A partition that is assigned is read from the offset of the group. *)
LEMMA AssignType ==
  ASSUME TypeParted, NEW f \in [Partitions -> Members], Assign(f)
  PROVE  StoreOK' /\ ReplicasOK' /\ GroupOK' /\ cut' \subseteq Messages
  <1>1. f \in [Partitions -> Projectors]
    BY DEF Members
  <1>2. GroupOK'
    BY <1>1 DEF TypeParted, GroupOK, Assign
  <1> QED BY <1>2, Untouched DEF TypeParted, FaultsOK, Assign

(* A rebalance moves a partition and nothing else. *)
LEMMA RebalanceType ==
  ASSUME TypeParted, NEW f \in [Partitions -> Members], Rebalance(f)
  PROVE  TypeParted'
  <1>1. MaxHandovers \in Nat
    BY AnalyticsAssumption DEF AnalyticsAssumption
  <1>2. /\ faults.handovers \in 0..MaxHandovers /\ faults.handovers < MaxHandovers
        /\ faults.failures \in 0..MaxFailures /\ faults.shutdowns \in 0..MaxShutdowns
    BY DEF TypeParted, FaultsOK, Rebalance
  <1>3. faults.handovers + 1 \in 0..MaxHandovers
    BY <1>1, <1>2
  <1>4. faults' = [faults EXCEPT !.handovers = faults.handovers + 1]
    BY DEF Rebalance
  <1>5. faults' \in [failures : 0..MaxFailures, shutdowns : 0..MaxShutdowns,
                     handovers : 0..MaxHandovers]
    BY <1>3, <1>4 DEF TypeParted, FaultsOK
  <1> QED BY <1>5, AssignType DEF Rebalance, TypeParted, FaultsOK

(* A partition of a dead replica moves to a live one. *)
LEMMA TakeOverType ==
  ASSUME TypeParted, NEW f \in [Partitions -> Members], TakeOver(f)
  PROVE  TypeParted'
  <1>1. StoreOK' /\ ReplicasOK' /\ GroupOK' /\ cut' \subseteq Messages
    BY AssignType DEF TakeOver
  <1> QED BY <1>1 DEF TakeOver, TypeParted, FaultsOK

(* The steps of Next, one by one. *)
LEMMA Steps ==
  ASSUME Next
  PROVE  \/ \E l \in Projectors :
               \/ \E p \in Partitions : ReadMessage(l, p)
               \/ CommitOffset(l) \/ MarkProcessed(l) \/ Claim(l) \/ Upsert(l)
               \/ Effect(l) /\ (Fail(l) \/ UNCHANGED <<faults, cut>>)
               \/ Restart(l) \/ StopRun(l) \/ FailHandling(l) \/ Crash(l) \/ Shutdown(l)
         \/ \E f \in [Partitions -> Members] : Rebalance(f) \/ TakeOver(f)
  BY Zenon DEF Next, Handle, CommitTx, LoseAnswer, TakeOverAny

(* Each step keeps the types and the one holder of each claim and row. *)
LEMMA TypeStep ==
  ASSUME TypeParted, [Next]_vars
  PROVE  TypeParted'
  <1>1. CASE UNCHANGED vars
    BY <1>1, Untouched DEF TypeParted, vars
  <1>2. ASSUME NEW l \in Projectors,
               \/ \E p \in Partitions : ReadMessage(l, p)
               \/ CommitOffset(l) \/ MarkProcessed(l) \/ Claim(l) \/ Upsert(l)
               \/ Effect(l) /\ (Fail(l) \/ UNCHANGED <<faults, cut>>)
               \/ Restart(l) \/ StopRun(l) \/ FailHandling(l) \/ Crash(l) \/ Shutdown(l)
        PROVE  TypeParted'
    BY <1>2, ReadType, OffsetType, MarkType, ClaimType, UpsertType, EffectType, RestartType,
       StopType, FailType, CrashType, ShutdownType, Zenon
  <1>3. ASSUME NEW f \in [Partitions -> Members], Rebalance(f) \/ TakeOver(f)
        PROVE  TypeParted'
    BY <1>3, RebalanceType, TakeOverType
  <1> QED BY <1>1, <1>2, <1>3, Steps, Zenon

(* THE TYPE INVARIANT: the type invariant holds in every reachable state. *)
THEOREM TypeCorrect == Spec => []TypeOK
  <1>1. Init => TypeParted
    BY InitType
  <1>2. TypeParted /\ [Next]_vars => TypeParted'
    BY TypeStep
  <1>3. TypeParted => TypeOK
    BY TypeParts DEF TypeParted
  <1> QED BY <1>1, <1>2, <1>3, PTL DEF Spec

-----------------------------------------------------------------------------
(* What each replica is at *)

InTx == {"upsert", "end"}

(* What replica l may do in a step: what it is at is the order of the      *)
(* handler's calls, and a message it keeps is the one it had.              *)
Way(l) ==
    \/ projector'[l] = projector[l]
    \/ projector'[l].at \in Away \cup {"offset"}
    \/ /\ projector'[l].off = projector[l].off
       /\ \/ /\ projector[l].at = "offset" /\ projector'[l].at = "mark"
             /\ EventOf(l).type \in Counters
          \/ /\ projector[l].at = "mark" /\ projector'[l].at = "claim"
             /\ EventOf(l).readable
          \/ /\ projector[l].at = "claim" /\ projector'[l].at = "upsert"
             /\ EventOf(l) \notin claimed
             /\ ClaimHolders(EventOf(l)) = {}
          \/ /\ projector[l].at = "upsert" /\ projector'[l].at = "end"

Others(l) == \A m \in Projectors \ {l} : projector'[m] = projector[m]

(* A step of replica l is one of its ways; the counters are written by the *)
(* end of a transaction and by nothing else.                               *)
LEMMA OneWay ==
  ASSUME TypeParted, NEW l \in Projectors,
         \/ \E p \in Partitions : ReadMessage(l, p)
         \/ CommitOffset(l) \/ MarkProcessed(l) \/ Claim(l) \/ Upsert(l)
         \/ Effect(l) /\ (Fail(l) \/ UNCHANGED <<faults, cut>>)
         \/ Restart(l) \/ StopRun(l) \/ FailHandling(l) \/ Crash(l) \/ Shutdown(l)
  PROVE  /\ Way(l) /\ Others(l)
         /\ Effect(l) \/ (UNCHANGED claimed /\ UNCHANGED rollup)
  <1>1. CASE \E p \in Partitions : ReadMessage(l, p)
    BY <1>1, Reads DEF TypeParted, Way, Others, ReadMessage, store
  <1>2. CASE CommitOffset(l)
    <2>1. CASE EventOf(l).type \in Counters
      <3>1. Goto(l, "mark") /\ Handling(l) /\ "mark" \in Labels \ Away
        BY <1>2, <2>1 DEF CommitOffset, Handling, Labels, Away
      <3>2. /\ Others(l)
            /\ projector'[l].at = "mark" /\ projector'[l].off = projector[l].off
        BY <3>1, Moves DEF TypeParted, Others
      <3> QED BY <1>2, <2>1, <3>2 DEF CommitOffset, Way, store
    <2>2. CASE EventOf(l).type \notin Counters
      <3>1. Goto(l, "idle") /\ "idle" \in Labels /\ "idle" \in Away
        BY <1>2, <2>2 DEF CommitOffset, Labels, Away
      <3>2. Others(l) /\ projector'[l].at = "idle"
        BY <3>1, Moves DEF TypeParted, Others
      <3> QED BY <1>2, <3>1, <3>2 DEF CommitOffset, Way, store
    <2> QED BY <2>1, <2>2
  <1>3. CASE MarkProcessed(l)
    <2>1. CASE ~(EventOf(l) \in consumed \/ ~EventOf(l).readable)
      <3>1. Goto(l, "claim") /\ Handling(l) /\ "claim" \in Labels \ Away
        BY <1>3, <2>1 DEF MarkProcessed, Handling, Labels, Away
      <3>2. /\ Others(l)
            /\ projector'[l].at = "claim" /\ projector'[l].off = projector[l].off
        BY <3>1, Moves DEF TypeParted, Others
      <3> QED BY <1>3, <2>1, <3>2 DEF MarkProcessed, Way
    <2>2. CASE EventOf(l) \in consumed \/ ~EventOf(l).readable
      <3>1. Goto(l, "idle") /\ "idle" \in Labels /\ "idle" \in Away
        BY <1>3, <2>2 DEF MarkProcessed, Labels, Away
      <3>2. Others(l) /\ projector'[l].at = "idle"
        BY <3>1, Moves DEF TypeParted, Others
      <3> QED BY <1>3, <3>1, <3>2 DEF MarkProcessed, Way
    <2> QED BY <2>1, <2>2
  <1>4. CASE Claim(l)
    <2>1. CASE EventOf(l) \notin claimed
      <3>1. Goto(l, "upsert") /\ Handling(l) /\ "upsert" \in Labels \ Away
        BY <1>4, <2>1 DEF Claim, Handling, Labels, Away
      <3>2. /\ Others(l)
            /\ projector'[l].at = "upsert" /\ projector'[l].off = projector[l].off
        BY <3>1, Moves DEF TypeParted, Others
      <3> QED BY <1>4, <2>1, <3>2 DEF Claim, Way, store
    <2>2. CASE EventOf(l) \in claimed
      <3>1. Goto(l, "idle") /\ "idle" \in Labels /\ "idle" \in Away
        BY <1>4, <2>2 DEF Claim, Labels, Away
      <3>2. Others(l) /\ projector'[l].at = "idle"
        BY <3>1, Moves DEF TypeParted, Others
      <3> QED BY <1>4, <3>1, <3>2 DEF Claim, Way, store
    <2> QED BY <2>1, <2>2
  <1>5. CASE Upsert(l)
    <2>1. Goto(l, "end") /\ Handling(l) /\ "end" \in Labels \ Away
      BY <1>5 DEF Upsert, Handling, Labels, Away
    <2>2. Others(l) /\ projector'[l].at = "end" /\ projector'[l].off = projector[l].off
      BY <2>1, Moves DEF TypeParted, Others
    <2> QED BY <1>5, <2>2 DEF Upsert, Way, store
  <1>6. ASSUME NEW label \in Away, Goto(l, label)
        PROVE  Way(l) /\ Others(l)
    <2>1. label \in Labels
      BY DEF Away, Labels
    <2>2. Others(l) /\ projector'[l].at = label
      BY <1>6, <2>1, Moves DEF TypeParted, Others
    <2> QED BY <2>2 DEF Way
  <1>7. CASE Effect(l)
    BY <1>6, <1>7 DEF Effect, Away
  <1>8. CASE Restart(l)
    BY <1>6, <1>8 DEF Restart, Away, store
  <1>9. CASE StopRun(l)
    BY <1>6, <1>9 DEF StopRun, Away, store
  <1>10. CASE FailHandling(l)
    BY <1>6, <1>10 DEF FailHandling, Interrupted, Away
  <1>11. CASE Crash(l)
    BY <1>6, <1>11 DEF Crash, Interrupted, Away
  <1>12. CASE Shutdown(l)
    BY <1>6, <1>12 DEF Shutdown, Interrupted, Away
  <1> QED BY <1>1, <1>2, <1>3, <1>4, <1>5, <1>7, <1>8, <1>9, <1>10, <1>11, <1>12, Zenon

(* In a step at most one replica moves, and it goes one of its ways. *)
LEMMA Ways ==
  ASSUME TypeParted, [Next]_vars
  PROVE  \/ \E l \in Projectors : Way(l) /\ Others(l) /\ Effect(l)
         \/ /\ UNCHANGED claimed /\ UNCHANGED rollup
            /\ \/ \E l \in Projectors : Way(l) /\ Others(l)
               \/ UNCHANGED projector
  <1>1. CASE UNCHANGED vars
    BY <1>1 DEF vars, store
  <1>2. ASSUME NEW f \in [Partitions -> Members], Rebalance(f) \/ TakeOver(f)
        PROVE  UNCHANGED claimed /\ UNCHANGED rollup /\ UNCHANGED projector
    BY <1>2 DEF Rebalance, TakeOver, Assign, store
  <1> QED BY <1>1, <1>2, OneWay, Steps, Zenon

-----------------------------------------------------------------------------
(* The claims *)

(* Past its decoding a message is one of the five types, and readable.     *)
Decoded ==
    \A l \in Projectors :
        /\ projector[l].at \in {"mark", "claim"} \cup InTx => EventOf(l).type \in Counters
        /\ projector[l].at \in {"claim"} \cup InTx => EventOf(l).readable

(* An event that is counted by an open transaction is not counted yet, and *)
(* by one transaction only.                                                *)
Exclusive ==
    \A l \in Projectors : projector[l].at \in InTx =>
        /\ EventOf(l) \notin claimed
        /\ \A m \in Projectors :
              projector[m].at \in InTx /\ EventOf(m) = EventOf(l) => m = l

(* What is counted could be, and has a latest member. *)
ClaimsOK ==
    /\ claimed \subseteq Countable
    /\ IsFiniteSet(claimed)
    /\ claimed # {} => \E e \in claimed : \A f \in claimed : f.at <= e.at

ClaimInv == TypeParted /\ Decoded /\ Exclusive /\ ClaimsOK

(* Nothing is counted at the start. *)
LEMMA InitClaims ==
  ASSUME Init
  PROVE  ClaimInv
  <1>1. \A l \in Projectors : projector[l].at = "idle"
    BY DEF Init, Without
  <1>2. Decoded /\ Exclusive
    BY <1>1 DEF Decoded, Exclusive, InTx
  <1>3. ClaimsOK
    BY FS_EmptySet DEF Init, ClaimsOK
  <1> QED BY <1>2, <1>3, InitType DEF ClaimInv

(* The messages of the replicas stay decoded. *)
LEMMA DecodedStep ==
  ASSUME ClaimInv, [Next]_vars
  PROVE  Decoded'
  <1>1. ASSUME NEW m \in Projectors, Way(m)
        PROVE  /\ projector'[m].at \in {"mark", "claim"} \cup InTx => EventOf(m)'.type \in Counters
               /\ projector'[m].at \in {"claim"} \cup InTx => EventOf(m)'.readable
    BY <1>1 DEF ClaimInv, Decoded, Way, EventOf, InTx, Away
  <1>2. \A m \in Projectors : Way(m)
    BY Ways DEF ClaimInv, TypeParted, Way, Others
  <1> QED BY <1>1, <1>2 DEF Decoded

(* An event that a transaction is counting is not counted. *)
LEMMA ClaimedOnce ==
  ASSUME ClaimInv, NEW l \in Projectors, Effect(l)
  PROVE  /\ EventOf(l) \in Countable
         /\ EventOf(l) \in Messages
         /\ EventOf(l) \notin claimed
  <1>1. projector[l].at = "end" /\ Handling(l)
    BY DEF Effect, Handling
  <1>2. EventOf(l) \in Messages
    BY <1>1, EventIs DEF ClaimInv, TypeParted
  <1> QED BY <1>1, <1>2 DEF ClaimInv, Decoded, Exclusive, InTx, Countable

(* An event that an open transaction counts stays uncounted, and its own.  *)
LEMMA ExclusiveStep ==
  ASSUME ClaimInv, [Next]_vars
  PROVE  Exclusive'
  <1>1. ASSUME NEW l \in Projectors, Way(l), Others(l), Effect(l)
        PROVE  Exclusive'
    <2>1. projector'[l].at \notin InTx
      <3>1. Goto(l, "idle") /\ "idle" \in Labels /\ "idle" \in Away
        BY <1>1 DEF Effect, Away, Labels
      <3>2. projector'[l].at = "idle"
        BY <3>1, Moves DEF ClaimInv, TypeParted
      <3> QED BY <3>2 DEF InTx
    <2>2. projector[l].at \in InTx
      BY <1>1 DEF Effect, InTx
    <2>3. claimed' = claimed \cup {EventOf(l)}
      BY <1>1 DEF Effect
    <2>4. ASSUME NEW m \in Projectors, projector'[m].at \in InTx
          PROVE  /\ m # l /\ projector'[m] = projector[m]
                 /\ EventOf(m)' = EventOf(m) /\ projector[m].at \in InTx
      BY <1>1, <2>1, <2>4 DEF Others, EventOf
    <2>5. ASSUME NEW m \in Projectors, projector'[m].at \in InTx
          PROVE  EventOf(m)' \notin claimed'
      BY <2>2, <2>3, <2>4, <2>5 DEF ClaimInv, Exclusive
    <2>6. ASSUME NEW m \in Projectors, projector'[m].at \in InTx,
                 NEW n \in Projectors, projector'[n].at \in InTx,
                 EventOf(n)' = EventOf(m)'
          PROVE  n = m
      BY <2>4, <2>6 DEF ClaimInv, Exclusive
    <2> QED BY <2>5, <2>6 DEF Exclusive
  <1>2. ASSUME UNCHANGED claimed, NEW l \in Projectors, Way(l), Others(l)
        PROVE  Exclusive'
    <2>1. ASSUME NEW m \in Projectors \ {l}
          PROVE  projector'[m] = projector[m] /\ EventOf(m)' = EventOf(m)
      BY <1>2 DEF Others, EventOf
    <2>2. CASE projector'[l].at \notin InTx
      <3>1. ASSUME NEW m \in Projectors, projector'[m].at \in InTx
            PROVE  m # l
        BY <2>2, <3>1
      <3> QED BY <1>2, <2>1, <3>1 DEF ClaimInv, Exclusive
    <2>3. CASE projector[l].at \in InTx /\ EventOf(l)' = EventOf(l)
      <3>1. \A m \in Projectors : EventOf(m)' = EventOf(m)
        BY <2>1, <2>3
      <3>2. \A m \in Projectors : projector'[m].at \in InTx => projector[m].at \in InTx
        BY <2>1, <2>3
      <3> QED BY <1>2, <3>1, <3>2 DEF ClaimInv, Exclusive
    <2>4. CASE /\ EventOf(l)' = EventOf(l) /\ EventOf(l) \notin claimed
               /\ ClaimHolders(EventOf(l)) = {}
      <3>1. \A m \in Projectors : EventOf(m)' = EventOf(m)
        BY <2>1, <2>4
      <3>2. \A m \in Projectors \ {l} : projector[m].at \in InTx => EventOf(m) # EventOf(l)
        BY <2>4 DEF ClaimHolders, InTx
      <3>3. \A m \in Projectors \ {l} : projector'[m].at \in InTx <=> projector[m].at \in InTx
        BY <2>1
      <3>4. ASSUME NEW m \in Projectors, projector'[m].at \in InTx
            PROVE  EventOf(m)' \notin claimed'
        BY <1>2, <2>4, <3>1, <3>3, <3>4 DEF ClaimInv, Exclusive
      <3>5. ASSUME NEW m \in Projectors, projector'[m].at \in InTx,
                   NEW n \in Projectors, projector'[n].at \in InTx,
                   EventOf(n)' = EventOf(m)'
            PROVE  n = m
        BY <3>1, <3>2, <3>3, <3>5 DEF ClaimInv, Exclusive
      <3> QED BY <3>4, <3>5 DEF Exclusive
    <2>5. CASE projector'[l] = projector[l]
      <3>1. EventOf(l)' = EventOf(l)
        BY <2>5 DEF EventOf
      <3> QED BY <2>2, <2>3, <2>5, <3>1
    <2>6. CASE projector'[l].off = projector[l].off
      <3>1. EventOf(l)' = EventOf(l)
        BY <2>6 DEF EventOf
      <3> QED BY <1>2, <2>2, <2>3, <2>4, <2>5, <3>1 DEF Way, InTx, Away
    <2> QED BY <1>2, <2>2, <2>5, <2>6 DEF Way, InTx, Away
  <1>3. ASSUME UNCHANGED claimed, UNCHANGED projector
        PROVE  Exclusive'
    BY <1>3 DEF ClaimInv, Exclusive, EventOf
  <1> QED BY <1>1, <1>2, <1>3, Ways DEF ClaimInv

(* A new claim is one more of what can be counted. *)
LEMMA ClaimsStep ==
  ASSUME ClaimInv, [Next]_vars
  PROVE  ClaimsOK'
  <1>1. ASSUME NEW l \in Projectors, Effect(l)
        PROVE  ClaimsOK'
    <2> DEFINE e == EventOf(l)
    <2>1. claimed' = claimed \cup {e}
      BY <1>1 DEF Effect
    <2>2. e \in Countable /\ e \in Messages
      BY <1>1, ClaimedOnce
    <2>3. claimed \subseteq Messages
      BY DEF ClaimInv, ClaimsOK, Countable
    <2>4. claimed' \subseteq Countable' /\ IsFiniteSet(claimed')
      BY <2>1, <2>2, FS_AddElement DEF ClaimInv, ClaimsOK, Countable
    <2> HIDE DEF e
    <2>5. \A f \in claimed \cup {e} : f.at \in Nat
      BY <2>2, <2>3, MessagesAre
    <2>6. \E g \in claimed' : \A f \in claimed' : f.at <= g.at
      <3>1. CASE claimed = {}
        BY <2>1, <2>5, <3>1
      <3>2. CASE claimed # {}
        <4>1. PICK g \in claimed : \A f \in claimed : f.at <= g.at
          BY <3>2 DEF ClaimInv, ClaimsOK
        <4>2. CASE e.at <= g.at
          BY <2>1, <4>1, <4>2
        <4>3. CASE ~(e.at <= g.at)
          <5>1. \A f \in claimed : f.at <= e.at
            BY <2>5, <4>1, <4>3
          <5> QED BY <2>1, <2>5, <5>1
        <4> QED BY <4>2, <4>3
      <3> QED BY <3>1, <3>2
    <2> QED BY <2>4, <2>6 DEF ClaimsOK
  <1>2. CASE UNCHANGED claimed
    BY <1>2 DEF ClaimInv, ClaimsOK, Countable
  <1> QED BY <1>1, <1>2, Ways DEF ClaimInv

(* The four hold in every reachable state. *)
LEMMA ClaimsCorrect == Spec => []ClaimInv
  <1>1. Init => ClaimInv
    BY InitClaims
  <1>2. ClaimInv /\ [Next]_vars => ClaimInv'
    BY TypeStep, DecodedStep, ExclusiveStep, ClaimsStep DEF ClaimInv
  <1> QED BY <1>1, <1>2, PTL DEF Spec

-----------------------------------------------------------------------------
(* The store *)

LatestOf(events) ==
    IF events = {} THEN 0
    ELSE CHOOSE t \in {e.at : e \in events} : \A e \in events : e.at <= t

(* The latest of a set of events is one that none of them is after. *)
LEMMA LatestIs ==
  ASSUME NEW S, S # {} => \E g \in S : \A f \in S : f.at <= g.at
  PROVE  /\ S = {} => LatestOf(S) = 0
         /\ S # {} => /\ \E e \in S : LatestOf(S) = e.at
                      /\ \A e \in S : e.at <= LatestOf(S)
  <1>1. CASE S = {}
    BY <1>1 DEF LatestOf
  <1>2. CASE S # {}
    <2> DEFINE times == {e.at : e \in S}
    <2>1. PICK g \in S : \A f \in S : f.at <= g.at
      BY <1>2
    <2>2. \E t \in times : \A e \in S : e.at <= t
      BY <2>1
    <2>3. LatestOf(S) = CHOOSE t \in times : \A e \in S : e.at <= t
      BY <1>2 DEF LatestOf
    <2>4. LatestOf(S) \in times /\ \A e \in S : e.at <= LatestOf(S)
      BY <2>2, <2>3
    <2> QED BY <1>2, <2>4
  <1> QED BY <1>1, <1>2

(* With one more event the latest is the later of it and what was latest.  *)
LEMMA LatestStep ==
  ASSUME ClaimInv, NEW l \in Projectors, Effect(l), ClaimsOK'
  PROVE  Latest' = IF EventOf(l).at > Latest THEN EventOf(l).at ELSE Latest
  <1>1. PICK e : e = EventOf(l)
    OBVIOUS
  <1>2. e \in Messages /\ claimed' = claimed \cup {e}
    BY <1>1, ClaimedOnce DEF Effect
  <1>3. \A f \in claimed : f.at \in Nat
    BY MessagesAre DEF ClaimInv, ClaimsOK, Countable
  <1>4. e.at \in Nat /\ e.at # 0
    BY <1>2, MessagesAre
  <1>5. /\ claimed = {} => Latest = 0
        /\ claimed # {} => /\ \E f \in claimed : Latest = f.at
                           /\ \A f \in claimed : f.at <= Latest
    BY LatestIs DEF ClaimInv, ClaimsOK, Latest, LatestOf
  <1>6. /\ claimed' = {} => Latest' = 0
        /\ claimed' # {} => /\ \E f \in claimed' : Latest' = f.at
                            /\ \A f \in claimed' : f.at <= Latest'
    BY LatestIs DEF ClaimsOK, Latest, LatestOf
  <1>7. /\ \E f \in claimed \cup {e} : Latest' = f.at
        /\ \A f \in claimed \cup {e} : f.at <= Latest'
    BY <1>2, <1>6
  <1>8. CASE claimed = {}
    BY <1>1, <1>4, <1>5, <1>7, <1>8
  <1>9. CASE claimed # {}
    BY <1>1, <1>3, <1>4, <1>5, <1>7, <1>9
  <1> QED BY <1>8, <1>9

(* The row a counter is added to is the one the store makes or finds. *)
LEMMA RowsStep ==
  ASSUME StoreOK, NEW e \in Messages, e.type \in Counters, rollup' = UpsertCounter(e)
  PROVE  rollup' = [k \in DOMAIN rollup \cup {RowKey(e)} |->
                      IF k = RowKey(e) THEN [Store!RowOf(k) EXCEPT ![e.type] = @ + 1]
                      ELSE rollup[k]]
  <1> DEFINE new == DOMAIN rollup \cup {RowKey(e)}
             row(k) == IF k = RowKey(e) THEN [Store!RowOf(k) EXCEPT ![e.type] = @ + 1]
                       ELSE rollup[k]
  <1>1. /\ DOMAIN rollup' = new
        /\ rollup' \in [new -> [Counters -> Nat]]
        /\ \A k \in new : \A c \in Counters :
              rollup'[k][c] = (IF k \in DOMAIN rollup THEN rollup[k][c] ELSE 0)
                              + (IF k = RowKey(e) /\ c = e.type THEN 1 ELSE 0)
    BY Upserts
  <1>2. \A k : /\ Store!RowOf(k) \in [Counters -> Nat]
               /\ \A c \in Counters :
                    Store!RowOf(k)[c] = IF k \in DOMAIN rollup THEN rollup[k][c] ELSE 0
    BY DEF Store!RowOf, StoreOK
  <1>3. ASSUME NEW k \in new, k = RowKey(e)
        PROVE  rollup'[k] = row(k)
    <2>1. row(k) = [Store!RowOf(k) EXCEPT ![e.type] = @ + 1]
      BY <1>3
    <2>2. row(k) \in [Counters -> Nat]
      BY <1>2, <2>1
    <2>3. \A c \in Counters : row(k)[c] = Store!RowOf(k)[c] + (IF c = e.type THEN 1 ELSE 0)
      BY <1>2, <2>1
    <2>4. \A c \in Counters : rollup'[k][c] = row(k)[c]
      BY <1>1, <1>2, <1>3, <2>3
    <2>5. rollup'[k] \in [Counters -> Nat]
      BY <1>1
    <2> HIDE DEF row
    <2> QED BY <2>2, <2>4, <2>5
  <1>4. ASSUME NEW k \in new, k # RowKey(e)
        PROVE  rollup'[k] = row(k)
    <2>1. row(k) = rollup[k] /\ k \in DOMAIN rollup /\ rollup[k] \in [Counters -> Nat]
      BY <1>4 DEF StoreOK
    <2>2. \A c \in Counters : rollup'[k][c] = rollup[k][c]
      BY <1>1, <1>4, <2>1
    <2>3. rollup'[k] \in [Counters -> Nat]
      BY <1>1
    <2> HIDE DEF row
    <2> QED BY <2>1, <2>2, <2>3
  <1>5. \A k \in new : rollup'[k] = row(k)
    BY <1>3, <1>4
  <1> HIDE DEF row, new
  <1>6. rollup' = [k \in new |-> row(k)]
    BY <1>1, <1>5
  <1> QED BY <1>6 DEF row, new

(* The counters of the store are the ones that the projector has. *)
LEMMA StoreStep ==
  ASSUME ClaimInv, ClaimsOK', [Next]_vars
  PROVE  [Store!Next]_Store!vars
  <1>1. ASSUME NEW l \in Projectors, Effect(l)
        PROVE  Store!Next
    <2>1. PICK e : e = EventOf(l)
      OBVIOUS
    <2>2. e \in Countable /\ e \in Messages /\ e \notin claimed
      BY <1>1, <2>1, ClaimedOnce
    <2>3. claimed' = claimed \cup {e} /\ rollup' = UpsertCounter(e)
      BY <1>1, <2>1 DEF Effect
    <2>4. Latest' = IF e.at > Latest THEN e.at ELSE Latest
      BY <1>1, <2>1, LatestStep
    <2>5. e.type \in Counters
      BY <2>2 DEF Countable
    <2>6. rollup' = [k \in DOMAIN rollup \cup {RowKey(e)} |->
                       IF k = RowKey(e) THEN [Store!RowOf(k) EXCEPT ![e.type] = @ + 1]
                       ELSE rollup[k]]
      BY <2>2, <2>3, <2>5, RowsStep DEF ClaimInv, TypeParted
    <2>7. Store!RowKey(e) = RowKey(e)
      BY DEF Store!RowKey, RowKey, Store!HourBucket, HourBucket
    <2>8. Store!Apply(e)
      BY <2>2, <2>3, <2>4, <2>6, <2>7 DEF Store!Apply
    <2> QED BY <2>2, <2>8 DEF Store!Next
  <1>2. CASE UNCHANGED claimed /\ UNCHANGED rollup
    BY <1>2 DEF Store!vars, Latest
  <1> QED BY <1>1, <1>2, Ways DEF ClaimInv

(* THE REFINEMENT: over redeliveries, two gates, any number of replicas    *)
(* and lost answers the analytical database behaves as the store of the    *)
(* ProjectionStore port, which counts an event once.                       *)
THEOREM StoreImplemented == Spec => ImplementsStore
  <1>1. Init => Store!Init
    BY DEF Init, Store!Init, Latest
  <1>2. ClaimInv /\ ClaimInv' /\ [Next]_vars => [Store!Next]_Store!vars
    BY StoreStep DEF ClaimInv
  <1> QED BY <1>1, <1>2, ClaimsCorrect, PTL DEF Spec, ImplementsStore, Store!Spec

-----------------------------------------------------------------------------
(* The reports *)

Paths == {e.path : e \in Messages} \cup {AnyPath}

Hours == {t \in Nat : t % HourLength = 0}

(* What a counter of a set of rows shows: one token for each event. *)
Tokens(keys, c) == UNION {{<<k, n>> : n \in 1..rollup[k][c]} : k \in keys}

(* What a report on a path should show. *)
Counted(from, to, path, c) ==
    {e \in claimed : /\ e.type = c
                     /\ from <= e.at /\ e.at < to
                     /\ path \in {e.path, AnyPath}}

(* The events that a report is asked for are those that its rows count.    *)
AddsUp(from, to, path, c) ==
    /\ IsFiniteSet(Tokens(Query(from, to, path), c))
    /\ IsFiniteSet(Counted(from, to, path, c))
    /\ Cardinality(Tokens(Query(from, to, path), c)) = Cardinality(Counted(from, to, path, c))

Reports == \A from, to \in Hours, path \in Paths, c \in Counters : AddsUp(from, to, path, c)

(* A whole hour is not after a time exactly if it is not after its bucket. *)
LEMMA Bucket ==
  ASSUME NEW t \in Nat, NEW h \in Hours
  PROVE  /\ HourBucket(t) \in Nat
         /\ h <= HourBucket(t) <=> h <= t
  <1>1. HourLength \in Nat /\ HourLength > 0
    BY AnalyticsAssumption DEF AnalyticsAssumption
  <1> DEFINE q == t \div HourLength
             a == h \div HourLength
  <1>2. q \in Nat /\ a \in Nat
    BY <1>1 DEF Hours
  <1>3. t = HourLength * q + (t % HourLength) /\ t % HourLength \in 0..(HourLength - 1)
    BY <1>1
  <1>4. h = HourLength * a
    <2>1. h \in Nat /\ h % HourLength = 0
      BY DEF Hours
    <2>2. h = HourLength * a + (h % HourLength)
      BY <1>1, <2>1
    <2>3. HourLength * a \in Nat
      BY <1>1, <1>2
    <2> HIDE DEF a
    <2> QED BY <2>1, <2>2, <2>3
  <1>5. HourBucket(t) = HourLength * q
    BY DEF HourBucket
  <1> HIDE DEF q, a
  <1>6. HourLength * q \in Nat
    BY <1>1, <1>2
  <1>7. CASE a <= q
    <2>1. PICK d \in Nat : q = a + d
      BY <1>2, <1>7
    <2>2. HourLength * q = HourLength * a + HourLength * d
      BY <1>1, <1>2, <2>1
    <2>3. HourLength * d \in Nat /\ HourLength * a \in Nat
      BY <1>1, <1>2, <2>1
    <2>4. HourLength * a <= HourLength * q
      BY <2>2, <2>3
    <2> QED BY <1>1, <1>3, <1>4, <1>5, <1>6, <2>3, <2>4
  <1>8. CASE ~(a <= q)
    <2>1. PICK d \in Nat : a = q + 1 + d
      BY <1>2, <1>8
    <2>2. HourLength * a = HourLength * q + HourLength + HourLength * d
      BY <1>1, <1>2, <2>1
    <2>3. HourLength * d \in Nat
      BY <1>1, <2>1
    <2>4. HourLength * q + HourLength <= HourLength * a
      BY <1>1, <1>6, <2>2, <2>3
    <2> QED BY <1>1, <1>3, <1>4, <1>5, <1>6, <2>4
  <1> QED BY <1>5, <1>6, <1>7, <1>8, <1>2

(* A report's total is the number of its tokens. *)
LEMMA TotalIs ==
  ASSUME NEW keys, NEW c
  PROVE  Total(keys, c) = Cardinality(Tokens(keys, c))
  BY DEF Total, Tokens

(* Nothing is shown at the start. *)
LEMMA InitReports ==
  ASSUME Init
  PROVE  Reports
  <1>1. ASSUME NEW from \in Hours, NEW to \in Hours, NEW path \in Paths, NEW c \in Counters
        PROVE  AddsUp(from, to, path, c)
    <2>1. Query(from, to, path) = {} /\ Counted(from, to, path, c) = {}
      BY DEF Init, Query, Counted
    <2>2. Tokens(Query(from, to, path), c) = {}
      BY <2>1 DEF Tokens
    <2> QED BY <2>1, <2>2, FS_EmptySet DEF AddsUp
  <1> QED BY <1>1 DEF Reports

(* A report shows the row of an event exactly if it asks for the event. *)
LEMMA AsksFor ==
  ASSUME NEW e \in Messages, NEW from \in Hours, NEW to \in Hours, NEW path \in Paths
  PROVE  (/\ from <= RowKey(e).hour /\ RowKey(e).hour < to
          /\ (path = AnyPath \/ RowKey(e).path = path))
         <=> (from <= e.at /\ e.at < to /\ path \in {e.path, AnyPath})
  <1>1. e.at \in Nat
    BY MessagesAre
  <1>2. RowKey(e).hour = HourBucket(e.at) /\ RowKey(e).path = e.path
    BY DEF RowKey
  <1>3. from \in Nat /\ to \in Nat
    BY DEF Hours
  <1>4. HourBucket(e.at) \in Nat
    BY <1>1, Bucket
  <1>5. from <= HourBucket(e.at) <=> from <= e.at
    BY <1>1, Bucket
  <1>6. HourBucket(e.at) < to <=> e.at < to
    BY <1>1, <1>3, <1>4, Bucket
  <1> QED BY <1>2, <1>5, <1>6

(* A counter that is added to has one token more. *)
LEMMA TokenAdded ==
  ASSUME StoreOK, NEW e \in Messages, e.type \in Counters, rollup' = UpsertCounter(e),
         NEW from \in Hours, NEW to \in Hours, NEW path \in Paths, NEW c \in Counters
  PROVE  \/ /\ c = e.type /\ from <= e.at /\ e.at < to /\ path \in {e.path, AnyPath}
            /\ \E token : /\ token \notin Tokens(Query(from, to, path), c)
                          /\ Tokens(Query(from, to, path), c)'
                             = Tokens(Query(from, to, path), c) \cup {token}
         \/ /\ ~(c = e.type /\ from <= e.at /\ e.at < to /\ path \in {e.path, AnyPath})
            /\ Tokens(Query(from, to, path), c)' = Tokens(Query(from, to, path), c)
  <1> DEFINE key == RowKey(e)
             asked(k) == /\ from <= k.hour /\ k.hour < to
                         /\ (path = AnyPath \/ k.path = path)
             old(k) == IF k \in DOMAIN rollup THEN rollup[k][c] ELSE 0
             keys == Query(from, to, path)
  <1>1. /\ DOMAIN rollup' = DOMAIN rollup \cup {key}
        /\ \A k \in DOMAIN rollup' :
              rollup'[k][c] = old(k) + (IF k = key /\ c = e.type THEN 1 ELSE 0)
    BY Upserts
  <1>2. asked(key) <=> (from <= e.at /\ e.at < to /\ path \in {e.path, AnyPath})
    BY AsksFor
  <1>3. keys = {k \in DOMAIN rollup : asked(k)}
    BY DEF Query
  <1>4. keys' = {k \in DOMAIN rollup' : asked(k)}
    BY DEF Query
  <1>5. \A k : old(k) \in Nat
    BY DEF StoreOK
  <1>6. \A k : old(k) = IF k \in DOMAIN rollup THEN rollup[k][c] ELSE 0
    OBVIOUS
  <1>7. \A x : x \in Tokens(keys, c) <=> \E k \in keys : \E n \in 1..old(k) : x = <<k, n>>
    BY <1>3 DEF Tokens
  <1>8. \A x : x \in Tokens(keys, c)' <=> \E k \in keys' : \E n \in 1..rollup'[k][c] : x = <<k, n>>
    BY DEF Tokens
  <1> HIDE DEF keys, old, asked, key
  <1>9. \A k \in DOMAIN rollup' : k # key => rollup'[k][c] = old(k)
    BY <1>1, <1>5
  <1>10. CASE c = e.type /\ asked(key)
    <2> DEFINE token == <<key, old(key) + 1>>
    <2>1. rollup'[key][c] = old(key) + 1
      BY <1>1, <1>10
    <2>2. keys' = keys \cup {key}
      BY <1>1, <1>3, <1>4, <1>10
    <2>3. token \notin Tokens(keys, c)
      BY <1>5, <1>7
    <2>4. 1..(old(key) + 1) = 1..old(key) \cup {old(key) + 1}
      BY <1>5
    <2>5. ASSUME NEW x \in Tokens(keys, c)'
          PROVE  x \in Tokens(keys, c) \cup {token}
      <3>1. PICK k \in keys' : \E n \in 1..rollup'[k][c] : x = <<k, n>>
        BY <1>8, <2>5
      <3>n. PICK n \in 1..rollup'[k][c] : x = <<k, n>>
        BY <3>1
      <3>2. CASE k # key
        <4>1. rollup'[k][c] = old(k) /\ k \in keys
          BY <1>4, <1>9, <2>2, <3>1, <3>n, <3>2
        <4> QED BY <1>7, <3>1, <3>n, <4>1
      <3>3. CASE k = key /\ n = old(key) + 1
        BY <3>1, <3>n, <3>3
      <3>4. CASE k = key /\ n # old(key) + 1
        <4>1. n \in 1..old(key)
          BY <2>1, <2>4, <3>1, <3>n, <3>4
        <4>2. key \in keys
          BY <1>3, <1>6, <1>10, <4>1
        <4> QED BY <1>7, <3>1, <3>n, <3>4, <4>1, <4>2
      <3> QED BY <3>2, <3>3, <3>4
    <2>6. ASSUME NEW x \in Tokens(keys, c)
          PROVE  x \in Tokens(keys, c)'
      <3>1. PICK k \in keys : \E n \in 1..old(k) : x = <<k, n>>
        BY <1>7, <2>6
      <3>n. PICK n \in 1..old(k) : x = <<k, n>>
        BY <3>1
      <3>2. n \in 1..rollup'[k][c]
        <4>1. CASE k = key
          BY <2>1, <2>4, <3>1, <3>n, <4>1
        <4>2. CASE k # key
          BY <1>1, <1>3, <1>9, <3>1, <3>n, <4>2
        <4> QED BY <4>1, <4>2
      <3> QED BY <1>8, <2>2, <3>1, <3>n, <3>2
    <2>7. token \in Tokens(keys, c)'
      <3>1. old(key) + 1 \in 1..rollup'[key][c]
        BY <1>5, <2>1
      <3> QED BY <1>8, <2>2, <3>1
    <2> HIDE DEF token
    <2>8. Tokens(keys, c)' = Tokens(keys, c) \cup {token}
      BY <2>5, <2>6, <2>7
    <2> QED BY <1>2, <1>10, <2>3, <2>8 DEF keys
  <1>11. CASE ~(c = e.type /\ asked(key))
    <2>1. \A k \in keys' : rollup'[k][c] = old(k)
      BY <1>1, <1>4, <1>5, <1>11
    <2>2. keys \subseteq keys'
      BY <1>1, <1>3, <1>4
    <2>3. \A k \in keys' : k \in keys \/ old(k) = 0
      BY <1>1, <1>3, <1>4, <1>6
    <2>4. \A x : x \in Tokens(keys, c) => x \in Tokens(keys, c)'
      BY <1>7, <1>8, <2>1, <2>2
    <2>5. ASSUME NEW x \in Tokens(keys, c)'
          PROVE  x \in Tokens(keys, c)
      <3>1. PICK k \in keys' : \E n \in 1..rollup'[k][c] : x = <<k, n>>
        BY <1>8, <2>5
      <3>n. PICK n \in 1..rollup'[k][c] : x = <<k, n>>
        BY <3>1
      <3>2. n \in 1..old(k) /\ k \in keys
        BY <2>1, <2>3, <3>1, <3>n
      <3> QED BY <1>7, <3>1, <3>n, <3>2
    <2>6. Tokens(keys, c)' = Tokens(keys, c)
      BY <2>4, <2>5
    <2> QED BY <1>2, <1>11, <2>6 DEF keys
  <1> QED BY <1>10, <1>11

(* Rows, buckets and claims move together. *)
LEMMA ReportsStep ==
  ASSUME ClaimInv, Reports, [Next]_vars
  PROVE  Reports'
  <1>1. ASSUME NEW l \in Projectors, Effect(l),
               NEW from \in Hours, NEW to \in Hours, NEW path \in Paths, NEW c \in Counters
        PROVE  AddsUp(from, to, path, c)'
    <2>1. PICK e : e = EventOf(l)
      OBVIOUS
    <2>2. e \in Countable /\ e \in Messages /\ e \notin claimed
      BY <1>1, <2>1, ClaimedOnce
    <2>3. claimed' = claimed \cup {e} /\ rollup' = UpsertCounter(e)
      BY <1>1, <2>1 DEF Effect
    <2>4. e.type \in Counters /\ StoreOK
      BY <2>2 DEF Countable, ClaimInv, TypeParted
    <2>5. PICK old, new : /\ old = Counted(from, to, path, c)
                          /\ new = Counted(from, to, path, c)'
      OBVIOUS
    <2>6. PICK had, has : /\ had = Tokens(Query(from, to, path), c)
                          /\ has = Tokens(Query(from, to, path), c)'
      OBVIOUS
    <2>7. IsFiniteSet(had) /\ IsFiniteSet(old) /\ Cardinality(had) = Cardinality(old)
      BY <1>1, <2>5, <2>6 DEF Reports, AddsUp
    <2>8. \/ \E token : token \notin had /\ has = had \cup {token} /\ new = old \cup {e}
          \/ has = had /\ new = old
      <3>1. new = old \cup (IF c = e.type /\ from <= e.at /\ e.at < to /\ path \in {e.path, AnyPath}
                            THEN {e} ELSE {})
        BY <2>3, <2>5 DEF Counted
      <3> QED BY <2>2, <2>3, <2>4, <2>6, <3>1, <1>1, TokenAdded
    <2>9. e \notin old
      BY <2>2, <2>5 DEF Counted
    <2>10. IsFiniteSet(has) /\ IsFiniteSet(new) /\ Cardinality(has) = Cardinality(new)
      <3>1. CASE has = had /\ new = old
        BY <2>7, <3>1
      <3>2. ASSUME NEW token, token \notin had, has = had \cup {token}, new = old \cup {e}
            PROVE  IsFiniteSet(has) /\ IsFiniteSet(new) /\ Cardinality(has) = Cardinality(new)
        <4>1. IsFiniteSet(has) /\ Cardinality(has) = Cardinality(had) + 1
          BY <2>7, <3>2, FS_AddElement
        <4>2. IsFiniteSet(new) /\ Cardinality(new) = Cardinality(old) + 1
          BY <2>7, <2>9, <3>2, FS_AddElement
        <4> QED BY <2>7, <4>1, <4>2
      <3> QED BY <2>8, <3>1, <3>2
    <2> QED BY <2>5, <2>6, <2>10 DEF AddsUp
  <1>2. CASE UNCHANGED claimed /\ UNCHANGED rollup
    <2>1. ASSUME NEW from \in Hours, NEW to \in Hours, NEW path \in Paths, NEW c \in Counters
          PROVE  AddsUp(from, to, path, c)'
      <3>1. Query(from, to, path)' = Query(from, to, path)
        BY <1>2 DEF Query
      <3>2. Tokens(Query(from, to, path), c)' = Tokens(Query(from, to, path), c)
        BY <1>2, <3>1 DEF Tokens
      <3>3. Counted(from, to, path, c)' = Counted(from, to, path, c)
        BY <1>2 DEF Counted
      <3>4. AddsUp(from, to, path, c)
        BY DEF Reports
      <3> QED BY <3>2, <3>3, <3>4 DEF AddsUp
    <2> QED BY <2>1 DEF Reports
  <1>3. ASSUME NEW l \in Projectors, Effect(l)
        PROVE  Reports'
    BY <1>1, <1>3 DEF Reports
  <1> QED BY <1>2, <1>3, Ways DEF ClaimInv

(* THE REPORTS: at any moment, for any path, any whole hours and any       *)
(* counter, a report shows as many events as have been counted with that   *)
(* type, on that path and at those times.                                  *)
THEOREM ReportsAddUpHolds == Spec => []ReportsAddUp
  <1>1. Init => Reports
    BY InitReports
  <1>2. ClaimInv /\ Reports /\ [Next]_vars => Reports'
    BY ReportsStep
  <1>3. Reports => ReportsAddUp
    <2>1. Horizon \in Nat
      BY AnalyticsAssumption DEF AnalyticsAssumption
    <2>2. \A t \in 0..Horizon : t % HourLength = 0 => t \in Hours
      BY <2>1 DEF Hours
    <2> QED BY <2>2, TotalIs DEF Reports, AddsUp, Counted, Paths, ReportsAddUp
  <1> QED BY <1>1, <1>2, <1>3, ClaimsCorrect, PTL DEF Spec
=============================================================================
