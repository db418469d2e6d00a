-------------------------- MODULE OutboxRelayProofs --------------------------
(***************************************************************************)
(* Proofs about OutboxRelay, for any topics and encoders, any number of    *)
(* aggregates, partitions, relays, events and failures, and any batch.     *)
(***************************************************************************)
EXTENDS OutboxRelay, SequenceTheorems, WellFoundedInduction, TLAPS

-----------------------------------------------------------------------------
(* The rows *)

Row == [aggregate : Aggregates, topic : TopicSet, place : Partitions,
        state : RowStates, sends : Nat, failed : BOOLEAN]

RowsOK == outbox \in Seq(Row)

(* The outbox is a table from ids to rows. *)
LEMMA RowsAre ==
  ASSUME RowsOK
  PROVE  /\ Len(outbox) \in Nat
         /\ Ids = 1..Len(outbox)
         /\ outbox \in [Ids -> Row]
         /\ \A i \in Ids : outbox[i] \in Row
  BY LenProperties, ElementOfSeq DEF RowsOK, Ids

(* Rewriting rows in place gives an outbox with the same ids. *)
LEMMA Rewrite ==
  ASSUME RowsOK, outbox' \in [Ids -> Row]
  PROVE  RowsOK' /\ Ids' = Ids
  <1>1. Len(outbox) \in Nat /\ Ids = 1..Len(outbox)
    BY RowsAre
  <1>2. outbox' \in UNION {[1..n -> Row] : n \in Nat}
    BY <1>1
  <1>3. outbox' \in Seq(Row)
    BY <1>2, SeqDef
  <1> QED BY <1>3 DEF RowsOK, Ids

(* The encoders' topics. *)
LEMMA TopicsAre ==
  /\ Len(Topics) \in Nat
  /\ \A k \in 1..Len(Topics) : Topics[k] \in TopicSet
  BY OutboxAssumption, LenProperties, ElementOfSeq DEF OutboxAssumption, TopicSet

(* A message of a topic about an aggregate goes to one of the partitions.  *)
LEMMA PlacementsAre ==
  ASSUME NEW a \in Aggregates, NEW t \in TopicSet
  PROVE  Placements(a, t) \subseteq Partitions
  BY OutboxAssumption DEF OutboxAssumption, Placements

(* The transaction of an aggregate adds a row to the outbox. *)
LEMMA RowAdded ==
  ASSUME RowsOK, NEW a \in Aggregates, NEW t \in TopicSet, NEW p \in Partitions,
         outbox' = Append(outbox, NewRow(a, t, p))
  PROVE  /\ RowsOK'
         /\ Ids' = Ids \cup {Len(outbox) + 1}
         /\ Len(outbox) + 1 \notin Ids
         /\ \A i \in Ids : outbox'[i] = outbox[i] /\ i < Len(outbox) + 1
         /\ outbox'[Len(outbox) + 1] = NewRow(a, t, p)
  <1>1. NewRow(a, t, p) \in Row
    BY DEF NewRow, Row, RowStates
  <1>2. Len(outbox) \in Nat /\ Ids = 1..Len(outbox)
    BY RowsAre
  <1>3. /\ outbox' \in Seq(Row)
        /\ Len(outbox') = Len(outbox) + 1
        /\ \A i \in 1..Len(outbox) : outbox'[i] = outbox[i]
        /\ outbox'[Len(outbox) + 1] = NewRow(a, t, p)
    BY <1>1, AppendProperties DEF RowsOK
  <1>4. Ids' = 1..(Len(outbox) + 1)
    BY <1>3, LenProperties DEF Ids
  <1> QED BY <1>2, <1>3, <1>4 DEF RowsOK

(* The end of an aggregate's transaction settles its open rows. *)
LEMMA RowsEnded ==
  ASSUME RowsOK, NEW a, NEW s \in RowStates, outbox' = Ended(a, s)
  PROVE  /\ RowsOK' /\ Ids' = Ids
         /\ \A i \in Ids : outbox[i].state # "open" => outbox'[i] = outbox[i]
         /\ \A i \in Ids :
               outbox'[i] = IF outbox[i].state = "open" /\ outbox[i].aggregate = a
                            THEN [outbox[i] EXCEPT !.state = s] ELSE outbox[i]
  <1>1. outbox \in [Ids -> Row]
    BY RowsAre
  <1>2. \A i \in Ids : [outbox[i] EXCEPT !.state = s] \in Row
    BY <1>1 DEF Row
  <1>3. outbox' \in [Ids -> Row]
    BY <1>1, <1>2 DEF Ended
  <1> QED BY <1>3, Rewrite DEF Ended

(* The end of a pass publishes what it marked. *)
LEMMA RowsPublished ==
  ASSUME RowsOK, NEW done
  PROVE  /\ Published(done) \in [Ids -> Row]
         /\ \A i \in Ids :
               Published(done)[i] =
                   IF i \in done THEN [outbox[i] EXCEPT !.state = "published", !.failed = FALSE]
                   ELSE outbox[i]
  <1>1. outbox \in [Ids -> Row]
    BY RowsAre
  <1>2. \A i \in Ids : [outbox[i] EXCEPT !.state = "published", !.failed = FALSE] \in Row
    BY <1>1 DEF Row, RowStates
  <1> QED BY <1>1, <1>2 DEF Published

-----------------------------------------------------------------------------
(* The conjuncts of TypeOK *)

PassType == [claimed : SUBSET RowsOf({"committed"}), marked : SUBSET RowsOf({"committed"}),
             sent : BOOLEAN]

PassesOK ==
    /\ pass \in [Relays -> PassType]
    /\ \A r \in Relays : pass[r].marked \subseteq pass[r].claimed
    /\ \A r, s \in Relays : r # s => pass[r].claimed \cap pass[s].claimed = {}

TxOK == tx \in [Aggregates -> 0..(Len(Topics) + 1)]

MessagesOK ==
    /\ partition \in [TopicSet -> [Partitions -> Seq(Ids)]]
    /\ received \subseteq Ids

CountsOK == written \in 0..MaxEvents /\ failures \in 0..MaxFailures /\ overlapped \in BOOLEAN

(* TypeOK is made of these parts. *)
LEMMA TypeOKParts ==
  TypeOK <=> RowsOK /\ TxOK /\ PassesOK /\ MessagesOK /\ CountsOK
  BY DEF TypeOK, RowsOK, Row, TxOK, PassesOK, PassType, MessagesOK, CountsOK

(* The least of some naturals is one of them. *)
LEMMA LeastIs ==
  ASSUME NEW S, S \subseteq Nat, S # {}
  PROVE  Least(S) \in S /\ \A j \in S : Least(S) <= j
  <1> DEFINE Less == OpToRel(<, Nat)
  <1>1. Less = {ss \in Nat \X Nat : ss[1] < ss[2]}
    BY Zenon DEF OpToRel
  <1>2. PICK i \in S : \A j \in S : ~(<<j, i>> \in Less)
    BY NatLessThanWellFounded, WFMin
  <1> HIDE DEF Less
  <1>3. ASSUME NEW j \in S
        PROVE  i <= j
    <2>1. i \in Nat /\ j \in Nat
      OBVIOUS
    <2>2. j < i => <<j, i>> \in {ss \in Nat \X Nat : ss[1] < ss[2]}
      BY <2>1
    <2>3. ~(j < i)
      BY <1>1, <1>2, <2>2, Zenon
    <2> QED BY <2>1, <2>3
  <1> QED BY <1>3 DEF Least

(* The row a pass is at: claimed, not marked, the oldest of those. *)
LEMMA NextRow ==
  ASSUME RowsOK, PassesOK, NEW r \in Relays, Left(r) # {}
  PROVE  /\ Least(Left(r)) \in Left(r)
         /\ Least(Left(r)) \in Ids
         /\ outbox[Least(Left(r))].state = "committed"
         /\ \A j \in Left(r) : Least(Left(r)) <= j
  <1>1. pass[r].claimed \subseteq RowsOf({"committed"})
    BY DEF PassesOK, PassType
  <1>2. Left(r) \subseteq Ids /\ \A i \in Left(r) : outbox[i].state = "committed"
    BY <1>1 DEF Left, RowsOf
  <1>3. Ids \subseteq Nat
    BY RowsAre
  <1> QED BY <1>2, <1>3, LeastIs

(* While the rows keep their ids, messages keep their type. *)
LEMMA MessagesKept ==
  ASSUME MessagesOK, Ids \subseteq Ids', UNCHANGED <<partition, received>>
  PROVE  MessagesOK'
  <1>1. \A t \in TopicSet : \A p \in Partitions : partition[t][p] \in Seq(Ids')
    BY SeqMonotonic DEF MessagesOK
  <1> QED BY <1>1 DEF MessagesOK

(* While the committed rows stay so, passes keep their type. *)
LEMMA PassesKept ==
  ASSUME PassesOK, RowsOf({"committed"}) \subseteq RowsOf({"committed"})', UNCHANGED pass
  PROVE  PassesOK'
  <1>1. \A r \in Relays : pass[r] \in PassType'
    BY DEF PassesOK, PassType
  <1> QED BY <1>1 DEF PassesOK

(* One relay's pass changes, the committed rows stay so. *)
LEMMA PassChanged ==
  ASSUME PassesOK, NEW r \in Relays, NEW q \in PassType',
         pass' = [pass EXCEPT ![r] = q],
         q.marked \subseteq q.claimed,
         \A s \in Relays : s # r =>
             /\ pass[s].claimed \subseteq RowsOf({"committed"})'
             /\ q.claimed \cap pass[s].claimed = {}
  PROVE  PassesOK'
  <1>1. /\ pass'[r] = q
        /\ \A s \in Relays : s # r => pass'[s] = pass[s]
    BY DEF PassesOK
  <1>2. \A s \in Relays : s # r => pass[s] \in PassType'
    BY DEF PassesOK, PassType
  <1>3. pass' \in [Relays -> PassType']
    BY <1>1, <1>2 DEF PassesOK
  <1> QED BY <1>1, <1>3 DEF PassesOK

(* A relay's pass has its three fields, and is of the type with any other  *)
(* value of the third.                                                     *)
LEMMA PassIs ==
  ASSUME PassesOK, NEW r \in Relays
  PROVE  /\ pass[r].claimed \in SUBSET RowsOf({"committed"})
         /\ pass[r].marked \in SUBSET pass[r].claimed
         /\ pass[r].sent \in BOOLEAN
         /\ pass[r] = [claimed |-> pass[r].claimed, marked |-> pass[r].marked,
                       sent |-> pass[r].sent]
         /\ \A b \in BOOLEAN : /\ [pass[r] EXCEPT !.sent = b] \in PassType
                               /\ [pass[r] EXCEPT !.sent = b].claimed = pass[r].claimed
                               /\ [pass[r] EXCEPT !.sent = b].marked = pass[r].marked
                               /\ [pass[r] EXCEPT !.sent = b].sent = b
  <1>1. pass[r] \in PassType /\ pass[r].marked \subseteq pass[r].claimed
    BY DEF PassesOK
  <1> QED BY <1>1 DEF PassType

(* The type of a pass depends on which rows are committed only. *)
LEMMA SamePassType ==
  ASSUME RowsOf({"committed"})' = RowsOf({"committed"})
  PROVE  PassType' = PassType
  BY DEF PassType

(* A relay without a pass is of the type. *)
LEMMA NoPassType == NoPass \in PassType /\ NoPass \in PassType'
  BY DEF NoPass, PassType

(* ... and holds nothing. *)
LEMMA NoPassIs == NoPass.claimed = {} /\ NoPass.marked = {} /\ ~NoPass.sent
  BY DEF NoPass

-----------------------------------------------------------------------------
(* Writers keep the types. *)

(* A transaction that begins has no rows. *)
LEMMA BeginType ==
  ASSUME TypeOK, NEW a \in Aggregates, Begin(a)
  PROVE  TypeOK'
  <1>1. RowsOK /\ TxOK /\ PassesOK /\ MessagesOK /\ CountsOK
    BY TypeOKParts
  <1>2. UNCHANGED <<outbox, pass, partition, received, failures, overlapped>>
    BY DEF Begin, relaying
  <1>3. TxOK'
    BY <1>1, TopicsAre DEF TxOK, Begin
  <1>4. CountsOK'
    BY <1>1, <1>2, OutboxAssumption DEF CountsOK, Begin, OutboxAssumption
  <1>5. RowsOK' /\ PassesOK' /\ MessagesOK'
    BY <1>1, <1>2, MessagesKept, PassesKept DEF RowsOK, RowsOf, Ids
  <1> QED BY <1>3, <1>4, <1>5 DEF TypeOK, RowsOK, Row, TxOK, PassesOK, PassType, MessagesOK, CountsOK

(* A row that is inserted gets the next id. *)
LEMMA PublishType ==
  ASSUME TypeOK, NEW a \in Aggregates, Publish(a)
  PROVE  TypeOK'
  <1> DEFINE t == Topics[tx[a]]
  <1>1. RowsOK /\ TxOK /\ PassesOK /\ MessagesOK /\ CountsOK
    BY TypeOKParts
  <1>2. UNCHANGED <<written, pass, partition, received, failures, overlapped>>
    BY DEF Publish, relaying
  <1>3. TxOK'
    BY <1>1, TopicsAre DEF TxOK, Publish
  <1>4. /\ RowsOK'
        /\ Ids \subseteq Ids'
        /\ \A i \in Ids : outbox'[i] = outbox[i]
    <2>1. CASE outbox' = outbox
      BY <2>1, <1>1 DEF RowsOK, Ids
    <2>2. CASE \E p \in Placements(a, t) : outbox' = Append(outbox, NewRow(a, t, p))
      <3>1. t \in TopicSet
        BY TopicsAre DEF Publish
      <3>2. PICK p \in Partitions : outbox' = Append(outbox, NewRow(a, t, p))
        BY <2>2, <3>1, PlacementsAre
      <3> QED BY <1>1, <3>1, <3>2, RowAdded
    <2> QED BY <2>1, <2>2 DEF Publish
  <1>5. RowsOf({"committed"}) \subseteq RowsOf({"committed"})'
    BY <1>4 DEF RowsOf
  <1>6. PassesOK' /\ MessagesOK' /\ CountsOK'
    BY <1>1, <1>2, <1>4, <1>5, MessagesKept, PassesKept DEF CountsOK
  <1> QED BY <1>3, <1>4, <1>6 DEF TypeOK, RowsOK, Row, TxOK, PassesOK, PassType, MessagesOK, CountsOK

(* A commit and a rollback settle the rows of one transaction. *)
LEMMA EndTxType ==
  ASSUME TypeOK, NEW a \in Aggregates, NEW s \in RowStates, EndTx(a, s)
  PROVE  TypeOK'
  <1>1. RowsOK /\ TxOK /\ PassesOK /\ MessagesOK /\ CountsOK
    BY TypeOKParts
  <1>2. UNCHANGED <<written, pass, partition, received, failures, overlapped>>
    BY DEF EndTx, relaying
  <1>3. TxOK'
    BY <1>1, TopicsAre DEF TxOK, EndTx
  <1>4. /\ RowsOK' /\ Ids' = Ids
        /\ \A i \in Ids : outbox[i].state # "open" => outbox'[i] = outbox[i]
    BY <1>1, RowsEnded DEF EndTx
  <1>5. RowsOf({"committed"}) \subseteq RowsOf({"committed"})'
    BY <1>4 DEF RowsOf
  <1>6. PassesOK' /\ MessagesOK' /\ CountsOK'
    BY <1>1, <1>2, <1>4, <1>5, MessagesKept, PassesKept DEF CountsOK
  <1> QED BY <1>3, <1>4, <1>6 DEF TypeOK, RowsOK, Row, TxOK, PassesOK, PassType, MessagesOK, CountsOK

-----------------------------------------------------------------------------
(* What a relay does to the messages *)

(* Row i's message goes to the end of its partition, n times. *)
LEMMA Delivered ==
  ASSUME RowsOK, MessagesOK, NEW i \in Ids, NEW n \in Nat, Deliver(i, n)
  PROVE  /\ partition' \in [TopicSet -> [Partitions -> Seq(Ids)]]
         /\ \A t \in TopicSet : \A p \in Partitions :
               t # outbox[i].topic \/ p # outbox[i].place => partition'[t][p] = partition[t][p]
         /\ LET log  == partition[outbox[i].topic][outbox[i].place]
                log2 == partition'[outbox[i].topic][outbox[i].place]
            IN  /\ Len(log) \in Nat
                /\ Len(log2) = Len(log) + n
                /\ \A m \in 1..Len(log) : log2[m] = log[m]
                /\ \A m \in (Len(log) + 1)..(Len(log) + n) : log2[m] = i
  <1> DEFINE t == outbox[i].topic
             p == outbox[i].place
             log == partition[t][p]
             more == [k \in 1..n |-> i]
  <1>1. t \in TopicSet /\ p \in Partitions
    BY RowsAre DEF Row
  <1>2. log \in Seq(Ids) /\ more \in Seq(Ids) /\ Len(more) = n
    <2>1. log \in Seq(Ids)
      BY <1>1 DEF MessagesOK
    <2>2. more \in UNION {[1..m -> Ids] : m \in Nat}
      OBVIOUS
    <2>3. more \in Seq(Ids)
      BY <2>2, SeqDef
    <2>4. Len(more) \in Nat /\ 1..Len(more) = 1..n
      BY <2>3, LenProperties
    <2> QED BY <2>1, <2>3, <2>4
  <1>3. partition' = [partition EXCEPT ![t][p] = log \o more]
    BY DEF Deliver
  <1> HIDE DEF more
  <1>4. /\ Len(log) \in Nat
        /\ log \o more \in Seq(Ids)
        /\ Len(log \o more) = Len(log) + n
        /\ \A m \in 1..(Len(log) + n) :
              (log \o more)[m] = IF m <= Len(log) THEN log[m] ELSE more[m - Len(log)]
    BY <1>2, ConcatProperties, LenProperties
  <1>5. \A k \in 1..n : more[k] = i
    BY DEF more
  <1>6. partition'[t][p] = log \o more
    BY <1>1, <1>3 DEF MessagesOK
  <1> HIDE DEF t, p
  <1>7. partition' \in [TopicSet -> [Partitions -> Seq(Ids)]]
    BY <1>1, <1>3, <1>4 DEF MessagesOK
  <1>8. \A u \in TopicSet : \A x \in Partitions :
           u # t \/ x # p => partition'[u][x] = partition[u][x]
    BY <1>1, <1>3 DEF MessagesOK
  <1>9. \A m \in 1..Len(log) : (log \o more)[m] = log[m]
    BY <1>4
  <1>10. \A m \in (Len(log) + 1)..(Len(log) + n) : (log \o more)[m] = i
    <2> SUFFICES ASSUME NEW m \in (Len(log) + 1)..(Len(log) + n)
                 PROVE  (log \o more)[m] = i
      OBVIOUS
    <2>1. m \in 1..(Len(log) + n) /\ ~(m <= Len(log)) /\ m - Len(log) \in 1..n
      BY <1>4
    <2> QED BY <2>1, <1>4, <1>5
  <1> QED BY <1>4, <1>6, <1>7, <1>8, <1>9, <1>10 DEF t, p

(* The consumer takes the first message of a partition. *)
LEMMA Taken ==
  ASSUME MessagesOK, NEW t \in TopicSet, NEW p \in Partitions, Receive(t, p)
  PROVE  /\ partition' \in [TopicSet -> [Partitions -> Seq(Ids)]]
         /\ \A u \in TopicSet : \A x \in Partitions :
               u # t \/ x # p => partition'[u][x] = partition[u][x]
         /\ Len(partition[t][p]) \in Nat \ {0}
         /\ Len(partition'[t][p]) = Len(partition[t][p]) - 1
         /\ \A m \in 1..Len(partition'[t][p]) : partition'[t][p][m] = partition[t][p][m + 1]
         /\ partition[t][p][1] \in Ids
         /\ received' = received \cup {partition[t][p][1]}
  <1> DEFINE log == partition[t][p]
  <1>1. log \in Seq(Ids) /\ log # <<>>
    BY DEF MessagesOK, Receive
  <1>2. /\ Len(log) \in Nat \ {0}
        /\ Tail(log) \in Seq(Ids)
        /\ Len(Tail(log)) = Len(log) - 1
        /\ \A m \in 1..Len(Tail(log)) : Tail(log)[m] = log[m + 1]
    BY <1>1, EmptySeq, HeadTailProperties
  <1>3. Head(log) = log[1] /\ log[1] \in Ids
    BY <1>1, <1>2, ElementOfSeq
  <1>4. partition' = [partition EXCEPT ![t][p] = Tail(log)]
    BY DEF Receive
  <1>5. partition'[t][p] = Tail(log)
    BY <1>4 DEF MessagesOK
  <1>6. partition' \in [TopicSet -> [Partitions -> Seq(Ids)]]
    BY <1>2, <1>4 DEF MessagesOK
  <1>7. \A u \in TopicSet : \A x \in Partitions :
           u # t \/ x # p => partition'[u][x] = partition[u][x]
    BY <1>4 DEF MessagesOK
  <1> QED BY <1>2, <1>3, <1>5, <1>6, <1>7 DEF Receive

-----------------------------------------------------------------------------
(* Relays and consumers keep the types. *)

(* A pass claims rows that no other pass has. *)
LEMMA ClaimType ==
  ASSUME TypeOK, NEW r \in Relays, ClaimOutboxRows(r)
  PROVE  TypeOK'
  <1>1. RowsOK /\ TxOK /\ PassesOK /\ MessagesOK /\ CountsOK
    BY TypeOKParts
  <1>2. UNCHANGED <<outbox, tx, partition, received, written, failures>>
    BY DEF ClaimOutboxRows
  <1>3. RowsOK' /\ TxOK' /\ MessagesOK' /\ CountsOK'
    <2>1. overlapped' \in BOOLEAN
      BY Zenon DEF ClaimOutboxRows
    <2> QED BY <1>1, <1>2, <2>1, MessagesKept DEF RowsOK, TxOK, CountsOK, Ids
  <1>4. PICK S \in SUBSET (RowsOf({"committed"}) \ Locked) :
           pass' = [pass EXCEPT ![r].claimed = S]
    BY DEF ClaimOutboxRows
  <1> DEFINE q == [pass[r] EXCEPT !.claimed = S]
  <1>5. pass' = [pass EXCEPT ![r] = q]
    BY <1>4
  <1>6. RowsOf({"committed"})' = RowsOf({"committed"})
    BY <1>2 DEF RowsOf, Ids
  <1>7. q \in PassType' /\ q.claimed = S /\ q.marked \subseteq q.claimed
    <2>1. pass[r].marked = {}
      BY DEF ClaimOutboxRows, Idle, NoPass
    <2>2. pass[r] \in PassType /\ S \subseteq RowsOf({"committed"})
      BY <1>1 DEF PassesOK
    <2>3. q \in PassType /\ q.claimed = S /\ q.marked = {}
      BY <2>1, <2>2 DEF PassType
    <2> QED BY <2>3, <1>6, SamePassType
  <1>8. \A s \in Relays : s # r =>
           /\ pass[s].claimed \subseteq RowsOf({"committed"})'
           /\ q.claimed \cap pass[s].claimed = {}
    BY <1>1, <1>6, <1>7 DEF PassesOK, PassType, Locked
  <1> HIDE DEF q
  <1>9. PassesOK'
    BY <1>1, <1>5, <1>7, <1>8, PassChanged
  <1> QED BY <1>3, <1>9 DEF TypeOK, RowsOK, Row, TxOK, PassesOK, PassType, MessagesOK, CountsOK

(* A failure is counted up to the bound. *)
LEMMA FailCounts ==
  ASSUME CountsOK, Fail
  PROVE  failures' \in 0..MaxFailures /\ failures' = failures + 1
  BY OutboxAssumption DEF CountsOK, Fail, OutboxAssumption

(* A row that is sent n times more differs in that count only. *)
LEMMA RowSent ==
  ASSUME NEW x \in Row, NEW n \in Nat
  PROVE  LET y == [x EXCEPT !.sends = @ + n]
         IN  /\ y \in Row
             /\ y.aggregate = x.aggregate /\ y.topic = x.topic /\ y.place = x.place
             /\ y.state = x.state /\ y.sends = x.sends + n
  BY DEF Row

(* What a send does to the rows: one of them counts it. *)
LEMMA RowsSent ==
  ASSUME RowsOK, NEW i \in Ids, NEW n \in Nat,
         outbox' = [outbox EXCEPT ![i].sends = @ + n]
  PROVE  /\ RowsOK' /\ Ids' = Ids
         /\ \A j \in Ids : j # i => outbox'[j] = outbox[j]
         /\ outbox'[i] = [outbox[i] EXCEPT !.sends = @ + n]
         /\ \A j \in Ids : outbox'[j].state = outbox[j].state
  <1>1. outbox \in [Ids -> Row]
    BY RowsAre
  <1>2. [outbox[i] EXCEPT !.sends = @ + n] \in Row
    BY <1>1 DEF Row
  <1>3. outbox' = [outbox EXCEPT ![i] = [outbox[i] EXCEPT !.sends = @ + n]]
    OBVIOUS
  <1>4. /\ outbox' \in [Ids -> Row]
        /\ \A j \in Ids : j # i => outbox'[j] = outbox[j]
        /\ outbox'[i] = [outbox[i] EXCEPT !.sends = @ + n]
    BY <1>1, <1>2, <1>3
  <1>5. outbox'[i].state = outbox[i].state
    BY <1>1, <1>4 DEF Row
  <1> QED BY <1>4, <1>5, Rewrite

(* A send leaves the claims alone. *)
LEMMA SendType ==
  ASSUME TypeOK, NEW r \in Relays, Send(r)
  PROVE  TypeOK'
  <1> DEFINE i == Least(Left(r))
  <1>1. RowsOK /\ TxOK /\ PassesOK /\ MessagesOK /\ CountsOK
    BY TypeOKParts
  <1>2. i \in Ids
    BY <1>1, NextRow DEF Send
  <1>3. UNCHANGED <<tx, received, written, overlapped>>
    BY DEF Send
  <1>4. PICK n \in 1..2 : /\ (n = 1 /\ UNCHANGED failures) \/ (n = 2 /\ Fail)
                          /\ Deliver(i, n)
                          /\ outbox' = [outbox EXCEPT ![i].sends = @ + n]
    BY DEF Send
  <1>5. n \in Nat
    BY <1>4
  <1> HIDE DEF i
  <1>6. RowsOK' /\ Ids' = Ids /\ RowsOf({"committed"})' = RowsOf({"committed"})
    <2>1. RowsOK' /\ Ids' = Ids /\ \A j \in Ids : outbox'[j].state = outbox[j].state
      BY <1>1, <1>2, <1>4, <1>5, RowsSent
    <2> QED BY <2>1 DEF RowsOf
  <1>7. MessagesOK'
    <2>1. partition' \in [TopicSet -> [Partitions -> Seq(Ids)]]
      BY <1>1, <1>2, <1>4, <1>5, Delivered
    <2> QED BY <2>1, <1>1, <1>3, <1>6 DEF MessagesOK
  <1>8. TxOK' /\ CountsOK'
    BY <1>1, <1>3, <1>4, FailCounts DEF TxOK, CountsOK
  <1> DEFINE q == [pass[r] EXCEPT !.sent = TRUE]
  <1>9. pass' = [pass EXCEPT ![r] = q]
    BY DEF Send
  <1>10. /\ q \in PassType'
         /\ q.claimed = pass[r].claimed /\ q.marked = pass[r].marked
    BY <1>1, <1>6, PassIs, SamePassType
  <1>11. q.marked \subseteq q.claimed
    BY <1>1, <1>10 DEF PassesOK
  <1>12. \A s \in Relays : s # r =>
           /\ pass[s].claimed \subseteq RowsOf({"committed"})'
           /\ q.claimed \cap pass[s].claimed = {}
    BY <1>1, <1>6, <1>10 DEF PassesOK, PassType
  <1> HIDE DEF q
  <1>13. PassesOK'
    BY <1>1, <1>9, <1>10, <1>11, <1>12, PassChanged
  <1> QED BY <1>6, <1>7, <1>8, <1>13
          DEF TypeOK, RowsOK, Row, TxOK, PassesOK, PassType, MessagesOK, CountsOK

(* A mark is of a row of the own batch. *)
LEMMA MarkType ==
  ASSUME TypeOK, NEW r \in Relays, Mark(r), Left(r) # {}
  PROVE  TypeOK'
  <1> DEFINE i == Least(Left(r))
             q == [pass[r] EXCEPT !.marked = @ \cup {i}, !.sent = FALSE]
  <1>1. RowsOK /\ TxOK /\ PassesOK /\ MessagesOK /\ CountsOK
    BY TypeOKParts
  <1>2. UNCHANGED <<outbox, tx, partition, received, written, failures, overlapped>>
    BY DEF Mark
  <1>3. RowsOf({"committed"})' = RowsOf({"committed"})
    BY <1>2 DEF RowsOf, Ids
  <1>4. i \in pass[r].claimed
    BY <1>1, NextRow DEF Left
  <1>5. pass' = [pass EXCEPT ![r] = q]
    BY DEF Mark
  <1> HIDE DEF i
  <1>6. /\ q \in PassType
        /\ q.claimed = pass[r].claimed
        /\ q.marked \subseteq q.claimed
    <2>1. pass[r] \in PassType /\ pass[r].marked \subseteq pass[r].claimed
      BY <1>1 DEF PassesOK
    <2> QED BY <2>1, <1>4 DEF PassType
  <1>7. \A s \in Relays : s # r =>
           /\ pass[s].claimed \subseteq RowsOf({"committed"})'
           /\ q.claimed \cap pass[s].claimed = {}
    BY <1>1, <1>3, <1>6 DEF PassesOK, PassType
  <1> HIDE DEF q
  <1>8. PassesOK'
    BY <1>1, <1>3, <1>5, <1>6, <1>7, PassChanged, SamePassType
  <1>9. RowsOK' /\ TxOK' /\ MessagesOK' /\ CountsOK'
    BY <1>1, <1>2, MessagesKept DEF RowsOK, TxOK, CountsOK, Ids
  <1> QED BY <1>8, <1>9 DEF TypeOK, RowsOK, Row, TxOK, PassesOK, PassType, MessagesOK, CountsOK

(* What a step leaves of the content of a row. *)
SameMessage(i) ==
    /\ outbox'[i].aggregate = outbox[i].aggregate
    /\ outbox'[i].topic = outbox[i].topic
    /\ outbox'[i].place = outbox[i].place

(* The rows once a pass has committed all it marked. *)
LEMMA RowsOfCommit ==
  ASSUME RowsOK, NEW r \in Relays, CommitPass(r)
  PROVE  /\ RowsOK' /\ Ids' = Ids
         /\ \A j \in Ids :
               /\ SameMessage(j)
               /\ outbox'[j].sends = outbox[j].sends
               /\ outbox'[j].state = IF j \in pass[r].marked THEN "published"
                                     ELSE outbox[j].state
  <1>1. outbox \in [Ids -> Row]
    BY RowsAre
  <1>2. outbox' = Published(pass[r].marked)
    BY DEF CommitPass
  <1>3. RowsOK' /\ Ids' = Ids
    BY <1>2, RowsPublished, Rewrite
  <1>4. ASSUME NEW j \in Ids, j \in pass[r].marked
        PROVE  /\ SameMessage(j)
               /\ outbox'[j].sends = outbox[j].sends
               /\ outbox'[j].state = "published"
    <2>1. outbox'[j] = [outbox[j] EXCEPT !.state = "published", !.failed = FALSE]
      BY <1>2, <1>4, RowsPublished
    <2>2. outbox[j] \in Row
      BY <1>1
    <2> QED BY <2>1, <2>2 DEF Row, SameMessage
  <1>5. ASSUME NEW j \in Ids, j \notin pass[r].marked
        PROVE  outbox'[j] = outbox[j]
    BY <1>2, <1>5, RowsPublished
  <1> QED BY <1>3, <1>4, <1>5 DEF SameMessage

(* The rows once a pass has stopped at a send that reports a failure: the  *)
(* row it is at may have been sent all the same.                           *)
LEMMA RowsOfAbort ==
  ASSUME RowsOK, PassesOK, NEW r \in Relays, AbortSend(r)
  PROVE  LET i == Least(Left(r))
         IN  /\ RowsOK' /\ Ids' = Ids
             /\ \A j \in Ids :
                   /\ SameMessage(j)
                   /\ j # i => outbox'[j].sends = outbox[j].sends
                   /\ outbox'[j].state = IF j \in pass[r].marked THEN "published"
                                         ELSE outbox[j].state
             /\ \/ outbox'[i].sends = outbox[i].sends /\ UNCHANGED partition
                \/ outbox'[i].sends = outbox[i].sends + 1 /\ Deliver(i, 1)
  <1> DEFINE i == Least(Left(r))
             done == pass[r].marked
             noted == [Published(done) EXCEPT ![i].failed = TRUE]
             resent == [noted EXCEPT ![i].sends = @ + 1]
             Rewritten(f) == /\ f \in [Ids -> Row]
                             /\ \A j \in Ids :
                                /\ f[j].aggregate = outbox[j].aggregate
                                /\ f[j].topic = outbox[j].topic
                                /\ f[j].place = outbox[j].place
                                /\ j # i => f[j].sends = outbox[j].sends
                                /\ f[j].state = IF j \in done THEN "published"
                                                ELSE outbox[j].state
  <1>1. outbox \in [Ids -> Row]
    BY RowsAre
  <1>2. i \in Ids /\ i \notin done
    BY NextRow DEF AbortSend, Left
  <1>3. \/ outbox' = noted /\ UNCHANGED partition
        \/ outbox' = resent /\ Deliver(i, 1)
    BY DEF AbortSend
  <1>4. /\ Published(done) \in [Ids -> Row]
        /\ Published(done)[i] = outbox[i]
        /\ \A j \in Ids : j \in done =>
              Published(done)[j] = [outbox[j] EXCEPT !.state = "published", !.failed = FALSE]
        /\ \A j \in Ids : j \notin done => Published(done)[j] = outbox[j]
    <2> HIDE DEF i, done
    <2>1. /\ Published(done) \in [Ids -> Row]
          /\ \A j \in Ids :
               Published(done)[j] =
                   IF j \in done THEN [outbox[j] EXCEPT !.state = "published", !.failed = FALSE]
                   ELSE outbox[j]
      BY RowsPublished
    <2> QED BY <1>2, <2>1
  <1> HIDE DEF i, done
  <1>5. [outbox[i] EXCEPT !.failed = TRUE] \in Row
    BY <1>1, <1>2 DEF Row
  <1>6. /\ noted \in [Ids -> Row]
        /\ noted[i] = [outbox[i] EXCEPT !.failed = TRUE]
        /\ \A j \in Ids : j # i => noted[j] = Published(done)[j]
    BY <1>2, <1>4, <1>5
  <1>7. ASSUME NEW j \in Ids, j \in done
        PROVE  /\ noted[j].aggregate = outbox[j].aggregate
               /\ noted[j].topic = outbox[j].topic
               /\ noted[j].place = outbox[j].place
               /\ noted[j].sends = outbox[j].sends
               /\ noted[j].state = "published"
    <2>1. noted[j] = [outbox[j] EXCEPT !.state = "published", !.failed = FALSE]
      BY <1>2, <1>4, <1>6, <1>7
    <2>2. outbox[j] \in Row
      BY <1>1
    <2> HIDE DEF noted
    <2> QED BY <2>1, <2>2 DEF Row
  <1>8. ASSUME NEW j \in Ids, j \notin done, j # i
        PROVE  noted[j] = outbox[j]
    BY <1>4, <1>6, <1>8
  <1>9. /\ noted[i].aggregate = outbox[i].aggregate
        /\ noted[i].topic = outbox[i].topic
        /\ noted[i].place = outbox[i].place
        /\ noted[i].sends = outbox[i].sends
        /\ noted[i].state = outbox[i].state
    <2>1. noted[i] = [outbox[i] EXCEPT !.failed = TRUE] /\ outbox[i] \in Row
      BY <1>1, <1>2, <1>6
    <2> HIDE DEF noted
    <2> QED BY <2>1 DEF Row
  <1>10. Rewritten(noted) /\ noted[i].sends = outbox[i].sends
    <2> HIDE DEF noted
    <2> QED BY <1>2, <1>6, <1>7, <1>8, <1>9
  <1>11. Rewritten(resent) /\ resent[i].sends = outbox[i].sends + 1
    <2> HIDE DEF noted
    <2>1. noted[i] \in Row
      BY <1>2, <1>6
    <2>2. [noted[i] EXCEPT !.sends = @ + 1] \in Row
      BY <2>1, RowSent
    <2>3. /\ resent \in [Ids -> Row]
          /\ resent[i] = [noted[i] EXCEPT !.sends = @ + 1]
          /\ \A j \in Ids : j # i => resent[j] = noted[j]
      BY <1>2, <1>6, <2>2
    <2> HIDE DEF resent
    <2>4. /\ resent[i].aggregate = noted[i].aggregate
          /\ resent[i].topic = noted[i].topic
          /\ resent[i].place = noted[i].place
          /\ resent[i].sends = noted[i].sends + 1
          /\ resent[i].state = noted[i].state
      BY <2>1, <2>3, RowSent
    <2>5. Rewritten(resent)
      <3> SUFFICES ASSUME NEW j \in Ids
                   PROVE  /\ resent[j].aggregate = outbox[j].aggregate
                          /\ resent[j].topic = outbox[j].topic
                          /\ resent[j].place = outbox[j].place
                          /\ j # i => resent[j].sends = outbox[j].sends
                          /\ resent[j].state = IF j \in done THEN "published"
                                               ELSE outbox[j].state
        BY <2>3
      <3>1. CASE j = i
        BY <3>1, <1>10, <2>4
      <3>2. CASE j # i
        BY <3>2, <1>10, <2>3
      <3> QED BY <3>1, <3>2
    <2> QED BY <1>10, <2>4, <2>5
  <1> HIDE DEF noted, resent
  <1>12. Rewritten(outbox') /\ \/ outbox'[i].sends = outbox[i].sends /\ UNCHANGED partition
                               \/ outbox'[i].sends = outbox[i].sends + 1 /\ Deliver(i, 1)
    BY <1>3, <1>10, <1>11
  <1>13. RowsOK' /\ Ids' = Ids
    BY <1>12, Rewrite
  <1> QED BY <1>12, <1>13 DEF SameMessage, i, done

(* The end of a pass frees its rows; those of the others stay claimed. *)
LEMMA EndPassType ==
  ASSUME PassesOK, RowsOK, NEW r \in Relays, EndPass(r), Ids' = Ids,
         \A j \in Ids : outbox'[j].state = IF j \in pass[r].marked THEN "published"
                                           ELSE outbox[j].state
  PROVE  PassesOK'
  <1>1. pass' = [pass EXCEPT ![r] = NoPass]
    BY DEF EndPass
  <1>2. NoPass \in PassType' /\ NoPass.claimed = {} /\ NoPass.marked = {}
    BY NoPassType DEF NoPass
  <1>3. ASSUME NEW s \in Relays, s # r
        PROVE  pass[s].claimed \subseteq RowsOf({"committed"})'
    <2>1. /\ pass[s].claimed \subseteq RowsOf({"committed"})
          /\ pass[s].claimed \cap pass[r].claimed = {}
          /\ pass[r].marked \subseteq pass[r].claimed
      BY <1>3 DEF PassesOK, PassType
    <2>2. \A j \in pass[s].claimed : j \in Ids' /\ outbox'[j].state = "committed"
      BY <2>1 DEF RowsOf
    <2> QED BY <2>2 DEF RowsOf
  <1> QED BY <1>1, <1>2, <1>3, PassChanged

(* The end of a pass frees its rows. *)
LEMMA CommitPassType ==
  ASSUME TypeOK, NEW r \in Relays, CommitPass(r)
  PROVE  TypeOK'
  <1>1. RowsOK /\ TxOK /\ PassesOK /\ MessagesOK /\ CountsOK
    BY TypeOKParts
  <1>2. UNCHANGED <<tx, partition, received, written, failures, overlapped>> /\ EndPass(r)
    BY DEF CommitPass
  <1>3. /\ RowsOK' /\ Ids' = Ids
        /\ \A j \in Ids : outbox'[j].state = IF j \in pass[r].marked THEN "published"
                                             ELSE outbox[j].state
    BY <1>1, RowsOfCommit
  <1>4. PassesOK'
    BY <1>1, <1>2, <1>3, EndPassType
  <1>5. TxOK' /\ MessagesOK' /\ CountsOK'
    BY <1>1, <1>2, <1>3, MessagesKept DEF TxOK, CountsOK
  <1> QED BY <1>3, <1>4, <1>5
          DEF TypeOK, RowsOK, Row, TxOK, PassesOK, PassType, MessagesOK, CountsOK

(* A failed send frees the rows of its pass. *)
LEMMA AbortSendType ==
  ASSUME TypeOK, NEW r \in Relays, AbortSend(r)
  PROVE  TypeOK'
  <1> DEFINE i == Least(Left(r))
  <1>1. RowsOK /\ TxOK /\ PassesOK /\ MessagesOK /\ CountsOK
    BY TypeOKParts
  <1>2. UNCHANGED <<tx, received, written, overlapped>> /\ EndPass(r) /\ Fail
    BY DEF AbortSend
  <1>3. /\ RowsOK' /\ Ids' = Ids
        /\ \A j \in Ids : outbox'[j].state = IF j \in pass[r].marked THEN "published"
                                             ELSE outbox[j].state
        /\ UNCHANGED partition \/ Deliver(i, 1)
    BY <1>1, RowsOfAbort
  <1>4. i \in Ids
    BY <1>1, NextRow DEF AbortSend
  <1>5. PassesOK'
    BY <1>1, <1>2, <1>3, EndPassType
  <1> HIDE DEF i
  <1>6. MessagesOK'
    <2>1. CASE UNCHANGED partition
      BY <2>1, <1>1, <1>2, <1>3, MessagesKept
    <2>2. CASE Deliver(i, 1)
      <3>1. partition' \in [TopicSet -> [Partitions -> Seq(Ids)]]
        BY <2>2, <1>1, <1>4, Delivered
      <3> QED BY <3>1, <1>1, <1>2, <1>3 DEF MessagesOK
    <2> QED BY <1>3, <2>1, <2>2
  <1>7. TxOK' /\ CountsOK'
    BY <1>1, <1>2, FailCounts DEF TxOK, CountsOK
  <1> QED BY <1>3, <1>5, <1>6, <1>7
          DEF TypeOK, RowsOK, Row, TxOK, PassesOK, PassType, MessagesOK, CountsOK

(* A pass that is rolled back frees its rows. *)
LEMMA RollBackPassType ==
  ASSUME TypeOK, NEW r \in Relays, RollBackPass(r)
  PROVE  TypeOK'
  <1>1. RowsOK /\ TxOK /\ PassesOK /\ MessagesOK /\ CountsOK
    BY TypeOKParts
  <1>2. /\ UNCHANGED <<outbox, tx, partition, received, written, overlapped>>
        /\ pass' = [pass EXCEPT ![r] = NoPass] /\ Fail
    BY DEF RollBackPass, EndPass
  <1>3. RowsOK' /\ Ids' = Ids /\ RowsOf({"committed"})' = RowsOf({"committed"})
    BY <1>1, <1>2 DEF RowsOK, RowsOf, Ids
  <1>4. NoPass \in PassType' /\ NoPass.claimed = {} /\ NoPass.marked = {}
    BY NoPassType DEF NoPass
  <1>5. \A s \in Relays : pass[s].claimed \subseteq RowsOf({"committed"})'
    BY <1>1, <1>3 DEF PassesOK, PassType
  <1>6. PassesOK'
    BY <1>1, <1>2, <1>4, <1>5, PassChanged
  <1>7. TxOK' /\ MessagesOK' /\ CountsOK'
    BY <1>1, <1>2, <1>3, MessagesKept, FailCounts DEF TxOK, CountsOK
  <1> QED BY <1>3, <1>6, <1>7
          DEF TypeOK, RowsOK, Row, TxOK, PassesOK, PassType, MessagesOK, CountsOK

(* A consumer reads within its partition. *)
LEMMA ReceiveType ==
  ASSUME TypeOK, NEW t \in TopicSet, NEW p \in Partitions, Receive(t, p)
  PROVE  TypeOK'
  <1>1. RowsOK /\ TxOK /\ PassesOK /\ MessagesOK /\ CountsOK
    BY TypeOKParts
  <1>2. UNCHANGED <<outbox, tx, pass, written, failures, overlapped>>
    BY DEF Receive
  <1>3. Ids' = Ids /\ RowsOf({"committed"})' = RowsOf({"committed"})
    BY <1>2 DEF RowsOf, Ids
  <1>4. MessagesOK'
    BY <1>1, <1>3, Taken DEF MessagesOK
  <1>5. PassesOK'
    BY <1>1, <1>2, <1>3, PassesKept
  <1>6. RowsOK' /\ TxOK' /\ CountsOK'
    BY <1>1, <1>2 DEF RowsOK, TxOK, CountsOK
  <1> QED BY <1>4, <1>5, <1>6
          DEF TypeOK, RowsOK, Row, TxOK, PassesOK, PassType, MessagesOK, CountsOK

-----------------------------------------------------------------------------
(* What a step can be. *)
LEMMA Steps ==
  ASSUME [Next]_vars
  PROVE  \/ UNCHANGED vars
         \/ \E a \in Aggregates : \/ Begin(a) \/ Publish(a)
                                  \/ EndTx(a, "committed") \/ EndTx(a, "undone")
         \/ \E r \in Relays : \/ ClaimOutboxRows(r) \/ Send(r) \/ Mark(r) \/ CommitPass(r)
                              \/ AbortSend(r) \/ RollBackPass(r)
         \/ \E t \in TopicSet : \E p \in Partitions : Receive(t, p)
  BY Zenon DEF Next, WriterStep, RelayOnce, Commit, Rollback

(* A pass is between a send and its mark only while it has a row to mark.  *)
SentIsLeft == \A r \in Relays : pass[r].sent => Left(r) # {}

(* The other passes are as they were, and so is what they have left. *)
LEMMA OthersLeft ==
  ASSUME PassesOK, NEW r \in Relays, NEW q, pass' = [pass EXCEPT ![r] = q]
  PROVE  /\ pass'[r] = q
         /\ \A s \in Relays : s # r => pass'[s] = pass[s] /\ Left(s)' = Left(s)
  BY DEF PassesOK, Left

(* A step keeps SentIsLeft. *)
LEMMA SentStep ==
  ASSUME TypeOK, SentIsLeft, [Next]_vars
  PROVE  SentIsLeft'
  <1>0. PassesOK
    BY TypeOKParts
  <1>1. CASE UNCHANGED pass
    BY <1>1 DEF SentIsLeft, Left
  <1>2. ASSUME NEW r \in Relays, NEW q, pass' = [pass EXCEPT ![r] = q],
               q.sent => q.claimed \ q.marked # {}
        PROVE  SentIsLeft'
    <2>1. pass'[r].sent => Left(r)' # {}
      BY <1>0, <1>2, OthersLeft DEF Left
    <2>2. \A s \in Relays : s # r => pass'[s] = pass[s] /\ Left(s)' = Left(s)
      BY <1>0, <1>2, OthersLeft
    <2> QED BY <2>1, <2>2 DEF SentIsLeft
  <1>3. ASSUME NEW r \in Relays, pass' = [pass EXCEPT ![r] = NoPass]
        PROVE  SentIsLeft'
    BY <1>2, <1>3 DEF NoPass
  <1>4. ASSUME NEW r \in Relays, Send(r)
        PROVE  SentIsLeft'
    <2> DEFINE q == [pass[r] EXCEPT !.sent = TRUE]
    <2>1. pass' = [pass EXCEPT ![r] = q]
      BY <1>4 DEF Send
    <2>2. q.claimed = pass[r].claimed /\ q.marked = pass[r].marked
      BY <1>0, PassIs
    <2>3. q.claimed \ q.marked # {}
      BY <1>4, <2>2 DEF Send, Left
    <2> HIDE DEF q
    <2> QED BY <1>2, <2>1, <2>3
  <1>5. ASSUME NEW r \in Relays, Mark(r)
        PROVE  SentIsLeft'
    <2> DEFINE q == [pass[r] EXCEPT !.marked = @ \cup {Least(Left(r))}, !.sent = FALSE]
    <2>1. pass' = [pass EXCEPT ![r] = q]
      BY <1>5 DEF Mark
    <2>2. q.sent = FALSE
      <3>1. pass[r] \in PassType
        BY <1>0 DEF PassesOK
      <3> QED BY <3>1 DEF PassType
    <2> HIDE DEF q
    <2> QED BY <1>2, <2>1, <2>2
  <1>6. ASSUME NEW r \in Relays, ClaimOutboxRows(r)
        PROVE  SentIsLeft'
    <2>1. PICK S : pass' = [pass EXCEPT ![r] = [pass[r] EXCEPT !.claimed = S]]
      BY <1>6 DEF ClaimOutboxRows
    <2> DEFINE q == [pass[r] EXCEPT !.claimed = S]
    <2>2. q.sent = FALSE
      <3>1. pass[r] \in PassType /\ ~pass[r].sent
        BY <1>0, <1>6, NoPassIs DEF PassesOK, ClaimOutboxRows, Idle
      <3> QED BY <3>1 DEF PassType
    <2>3. pass' = [pass EXCEPT ![r] = q]
      BY <2>1
    <2> HIDE DEF q
    <2> QED BY <1>2, <2>2, <2>3
  <1>7. ASSUME NEW a \in Aggregates, \/ Begin(a) \/ Publish(a)
                                     \/ EndTx(a, "committed") \/ EndTx(a, "undone")
        PROVE  UNCHANGED pass
    BY <1>7 DEF Begin, Publish, EndTx, relaying
  <1>8. ASSUME NEW r \in Relays, CommitPass(r) \/ AbortSend(r) \/ RollBackPass(r)
        PROVE  pass' = [pass EXCEPT ![r] = NoPass]
    BY <1>8 DEF CommitPass, AbortSend, RollBackPass, EndPass
  <1>9. ASSUME NEW t \in TopicSet, NEW p \in Partitions, Receive(t, p)
        PROVE  UNCHANGED pass
    BY <1>9 DEF Receive
  <1>10. UNCHANGED vars => UNCHANGED pass
    BY DEF vars, relaying
  <1> QED BY Steps, <1>1, <1>3, <1>4, <1>5, <1>6, <1>7, <1>8, <1>9, <1>10, Zenon

(* A step keeps the types. *)
LEMMA TypeStep ==
  ASSUME TypeOK, SentIsLeft, [Next]_vars
  PROVE  TypeOK'
  <1>1. CASE UNCHANGED vars
    BY <1>1 DEF TypeOK, RowsOf, Ids, vars, relaying
  <1>2. ASSUME NEW r \in Relays, Mark(r)
        PROVE  TypeOK'
    BY <1>2, MarkType DEF Mark, SentIsLeft
  <1>3. "committed" \in RowStates /\ "undone" \in RowStates
    BY DEF RowStates
  <1> QED BY Steps, <1>1, <1>2, <1>3, BeginType, PublishType, EndTxType, ClaimType, SendType,
             CommitPassType, AbortSendType, RollBackPassType, ReceiveType, Zenon

(* The initial state is of the types. *)
LEMMA InitType ==
  ASSUME Init
  PROVE  TypeOK /\ SentIsLeft
  <1>1. RowsOK /\ Ids = {}
    <2>1. outbox = <<>> /\ <<>> \in Seq(Row) /\ Len(<<>>) = 0
      BY EmptySeq DEF Init
    <2> QED BY <2>1, LenProperties DEF RowsOK, Ids
  <1>2. TxOK
    BY TopicsAre DEF Init, TxOK
  <1>3. NoPass \in PassType /\ NoPass.claimed = {} /\ NoPass.marked = {} /\ NoPass.sent = FALSE
    BY NoPassType DEF NoPass
  <1>4. pass = [r \in Relays |-> NoPass]
    BY DEF Init
  <1>5. PassesOK /\ SentIsLeft
    BY <1>3, <1>4 DEF PassesOK, SentIsLeft
  <1>6. MessagesOK
    BY EmptySeq DEF Init, MessagesOK
  <1>7. CountsOK
    <2>1. written = 0 /\ failures = 0 /\ overlapped \in BOOLEAN
      BY Zenon DEF Init
    <2> QED BY <2>1, OutboxAssumption DEF CountsOK, OutboxAssumption
  <1> QED BY <1>1, <1>2, <1>5, <1>6, <1>7, TypeOKParts

(* Every reachable state is of the declared types: in particular a relay   *)
(* only holds rows that are committed and unpublished, and no two hold one *)
(* row, which is what FOR UPDATE SKIP LOCKED is for.                       *)
THEOREM TypeCorrect == Spec => []TypeOK
  <1>1. Init => TypeOK /\ SentIsLeft
    BY InitType
  <1>2. TypeOK /\ SentIsLeft /\ [Next]_vars => (TypeOK /\ SentIsLeft)'
    BY TypeStep, SentStep
  <1> QED BY <1>1, <1>2, PTL DEF Spec

-----------------------------------------------------------------------------
(* What a pass has sent: the rows it has marked, and the one it is about   *)
(* to mark.                                                                *)
Done(r) == pass[r].marked \cup (IF pass[r].sent THEN {Least(Left(r))} ELSE {})

(* The inductive invariant of NeitherEarlyNorLost and of                   *)
(* DuplicatesNeedFailure: a row has been sent if a pass has done it, and   *)
(* no more often than there were failures unless a pass has just done it   *)
(* or it is published.                                                     *)
RowSends(i) ==
    /\ outbox[i].sends > 0 => outbox[i].state \in {"committed", "published"}
    /\ outbox[i].state = "published" => outbox[i].sends > 0
    /\ outbox[i].sends <= 1 + failures
    /\ outbox[i].state = "committed" /\ (\A r \in Relays : i \notin Done(r))
          => outbox[i].sends <= failures

SendsOK ==
    /\ \A i \in Ids : RowSends(i)
    /\ \A r \in Relays : \A i \in Done(r) : outbox[i].sends > 0

(* What is done is claimed. *)
LEMMA DoneIsClaimed ==
  ASSUME RowsOK, PassesOK, SentIsLeft, NEW r \in Relays
  PROVE  /\ Done(r) \subseteq pass[r].claimed
         /\ \A i \in Done(r) : i \in Ids /\ outbox[i].state = "committed"
         /\ \A s \in Relays : s # r => Done(r) \cap Done(s) = {}
  <1>1. ASSUME NEW s \in Relays
        PROVE  Done(s) \subseteq pass[s].claimed
    <2>1. pass[s].marked \subseteq pass[s].claimed
      BY DEF PassesOK
    <2>2. pass[s].sent => Least(Left(s)) \in pass[s].claimed
      BY NextRow DEF SentIsLeft, Left
    <2> QED BY <2>1, <2>2 DEF Done
  <1>2. \A i \in pass[r].claimed : i \in Ids /\ outbox[i].state = "committed"
    BY DEF PassesOK, PassType, RowsOf
  <1>3. \A s \in Relays : s # r => pass[r].claimed \cap pass[s].claimed = {}
    BY DEF PassesOK
  <1> QED BY <1>1, <1>2, <1>3

(* What the steps of a relay leave done. *)
LEMMA DoneOthers ==
  ASSUME PassesOK, NEW r \in Relays, NEW q, pass' = [pass EXCEPT ![r] = q]
  PROVE  \A s \in Relays : s # r => Done(s)' = Done(s)
  BY OthersLeft DEF Done

(* A relay without a pass has done nothing. *)
LEMMA DoneNothing ==
  ASSUME PassesOK, NEW r \in Relays, pass' = [pass EXCEPT ![r] = NoPass]
  PROVE  Done(r)' = {}
  <1>1. pass'[r] = NoPass
    BY DEF PassesOK
  <1> QED BY <1>1, NoPassIs DEF Done

(* After a claim nothing is done with yet. *)
LEMMA DoneClaim ==
  ASSUME PassesOK, NEW r \in Relays, ClaimOutboxRows(r)
  PROVE  \A s \in Relays : Done(s)' = Done(s)
  <1>1. PICK S : pass' = [pass EXCEPT ![r] = [pass[r] EXCEPT !.claimed = S]]
    BY DEF ClaimOutboxRows
  <1> DEFINE q == [pass[r] EXCEPT !.claimed = S]
  <1>2. pass[r].marked = {} /\ ~pass[r].sent
    BY NoPassIs DEF ClaimOutboxRows, Idle
  <1>3. q.marked = {} /\ ~q.sent
    <2>1. pass[r] \in PassType
      BY DEF PassesOK
    <2> QED BY <2>1, <1>2 DEF PassType
  <1>4. pass' = [pass EXCEPT ![r] = q]
    BY <1>1
  <1> HIDE DEF q
  <1>5. pass'[r] = q /\ \A s \in Relays : s # r => Done(s)' = Done(s)
    BY <1>4, OthersLeft, DoneOthers
  <1> QED BY <1>2, <1>3, <1>5 DEF Done

(* A row that is sent is done with, whether it is marked yet or not. *)
LEMMA DoneSend ==
  ASSUME PassesOK, NEW r \in Relays, Send(r)
  PROVE  /\ Done(r)' = Done(r) \cup {Least(Left(r))}
         /\ \A s \in Relays : s # r => Done(s)' = Done(s)
  <1> DEFINE q == [pass[r] EXCEPT !.sent = TRUE]
  <1>1. pass' = [pass EXCEPT ![r] = q] /\ ~pass[r].sent
    BY DEF Send
  <1>2. q.claimed = pass[r].claimed /\ q.marked = pass[r].marked /\ q.sent
    BY PassIs
  <1> HIDE DEF q
  <1>3. pass'[r] = q /\ \A s \in Relays : s # r => Done(s)' = Done(s)
    BY <1>1, OthersLeft, DoneOthers
  <1>4. Left(r)' = Left(r)
    BY <1>2, <1>3 DEF Left
  <1> QED BY <1>1, <1>2, <1>3, <1>4 DEF Done

(* A mark is of the row that was just sent: what is done with stays the same. *)
LEMMA DoneMark ==
  ASSUME PassesOK, NEW r \in Relays, Mark(r)
  PROVE  \A s \in Relays : Done(s)' = Done(s)
  <1> DEFINE i == Least(Left(r))
             q == [pass[r] EXCEPT !.marked = @ \cup {i}, !.sent = FALSE]
  <1>1. pass' = [pass EXCEPT ![r] = q] /\ pass[r].sent
    BY DEF Mark
  <1> HIDE DEF i
  <1>2. q.marked = pass[r].marked \cup {i} /\ ~q.sent
    <2>1. pass[r] \in PassType
      BY DEF PassesOK
    <2> QED BY <2>1 DEF PassType
  <1> HIDE DEF q
  <1>3. pass'[r] = q /\ \A s \in Relays : s # r => Done(s)' = Done(s)
    BY <1>1, OthersLeft, DoneOthers
  <1> QED BY <1>1, <1>2, <1>3 DEF Done, i

-----------------------------------------------------------------------------
(* A step keeps SendsOK. *)

(* Rows that neither their count nor their state change. *)
LEMMA SameSends ==
  ASSUME NEW i \in Ids, RowSends(i), i \in Ids', outbox'[i] = outbox[i], UNCHANGED failures,
         \A r \in Relays : Done(r)' = Done(r)
  PROVE  RowSends(i)'
  BY DEF RowSends

(* A writer sends nothing and fails nothing. *)
LEMMA SendsWriter ==
  ASSUME TypeOK, SentIsLeft, SendsOK, NEW a \in Aggregates,
         \/ Begin(a) \/ Publish(a) \/ EndTx(a, "committed") \/ EndTx(a, "undone")
  PROVE  SendsOK'
  <1>1. RowsOK /\ TxOK /\ PassesOK /\ CountsOK /\ failures \in Nat
    BY TypeOKParts, OutboxAssumption DEF CountsOK, OutboxAssumption
  <1>2. UNCHANGED <<pass, failures>>
    BY DEF Begin, Publish, EndTx, relaying
  <1>3. \A r \in Relays : Done(r)' = Done(r)
    BY <1>2 DEF Done, Left
  <1>4. CASE outbox' = outbox
    BY <1>2, <1>3, <1>4, SameSends DEF SendsOK, Ids
  <1>5. CASE Publish(a) /\ outbox' # outbox
    <2> DEFINE t == Topics[tx[a]]
    <2>1. t \in TopicSet
      BY <1>5, TopicsAre DEF Publish
    <2>2. PICK p \in Partitions : outbox' = Append(outbox, NewRow(a, t, p))
      BY <1>5, <2>1, PlacementsAre DEF Publish
    <2>3. PICK new : /\ Ids' = Ids \cup {new}
                     /\ \A i \in Ids : outbox'[i] = outbox[i]
                     /\ outbox'[new] = NewRow(a, t, p)
      BY <1>1, <2>1, <2>2, RowAdded
    <2>4. RowSends(new)'
      BY <1>1, <1>2, <2>3 DEF RowSends, NewRow
    <2>5. \A i \in Ids : RowSends(i)'
      BY <1>2, <1>3, <2>3, SameSends DEF SendsOK
    <2>6. \A r \in Relays : \A i \in Done(r)' : outbox'[i].sends > 0
      BY <1>1, <1>3, <2>3, DoneIsClaimed DEF SendsOK
    <2> QED BY <2>3, <2>4, <2>5, <2>6 DEF SendsOK
  <1>6. ASSUME NEW s \in {"committed", "undone"}, EndTx(a, s)
        PROVE  SendsOK'
    <2>1. /\ Ids' = Ids
          /\ \A i \in Ids :
                outbox'[i] = IF outbox[i].state = "open" /\ outbox[i].aggregate = a
                             THEN [outbox[i] EXCEPT !.state = s] ELSE outbox[i]
      BY <1>1, <1>6, RowsEnded DEF EndTx, RowStates
    <2>2. ASSUME NEW i \in Ids, outbox[i].state = "open", outbox[i].aggregate = a
          PROVE  RowSends(i)'
      <3>1. outbox'[i] = [outbox[i] EXCEPT !.state = s]
        BY <2>1, <2>2
      <3>2. outbox[i] \in Row
        BY <1>1, RowsAre
      <3>3. outbox'[i].state = s /\ outbox'[i].sends = outbox[i].sends
        BY <3>1, <3>2 DEF Row
      <3>4. outbox[i].sends \in Nat /\ ~(outbox[i].sends > 0)
        BY <2>2, <3>2 DEF SendsOK, RowSends, Row
      <3>5. outbox'[i].sends = 0
        BY <3>3, <3>4
      <3> QED BY <1>1, <1>2, <1>6, <3>3, <3>5 DEF RowSends
    <2>3. ASSUME NEW i \in Ids, ~(outbox[i].state = "open" /\ outbox[i].aggregate = a)
          PROVE  RowSends(i)' /\ outbox'[i] = outbox[i]
      BY <1>2, <1>3, <2>1, <2>3, SameSends DEF SendsOK
    <2>4. \A r \in Relays : \A i \in Done(r)' : outbox'[i].sends > 0
      BY <1>1, <1>3, <2>3, DoneIsClaimed DEF SendsOK
    <2> QED BY <2>1, <2>2, <2>3, <2>4 DEF SendsOK
  <1>7. Begin(a) => outbox' = outbox
    BY DEF Begin
  <1> QED BY <1>4, <1>5, <1>6, <1>7

(* Steps that neither send nor end a pass keep the counts. *)
LEMMA SendsQuiet ==
  ASSUME TypeOK, SendsOK, UNCHANGED <<outbox, failures>>,
         \A r \in Relays : Done(r)' = Done(r)
  PROVE  SendsOK'
  BY SameSends DEF SendsOK, Ids

(* A send is the one of its pass, or one more for a failure. *)
LEMMA SendsSend ==
  ASSUME TypeOK, SentIsLeft, SendsOK, NEW r \in Relays, Send(r)
  PROVE  SendsOK'
  <1>0. PICK i : i = Least(Left(r))
    OBVIOUS
  <1>1. RowsOK /\ PassesOK /\ CountsOK /\ failures \in Nat
    BY TypeOKParts, OutboxAssumption DEF CountsOK, OutboxAssumption
  <1>2. i \in Left(r) /\ i \in Ids /\ outbox[i].state = "committed" /\ ~pass[r].sent
    BY <1>0, <1>1, NextRow DEF Send
  <1>3. PICK n \in 1..2 : /\ (n = 1 /\ UNCHANGED failures) \/ (n = 2 /\ Fail)
                          /\ outbox' = [outbox EXCEPT ![i].sends = @ + n]
    BY <1>0 DEF Send
  <1>4. failures' >= failures /\ failures' \in Nat /\ n <= 1 + failures' - failures
    BY <1>1, <1>3 DEF Fail
  <1>5. /\ Done(r)' = Done(r) \cup {i}
        /\ \A s \in Relays : s # r => Done(s)' = Done(s)
    BY <1>0, <1>1, DoneSend
  <1>6. \A s \in Relays : i \notin Done(s)
    <2>1. i \notin Done(r)
      BY <1>2 DEF Done, Left
    <2>2. \A s \in Relays : s # r => i \notin pass[s].claimed
      BY <1>1, <1>2 DEF Left, PassesOK
    <2> QED BY <1>1, <2>1, <2>2, DoneIsClaimed
  <1>7. outbox[i].sends <= failures /\ outbox[i].sends \in Nat
    BY <1>1, <1>2, <1>6, RowsAre DEF SendsOK, RowSends, Row
  <1>8. /\ Ids' = Ids
        /\ \A j \in Ids : j # i => outbox'[j] = outbox[j]
        /\ outbox'[i] = [outbox[i] EXCEPT !.sends = @ + n]
    <2>1. n \in Nat /\ outbox' = [outbox EXCEPT ![i].sends = @ + n]
      BY <1>3
    <2> QED BY <1>1, <1>2, <2>1, RowsSent
  <1>9. outbox'[i].state = "committed" /\ outbox'[i].sends = outbox[i].sends + n
    BY <1>1, <1>2, <1>8, RowsAre, RowSent
  <1>10. RowSends(i)'
    <2>1. outbox'[i].sends > 0 /\ outbox'[i].sends <= 1 + failures'
      BY <1>3, <1>4, <1>7, <1>9, <1>1
    <2>2. i \in Done(r)'
      BY <1>5
    <2> QED BY <1>9, <2>1, <2>2 DEF RowSends
  <1>11. ASSUME NEW j \in Ids, j # i
         PROVE  RowSends(j)'
    <2>1. outbox'[j] = outbox[j] /\ RowSends(j) /\ outbox[j].sends \in Nat
      BY <1>1, <1>8, <1>11, RowsAre DEF SendsOK, Row
    <2>2. \A s \in Relays : j \in Done(s)' <=> j \in Done(s)
      BY <1>5, <1>11
    <2> QED BY <1>1, <1>4, <2>1, <2>2 DEF RowSends
  <1>12. \A s \in Relays : \A j \in Done(s)' : outbox'[j].sends > 0
    <2>1. \A s \in Relays : \A j \in Done(s) : j \in Ids
      BY <1>1, DoneIsClaimed
    <2>2. outbox'[i].sends > 0
      BY <1>3, <1>7, <1>9
    <2> QED BY <1>5, <1>8, <2>1, <2>2 DEF SendsOK
  <1> QED BY <1>8, <1>10, <1>11, <1>12 DEF SendsOK

(* A pass that commits has sent what it has marked. *)
LEMMA SendsCommit ==
  ASSUME TypeOK, SentIsLeft, SendsOK, NEW r \in Relays, CommitPass(r)
  PROVE  SendsOK'
  <1>1. RowsOK /\ PassesOK /\ CountsOK /\ failures \in Nat
    BY TypeOKParts, OutboxAssumption DEF CountsOK, OutboxAssumption
  <1>2. UNCHANGED failures /\ pass' = [pass EXCEPT ![r] = NoPass] /\ Left(r) = {}
    BY DEF CommitPass, EndPass
  <1>3. Done(r) = pass[r].marked
    BY <1>2 DEF SentIsLeft, Done
  <1>4. /\ Done(r)' = {}
        /\ \A s \in Relays : s # r => Done(s)' = Done(s)
    BY <1>1, <1>2, DoneNothing, DoneOthers
  <1>5. /\ Ids' = Ids
        /\ \A j \in Ids :
               /\ outbox'[j].sends = outbox[j].sends
               /\ outbox'[j].state = IF j \in pass[r].marked THEN "published"
                                     ELSE outbox[j].state
    BY <1>1, RowsOfCommit
  <1>6. ASSUME NEW j \in Ids
        PROVE  RowSends(j)'
    <2>1. CASE j \in Done(r)
      <3>1. outbox'[j].sends > 0 /\ outbox'[j].sends <= 1 + failures'
        BY <2>1, <1>2, <1>5 DEF SendsOK, RowSends
      <3>2. outbox'[j].state = "published"
        BY <2>1, <1>3, <1>5
      <3> QED BY <3>1, <3>2 DEF RowSends
    <2>2. CASE j \notin Done(r)
      <3>1. \A s \in Relays : j \in Done(s)' <=> j \in Done(s)
        BY <2>2, <1>4
      <3> QED BY <2>2, <3>1, <1>2, <1>3, <1>5 DEF SendsOK, RowSends
    <2> QED BY <2>1, <2>2
  <1>7. \A s \in Relays : \A j \in Done(s)' : outbox'[j].sends > 0
    <2>1. \A s \in Relays : \A j \in Done(s) : j \in Ids
      BY <1>1, DoneIsClaimed
    <2> QED BY <1>4, <1>5, <2>1 DEF SendsOK
  <1> QED BY <1>5, <1>6, <1>7 DEF SendsOK

(* A failed send is counted with the failures. *)
LEMMA SendsAbort ==
  ASSUME TypeOK, SentIsLeft, SendsOK, NEW r \in Relays, AbortSend(r)
  PROVE  SendsOK'
  <1>0. PICK i : i = Least(Left(r))
    OBVIOUS
  <1>1. RowsOK /\ PassesOK /\ CountsOK /\ failures \in Nat
    BY TypeOKParts, OutboxAssumption DEF CountsOK, OutboxAssumption
  <1>2. /\ pass' = [pass EXCEPT ![r] = NoPass]
        /\ failures' = failures + 1
        /\ Left(r) # {} /\ ~pass[r].sent
    BY DEF AbortSend, EndPass, Fail
  <1>3. Done(r) = pass[r].marked
    BY <1>2 DEF Done
  <1>4. /\ Done(r)' = {}
        /\ \A s \in Relays : s # r => Done(s)' = Done(s)
    BY <1>1, <1>2, DoneNothing, DoneOthers
  <1>5. i \in Left(r) /\ i \in Ids /\ outbox[i].state = "committed"
    BY <1>0, <1>1, <1>2, NextRow
  <1>6. \A s \in Relays : i \notin Done(s)
    <2>1. i \notin Done(r)
      BY <1>3, <1>5 DEF Left
    <2>2. \A s \in Relays : s # r => i \notin pass[s].claimed
      BY <1>1, <1>5 DEF Left, PassesOK
    <2> QED BY <1>1, <2>1, <2>2, DoneIsClaimed
  <1>7. /\ Ids' = Ids
        /\ \A j \in Ids :
               /\ j # i => outbox'[j].sends = outbox[j].sends
               /\ outbox'[j].state = IF j \in pass[r].marked THEN "published"
                                     ELSE outbox[j].state
        /\ outbox'[i].sends \in {outbox[i].sends, outbox[i].sends + 1}
    BY <1>0, <1>1, RowsOfAbort
  <1>8. \A j \in Ids : outbox[j].sends \in Nat
    BY <1>1, RowsAre DEF Row
  <1>9. RowSends(i)'
    <2>1. outbox[i].sends <= failures
      BY <1>5, <1>6 DEF SendsOK, RowSends
    <2>2. outbox'[i].sends <= failures'
      BY <1>1, <1>2, <1>5, <1>7, <1>8, <2>1
    <2>3. outbox'[i].state = "committed" /\ outbox'[i].sends \in Nat
      BY <1>3, <1>5, <1>6, <1>7, <1>8
    <2> QED BY <1>1, <1>2, <2>2, <2>3 DEF RowSends
  <1>10. ASSUME NEW j \in Ids, j # i
         PROVE  RowSends(j)'
    <2>1. outbox'[j].sends = outbox[j].sends /\ outbox[j].sends \in Nat
      BY <1>7, <1>8, <1>10
    <2>2. CASE j \in Done(r)
      <3>1. outbox'[j].sends > 0 /\ outbox'[j].sends <= 1 + failures'
        BY <1>1, <2>1, <2>2, <1>2 DEF SendsOK, RowSends
      <3>2. outbox'[j].state = "published"
        BY <2>2, <1>3, <1>7
      <3> QED BY <3>1, <3>2 DEF RowSends
    <2>3. CASE j \notin Done(r)
      <3>1. \A s \in Relays : j \in Done(s)' <=> j \in Done(s)
        BY <2>3, <1>4
      <3>2. outbox'[j].state = outbox[j].state
        BY <1>3, <1>7, <2>3
      <3> QED BY <2>1, <3>1, <3>2, <1>1, <1>2 DEF SendsOK, RowSends
    <2> QED BY <2>2, <2>3
  <1>11. \A s \in Relays : \A j \in Done(s)' : outbox'[j].sends > 0
    <2>1. \A s \in Relays : \A j \in Done(s) : j \in Ids /\ j # i
      BY <1>1, <1>6, DoneIsClaimed
    <2> QED BY <1>4, <1>7, <2>1 DEF SendsOK
  <1> QED BY <1>7, <1>9, <1>10, <1>11 DEF SendsOK

(* A pass that is rolled back is counted with the failures. *)
LEMMA SendsRollBack ==
  ASSUME TypeOK, SentIsLeft, SendsOK, NEW r \in Relays, RollBackPass(r)
  PROVE  SendsOK'
  <1>1. RowsOK /\ PassesOK /\ CountsOK /\ failures \in Nat
    BY TypeOKParts, OutboxAssumption DEF CountsOK, OutboxAssumption
  <1>2. /\ pass' = [pass EXCEPT ![r] = NoPass]
        /\ failures' = failures + 1
        /\ UNCHANGED outbox /\ Ids' = Ids
    BY DEF RollBackPass, EndPass, Fail, Ids
  <1>3. /\ Done(r)' = {}
        /\ \A s \in Relays : s # r => Done(s)' = Done(s)
    BY <1>1, <1>2, DoneNothing, DoneOthers
  <1>4. ASSUME NEW j \in Ids
        PROVE  RowSends(j)'
    <2>1. outbox[j].sends \in Nat /\ outbox[j].sends <= failures'
      BY <1>1, <1>2, RowsAre DEF SendsOK, RowSends, Row
    <2> QED BY <1>1, <1>2, <2>1 DEF SendsOK, RowSends
  <1> QED BY <1>2, <1>3, <1>4 DEF SendsOK

(* Each step keeps the bound on what is sent. *)
LEMMA SendsStep ==
  ASSUME TypeOK, SentIsLeft, SendsOK, [Next]_vars
  PROVE  SendsOK'
  <1>1. PassesOK
    BY TypeOKParts
  <1>2. ASSUME NEW r \in Relays, ClaimOutboxRows(r) \/ Mark(r)
        PROVE  SendsOK'
    <2>1. UNCHANGED <<outbox, failures>>
      BY <1>2 DEF ClaimOutboxRows, Mark
    <2>2. \A s \in Relays : Done(s)' = Done(s)
      BY <1>1, <1>2, DoneClaim, DoneMark
    <2> QED BY <2>1, <2>2, SendsQuiet
  <1>3. ASSUME NEW t \in TopicSet, NEW p \in Partitions, Receive(t, p)
        PROVE  UNCHANGED <<outbox, failures, pass>>
    BY <1>3 DEF Receive
  <1>4. UNCHANGED vars => UNCHANGED <<outbox, failures, pass>>
    BY DEF vars, relaying
  <1>5. CASE UNCHANGED <<outbox, failures, pass>>
    <2>1. \A s \in Relays : Done(s)' = Done(s)
      BY <1>5 DEF Done, Left
    <2> QED BY <1>5, <2>1, SendsQuiet
  <1> QED BY Steps, <1>2, <1>3, <1>4, <1>5, SendsWriter, SendsSend, SendsCommit, SendsAbort,
             SendsRollBack, Zenon

(* What holds of the deliveries in every reachable state. *)
DeliveryInv == TypeOK /\ SentIsLeft /\ SendsOK

(* The invariant of delivery holds in every behaviour. *)
LEMMA DeliveryCorrect == Spec => []DeliveryInv
  <1>1. Init => DeliveryInv
    <2>1. Init => Ids = {} /\ \A r \in Relays : Done(r) = {}
      <3>1. Init => Ids = {}
        BY EmptySeq, LenProperties DEF Init, Ids
      <3>2. Init => \A r \in Relays : Done(r) = {}
        BY NoPassIs DEF Init, Done
      <3> QED BY <3>1, <3>2
    <2>2. Init => SendsOK
      BY <2>1 DEF SendsOK
    <2> QED BY <2>2, InitType DEF DeliveryInv
  <1>2. DeliveryInv /\ [Next]_vars => DeliveryInv'
    BY TypeStep, SentStep, SendsStep DEF DeliveryInv
  <1> QED BY <1>1, <1>2, PTL DEF Spec

(* No consumer hears of an event before its transaction has committed, or  *)
(* at all if it rolls back, and no row leaves the outbox unsent: whatever  *)
(* fails, whoever crashes, however many relays run.                        *)
THEOREM NeitherEarlyNorLostHolds == Spec => []NeitherEarlyNorLost
  <1>1. DeliveryInv => NeitherEarlyNorLost
    BY DEF DeliveryInv, SendsOK, RowSends, NeitherEarlyNorLost
  <1> QED BY <1>1, DeliveryCorrect, PTL

(* Each failure makes at most one more copy of each row; relays by         *)
(* themselves make none.                                                   *)
THEOREM DuplicatesNeedFailureHolds == Spec => []DuplicatesNeedFailure
  <1>1. DeliveryInv => DuplicatesNeedFailure
    BY DEF DeliveryInv, SendsOK, RowSends, DuplicatesNeedFailure
  <1> QED BY <1>1, DeliveryCorrect, PTL

-----------------------------------------------------------------------------
(* Order.  The inductive invariant of OrderWithoutOverlap:                 *)
(*                                                                         *)
(* PlaceOK    a topic keyed by the aggregate has each aggregate's messages *)
(*            on one partition                                             *)
(* OpenLast   an aggregate's open rows are its last ones: transactions of  *)
(*            one aggregate follow each other                              *)
(* ReachOK    what has been sent is on its partition or received, and      *)
(*            nothing else is                                              *)
(* AloneOK    without overlap one relay at most has a pass, and its pass   *)
(*            has every committed row of an aggregate that is older than   *)
(*            one it has                                                   *)
(* OrderOK    without overlap each partition has the first copy of a row   *)
(*            after the first copies of the rows that precede it           *)

PlaceOK == \A i \in Ids : Keying[outbox[i].topic] = "aggregate"
                             => outbox[i].place = HashOf[outbox[i].aggregate]

OpenLast == \A i, j \in Ids :
    j < i /\ outbox[j].aggregate = outbox[i].aggregate /\ outbox[j].state = "open"
        => outbox[i].state = "open"

(* Row i is waiting at place k of partition p of topic t. *)
At(t, p, k, i) == k \in DOMAIN partition[t][p] /\ partition[t][p][k] = i

Reached(i) == i \in received \/ \E k \in Nat : At(outbox[i].topic, outbox[i].place, k, i)

ReachOK ==
    /\ \A i \in Ids : outbox[i].sends > 0 => Reached(i)
    /\ \A i \in received : outbox[i].sends > 0
    /\ \A t \in TopicSet : \A p \in Partitions : \A k \in DOMAIN partition[t][p] :
          outbox[partition[t][p][k]].sends > 0

AloneOK ==
    ~overlapped =>
        /\ \A r, s \in Relays : ~Idle(r) /\ ~Idle(s) => r = s
        /\ \A r \in Relays : \A i \in pass[r].claimed : \A j \in Ids :
              j < i /\ outbox[j].aggregate = outbox[i].aggregate /\ outbox[j].state = "committed"
                  => j \in pass[r].claimed

(* j precedes i on a topic that is keyed by the aggregate. *)
Before(j, i) ==
    /\ Keying[outbox[i].topic] = "aggregate"
    /\ Precedes(outbox[i].topic, j, i)

InOrderAt(j, i) ==
    /\ i \in received => j \in received
    /\ \A t \in TopicSet : \A p \in Partitions : \A k \in Nat :
          At(t, p, k, i) => j \in received \/ \E m \in Nat : m < k /\ At(t, p, m, j)

OrderOK == ~overlapped => \A i, j \in Ids : Before(j, i) => InOrderAt(j, i)

(* What a step can do to the rows: they stay, with their content; an       *)
(* aggregate's open rows are settled together and for good; a new row is   *)
(* open, the last, and on the partition its key maps to.                   *)
RowsMove ==
    /\ Ids \subseteq Ids'
    /\ \A i \in Ids :
          /\ SameMessage(i)
          /\ outbox[i].state # "open" =>
                /\ outbox'[i].state # "open"
                /\ outbox'[i].state = "undone" => outbox[i].state = "undone"
                /\ outbox[i].state = "undone" => outbox'[i].state = "undone"
                /\ outbox'[i].state = "committed" => outbox[i].state = "committed"
    /\ \A i, j \in Ids :
          /\ outbox[i].state = "open" /\ outbox[j].state = "open"
          /\ outbox[i].aggregate = outbox[j].aggregate
          /\ outbox'[j].state = "open"
          => outbox'[i].state = "open"
    /\ \A i \in Ids' \ Ids :
          /\ outbox'[i].state = "open"
          /\ \A j \in Ids' : j <= i
          /\ Keying[outbox'[i].topic] = "aggregate"
                => outbox'[i].place = HashOf[outbox'[i].aggregate]

(* Rows that keep their content, and their state unless a pass publishes   *)
(* them.                                                                   *)
LEMMA RowsKept ==
  ASSUME Ids' = Ids,
         \A i \in Ids : /\ SameMessage(i)
                        /\ \/ outbox'[i].state = outbox[i].state
                           \/ outbox[i].state = "committed" /\ outbox'[i].state = "published"
  PROVE  RowsMove
  <1>1. \A i \in Ids : outbox'[i].state = "open" <=> outbox[i].state = "open"
    OBVIOUS
  <1> QED BY <1>1 DEF RowsMove

(* What a step may do to the rows: none goes, none changes its message. *)
LEMMA RowsStep ==
  ASSUME TypeOK, SentIsLeft, [Next]_vars
  PROVE  RowsMove
  <1>1. RowsOK /\ TxOK /\ PassesOK
    BY TypeOKParts
  <1>2. CASE UNCHANGED outbox
    BY <1>2, RowsKept DEF Ids, SameMessage
  <1>3. ASSUME NEW a \in Aggregates, Publish(a), outbox' # outbox
        PROVE  RowsMove
    <2> DEFINE t == Topics[tx[a]]
    <2>1. t \in TopicSet
      BY <1>3, TopicsAre DEF Publish
    <2>2. PICK p \in Placements(a, t) : outbox' = Append(outbox, NewRow(a, t, p))
      BY <1>3 DEF Publish
    <2>3. p \in Partitions /\ (Keying[t] = "aggregate" => p = HashOf[a])
      BY <2>1, PlacementsAre DEF Placements
    <2>4. PICK new : /\ Ids' = Ids \cup {new}
                     /\ \A i \in Ids : outbox'[i] = outbox[i] /\ i < new
                     /\ new \in Nat
                     /\ outbox'[new] = NewRow(a, t, p)
      BY <1>1, <2>1, <2>2, <2>3, RowAdded, RowsAre
    <2>5. /\ outbox'[new].state = "open" /\ outbox'[new].topic = t
          /\ outbox'[new].place = p /\ outbox'[new].aggregate = a
      BY <2>4 DEF NewRow
    <2> HIDE DEF t
    <2>6. \A i \in Ids' \ Ids : i = new
      BY <2>4
    <2>7. \A j \in Ids' : j <= new
      BY <1>1, <2>4, RowsAre
    <2> QED BY <2>3, <2>4, <2>5, <2>6, <2>7 DEF RowsMove, SameMessage
  <1>4. ASSUME NEW a \in Aggregates, NEW s \in {"committed", "undone"}, EndTx(a, s)
        PROVE  RowsMove
    <2>1. /\ Ids' = Ids
          /\ \A i \in Ids :
               outbox'[i] = IF outbox[i].state = "open" /\ outbox[i].aggregate = a
                            THEN [outbox[i] EXCEPT !.state = s] ELSE outbox[i]
      BY <1>1, <1>4, RowsEnded DEF EndTx, RowStates
    <2>2. \A i \in Ids : outbox[i] \in Row
      BY <1>1, RowsAre
    <2>3. \A i \in Ids : SameMessage(i)
      BY <2>1, <2>2 DEF SameMessage, Row
    <2>4. \A i \in Ids : outbox[i].state = "open" /\ outbox[i].aggregate = a =>
             outbox'[i].state # "open"
      BY <2>1, <2>2 DEF Row
    <2>5. \A i \in Ids : ~(outbox[i].state = "open" /\ outbox[i].aggregate = a) =>
             outbox'[i].state = outbox[i].state
      BY <2>1
    <2> QED BY <2>1, <2>3, <2>4, <2>5 DEF RowsMove
  <1>5. ASSUME NEW r \in Relays, Send(r)
        PROVE  RowsMove
    <2>1. PICK i : i = Least(Left(r))
      OBVIOUS
    <2>2. PICK n \in 1..2 : outbox' = [outbox EXCEPT ![i].sends = @ + n]
      BY <1>5, <2>1 DEF Send
    <2>3. n \in Nat /\ i \in Ids
      BY <1>1, <1>5, <2>1, NextRow DEF Send
    <2>4. /\ Ids' = Ids
          /\ \A j \in Ids : j # i => outbox'[j] = outbox[j]
          /\ outbox'[i] = [outbox[i] EXCEPT !.sends = @ + n]
      BY <1>1, <2>2, <2>3, RowsSent
    <2>5. outbox[i] \in Row
      BY <1>1, <2>3, RowsAre
    <2>6. SameMessage(i) /\ outbox'[i].state = outbox[i].state
      BY <2>3, <2>4, <2>5, RowSent DEF SameMessage
    <2> QED BY <2>4, <2>6, RowsKept DEF SameMessage
  <1>6. ASSUME NEW r \in Relays, CommitPass(r) \/ AbortSend(r)
        PROVE  RowsMove
    <2>1. /\ Ids' = Ids
          /\ \A j \in Ids : /\ SameMessage(j)
                            /\ outbox'[j].state = IF j \in pass[r].marked THEN "published"
                                                  ELSE outbox[j].state
      BY <1>1, <1>6, RowsOfCommit, RowsOfAbort
    <2>2. \A j \in pass[r].marked : outbox[j].state = "committed"
      BY <1>1, PassIs DEF RowsOf
    <2> QED BY <2>1, <2>2, RowsKept
  <1>7. /\ \A a \in Aggregates : Begin(a) => UNCHANGED outbox
        /\ \A r \in Relays : ClaimOutboxRows(r) \/ Mark(r) \/ RollBackPass(r) => UNCHANGED outbox
        /\ \A t \in TopicSet : \A p \in Partitions : Receive(t, p) => UNCHANGED outbox
        /\ UNCHANGED vars => UNCHANGED outbox
    BY DEF Begin, ClaimOutboxRows, Mark, RollBackPass, Receive, vars
  <1> QED BY Steps, <1>2, <1>3, <1>4, <1>5, <1>6, <1>7

(* An aggregate's topic stays on its partition, its open rows the last.    *)
LEMMA PlacesStep ==
  ASSUME RowsOK, RowsOK', PlaceOK, OpenLast, RowsMove
  PROVE  PlaceOK' /\ OpenLast'
  <1>1. PlaceOK'
    <2> SUFFICES ASSUME NEW i \in Ids'
                 PROVE  Keying[outbox'[i].topic] = "aggregate"
                           => outbox'[i].place = HashOf[outbox'[i].aggregate]
      BY DEF PlaceOK
    <2>1. CASE i \in Ids
      BY <2>1 DEF PlaceOK, RowsMove, SameMessage
    <2>2. CASE i \notin Ids
      BY <2>2 DEF RowsMove
    <2> QED BY <2>1, <2>2
  <1>2. OpenLast'
    <2> SUFFICES ASSUME NEW i \in Ids', NEW j \in Ids', j < i,
                        outbox'[j].aggregate = outbox'[i].aggregate, outbox'[j].state = "open"
                 PROVE  outbox'[i].state = "open"
      BY DEF OpenLast
    <2>1. CASE i \notin Ids
      BY <2>1 DEF RowsMove
    <2>2. CASE i \in Ids /\ j \notin Ids
      <3>1. i <= j /\ i \in Nat /\ j \in Nat
        <4>1. Ids' \subseteq Nat
          <5>1. Len(outbox') \in Nat /\ Ids' = 1..Len(outbox')
            BY LenProperties DEF RowsOK, Ids
          <5> QED BY <5>1
        <4> QED BY <2>2, <4>1 DEF RowsMove
      <3> QED BY <3>1
    <2>3. CASE i \in Ids /\ j \in Ids
      <3>1. outbox[j].aggregate = outbox[i].aggregate /\ outbox[j].state = "open"
        BY <2>3 DEF RowsMove, SameMessage
      <3>2. outbox[i].state = "open"
        BY <2>3, <3>1 DEF OpenLast
      <3> QED BY <2>3, <3>1, <3>2 DEF RowsMove
    <2> QED BY <2>1, <2>2, <2>3
  <1> QED BY <1>1, <1>2

(* A relay that is in a pass was so before, with the rows it has, unless   *)
(* it has just claimed them.                                               *)
LEMMA PassesStep ==
  ASSUME TypeOK, SentIsLeft, [Next]_vars
  PROVE  \/ \E r \in Relays : ClaimOutboxRows(r)
         \/ /\ UNCHANGED overlapped
            /\ \A s \in Relays : \/ Idle(s)'
                                 \/ ~Idle(s) /\ pass'[s].claimed = pass[s].claimed
  <1>0. PassesOK
    BY TypeOKParts
  <1> DEFINE Kept == \A s \in Relays : \/ Idle(s)'
                                       \/ ~Idle(s) /\ pass'[s].claimed = pass[s].claimed
  <1>1. ASSUME UNCHANGED pass
        PROVE  Kept
    BY <1>1 DEF Idle
  <1>2. ASSUME NEW r \in Relays, pass' = [pass EXCEPT ![r] = NoPass]
        PROVE  Kept
    BY <1>0, <1>2 DEF PassesOK, Idle
  <1>3. ASSUME NEW r \in Relays, Send(r)
        PROVE  Kept
    <2>1. pass' = [pass EXCEPT ![r] = [pass[r] EXCEPT !.sent = TRUE]]
      BY <1>3 DEF Send
    <2>2. pass'[r].claimed = pass[r].claimed
      BY <1>0, <2>1, PassIs, OthersLeft
    <2>3. ~Idle(r)
      BY <1>3, NoPassIs DEF Send, Left, Idle
    <2>4. \A s \in Relays : s # r => pass'[s] = pass[s]
      BY <1>0, <2>1, OthersLeft
    <2> QED BY <2>2, <2>3, <2>4 DEF Idle
  <1>4. ASSUME NEW r \in Relays, Mark(r)
        PROVE  Kept
    <2> DEFINE q == [pass[r] EXCEPT !.marked = @ \cup {Least(Left(r))}, !.sent = FALSE]
    <2>1. pass' = [pass EXCEPT ![r] = q]
      BY <1>4 DEF Mark
    <2>2. q.claimed = pass[r].claimed
      <3>1. pass[r] \in PassType
        BY <1>0 DEF PassesOK
      <3> QED BY <3>1 DEF PassType
    <2>3. ~Idle(r)
      BY <1>4, NoPassIs DEF Mark, Idle
    <2> HIDE DEF q
    <2>4. pass'[r] = q /\ \A s \in Relays : s # r => pass'[s] = pass[s]
      BY <1>0, <2>1, OthersLeft
    <2> QED BY <2>2, <2>3, <2>4 DEF Idle
  <1>5. /\ \A a \in Aggregates :
              Begin(a) \/ Publish(a) \/ EndTx(a, "committed") \/ EndTx(a, "undone")
              => UNCHANGED pass /\ UNCHANGED overlapped
        /\ \A t \in TopicSet : \A p \in Partitions :
              Receive(t, p) => UNCHANGED pass /\ UNCHANGED overlapped
        /\ UNCHANGED vars => UNCHANGED pass /\ UNCHANGED overlapped
        /\ \A r \in Relays : Send(r) \/ Mark(r) => UNCHANGED overlapped
        /\ \A r \in Relays : CommitPass(r) \/ AbortSend(r) \/ RollBackPass(r) =>
              UNCHANGED overlapped /\ pass' = [pass EXCEPT ![r] = NoPass]
    BY DEF Begin, Publish, EndTx, relaying, Receive, vars, Send, Mark, CommitPass, AbortSend,
           RollBackPass, EndPass
  <1> HIDE DEF Kept
  <1>6. (\E r \in Relays : ClaimOutboxRows(r)) \/ (UNCHANGED overlapped /\ Kept)
    BY Steps, <1>1, <1>2, <1>3, <1>4, <1>5, Zenon
  <1> QED BY <1>6 DEF Kept

(* A step keeps AloneOK. *)
LEMMA AloneStep ==
  ASSUME TypeOK, SentIsLeft, OpenLast, AloneOK, RowsMove, TypeOK', [Next]_vars
  PROVE  AloneOK'
  <1>1. RowsOK /\ PassesOK /\ RowsOK' /\ PassesOK' /\ Ids \subseteq Nat
    <2>1. RowsOK' /\ PassesOK'
      BY DEF TypeOK, RowsOK, Row, PassesOK, PassType
    <2> QED BY TypeOKParts, RowsAre, <2>1
  <1>2. ASSUME NEW r \in Relays, ClaimOutboxRows(r), ~overlapped'
        PROVE  AloneOK'
    <2>1. \A s \in Relays : Idle(s)
      BY <1>2 DEF ClaimOutboxRows
    <2>2. ~overlapped /\ UNCHANGED outbox /\ Ids' = Ids
      BY <1>2 DEF ClaimOutboxRows, Ids
    <2>3. Locked = {}
      BY <2>1, NoPassIs DEF Locked, Idle
    <2> DEFINE free == RowsOf({"committed"})
    <2>4. PICK S \in SUBSET free :
             IsBatch(S, free) /\ pass' = [pass EXCEPT ![r].claimed = S]
      <3>1. free = RowsOf({"committed"}) \ Locked
        BY <2>3
      <3> QED BY <1>2, <3>1 DEF ClaimOutboxRows
    <2>5. pass'[r].claimed = S /\ \A s \in Relays : s # r => pass'[s] = pass[s]
      <3>1. pass[r] \in PassType
        BY <1>1 DEF PassesOK
      <3>2. [pass[r] EXCEPT !.claimed = S].claimed = S
        BY <3>1 DEF PassType
      <3>3. pass' = [pass EXCEPT ![r] = [pass[r] EXCEPT !.claimed = S]]
        BY <2>4
      <3> QED BY <1>1, <3>2, <3>3, OthersLeft
    <2>6. \A s \in Relays : s # r => Idle(s)' /\ pass'[s].claimed = {}
      BY <2>1, <2>5, NoPassIs DEF Idle
    <2>7. ASSUME NEW i \in S, NEW j \in Ids, j < i, outbox[j].state = "committed"
          PROVE  j \in S
      <3>1. j \in free /\ i \in free /\ i \in Nat /\ j \in Nat
        BY <1>1, <2>7 DEF RowsOf
      <3>2. j \notin S => i < j
        BY <2>4, <3>1 DEF IsBatch
      <3> QED BY <2>7, <3>1, <3>2
    <2> QED BY <2>2, <2>5, <2>6, <2>7 DEF AloneOK
  <1>3. ASSUME UNCHANGED overlapped, ~overlapped',
               \A s \in Relays : Idle(s)' \/ (~Idle(s) /\ pass'[s].claimed = pass[s].claimed)
        PROVE  AloneOK'
    <2>1. \A r, s \in Relays : ~Idle(r)' /\ ~Idle(s)' => r = s
      BY <1>3 DEF AloneOK
    <2>2. ASSUME NEW r \in Relays, NEW i \in pass'[r].claimed, NEW j \in Ids', j < i,
                 outbox'[j].aggregate = outbox'[i].aggregate, outbox'[j].state = "committed"
          PROVE  j \in pass'[r].claimed
      <3>1. ~Idle(r)'
        BY <2>2, NoPassIs DEF Idle
      <3>2. pass'[r].claimed = pass[r].claimed
        BY <1>3, <3>1
      <3>3. i \in Ids /\ outbox[i].state = "committed"
        BY <1>1, <2>2, <3>2, PassIs DEF RowsOf
      <3>4. j \in Ids
        BY <2>2 DEF RowsMove
      <3>5. outbox[j].aggregate = outbox[i].aggregate
        BY <2>2, <3>3, <3>4 DEF RowsMove, SameMessage
      <3>6. outbox[j].state # "open"
        BY <2>2, <3>3, <3>4, <3>5 DEF OpenLast
      <3>7. outbox[j].state = "committed"
        BY <2>2, <3>4, <3>6 DEF RowsMove
      <3> QED BY <1>3, <2>2, <3>2, <3>4, <3>5, <3>7 DEF AloneOK
    <2> QED BY <2>1, <2>2 DEF AloneOK
  <1>4. overlapped' => AloneOK'
    BY DEF AloneOK
  <1> QED BY PassesStep, <1>2, <1>3, <1>4

-----------------------------------------------------------------------------
(* What a step can do to the messages: nothing; a relay delivers the row   *)
(* it is at; the consumer takes one.                                       *)

Quiet ==
    /\ UNCHANGED <<partition, received>>
    /\ \A i \in Ids : outbox'[i].sends = outbox[i].sends
    /\ \A i \in Ids' \ Ids : outbox'[i].sends = 0

Delivery(r, i, n) ==
    /\ i = Least(Left(r)) /\ Left(r) # {}
    /\ Deliver(i, n)
    /\ UNCHANGED received
    /\ Ids' = Ids
    /\ outbox'[i].sends > 0
    /\ \A j \in Ids : j # i => outbox'[j].sends = outbox[j].sends

(* A step delivers a row, is a consumer's read, or leaves the messages alone. *)
LEMMA MessagesStep ==
  ASSUME TypeOK, SentIsLeft, [Next]_vars
  PROVE  \/ Quiet
         \/ \E r \in Relays : \E i \in Ids : \E n \in Nat \ {0} : Delivery(r, i, n)
         \/ \E t \in TopicSet : \E p \in Partitions : Receive(t, p) /\ UNCHANGED outbox
  <1>1. RowsOK /\ TxOK /\ PassesOK
    BY TypeOKParts
  <1> DEFINE Some == \E r \in Relays : \E i \in Ids : \E n \in Nat \ {0} : Delivery(r, i, n)
  <1>2. ASSUME UNCHANGED <<outbox, partition, received>>
        PROVE  Quiet
    BY <1>2 DEF Quiet, Ids
  <1>3. ASSUME NEW a \in Aggregates, Publish(a), outbox' # outbox
        PROVE  Quiet
    <2> DEFINE t == Topics[tx[a]]
    <2>1. t \in TopicSet
      BY <1>3, TopicsAre DEF Publish
    <2>2. PICK p \in Partitions : outbox' = Append(outbox, NewRow(a, t, p))
      BY <1>3, <2>1, PlacementsAre DEF Publish
    <2>3. PICK new : /\ Ids' = Ids \cup {new}
                     /\ \A i \in Ids : outbox'[i] = outbox[i]
                     /\ outbox'[new] = NewRow(a, t, p)
      BY <1>1, <2>1, <2>2, RowAdded
    <2>4. outbox'[new].sends = 0
      BY <2>3 DEF NewRow
    <2>5. UNCHANGED <<partition, received>>
      BY <1>3 DEF Publish, relaying
    <2> QED BY <2>3, <2>4, <2>5 DEF Quiet
  <1>4. ASSUME NEW a \in Aggregates, NEW s \in {"committed", "undone"}, EndTx(a, s)
        PROVE  Quiet
    <2>1. /\ Ids' = Ids
          /\ \A i \in Ids :
               outbox'[i] = IF outbox[i].state = "open" /\ outbox[i].aggregate = a
                            THEN [outbox[i] EXCEPT !.state = s] ELSE outbox[i]
      BY <1>1, <1>4, RowsEnded DEF EndTx, RowStates
    <2>2. \A i \in Ids : outbox[i] \in Row
      BY <1>1, RowsAre
    <2>3. \A i \in Ids : outbox'[i].sends = outbox[i].sends
      BY <2>1, <2>2 DEF Row
    <2>4. UNCHANGED <<partition, received>>
      BY <1>4 DEF EndTx, relaying
    <2> QED BY <2>1, <2>3, <2>4 DEF Quiet
  <1>5. ASSUME NEW r \in Relays, Send(r)
        PROVE  Some
    <2>1. PICK i : i = Least(Left(r))
      OBVIOUS
    <2>2. PICK n \in 1..2 : Deliver(i, n) /\ outbox' = [outbox EXCEPT ![i].sends = @ + n]
      BY <1>5, <2>1 DEF Send
    <2>3. n \in Nat \ {0} /\ i \in Ids /\ Left(r) # {}
      BY <1>1, <1>5, <2>1, NextRow DEF Send
    <2>4. /\ Ids' = Ids
          /\ \A j \in Ids : j # i => outbox'[j] = outbox[j]
          /\ outbox'[i] = [outbox[i] EXCEPT !.sends = @ + n]
      BY <1>1, <2>2, <2>3, RowsSent
    <2>5. outbox[i] \in Row /\ outbox[i].sends \in Nat
      BY <1>1, <2>3, RowsAre DEF Row
    <2>6. outbox'[i].sends > 0
      <3>1. outbox'[i].sends = outbox[i].sends + n
        BY <2>3, <2>4, <2>5, RowSent
      <3> QED BY <2>3, <2>5, <3>1
    <2>7. UNCHANGED received
      BY <1>5 DEF Send
    <2>8. Delivery(r, i, n)
      BY <2>1, <2>2, <2>3, <2>4, <2>6, <2>7 DEF Delivery
    <2> QED BY <2>3, <2>8
  <1>6. ASSUME NEW r \in Relays, CommitPass(r)
        PROVE  Quiet
    BY <1>1, <1>6, RowsOfCommit DEF CommitPass, Quiet
  <1>7. ASSUME NEW r \in Relays, AbortSend(r)
        PROVE  Quiet \/ Some
    <2>1. PICK i : i = Least(Left(r))
      OBVIOUS
    <2>2. /\ Ids' = Ids
          /\ \A j \in Ids : j # i => outbox'[j].sends = outbox[j].sends
          /\ \/ outbox'[i].sends = outbox[i].sends /\ UNCHANGED partition
             \/ outbox'[i].sends = outbox[i].sends + 1 /\ Deliver(i, 1)
      BY <1>1, <1>7, <2>1, RowsOfAbort
    <2>3. i \in Ids /\ Left(r) # {} /\ outbox[i].sends \in Nat
      <3>1. i \in Ids /\ Left(r) # {}
        BY <1>1, <1>7, <2>1, NextRow DEF AbortSend
      <3> QED BY <1>1, <3>1, RowsAre DEF Row
    <2>4. UNCHANGED received
      BY <1>7 DEF AbortSend
    <2>5. CASE outbox'[i].sends = outbox[i].sends /\ UNCHANGED partition
      BY <2>2, <2>4, <2>5 DEF Quiet
    <2>6. CASE outbox'[i].sends = outbox[i].sends + 1 /\ Deliver(i, 1)
      <3>1. outbox'[i].sends > 0
        BY <2>3, <2>6
      <3>2. Delivery(r, i, 1)
        BY <2>1, <2>2, <2>3, <2>4, <2>6, <3>1 DEF Delivery
      <3>3. 1 \in Nat \ {0}
        OBVIOUS
      <3> QED BY <2>3, <3>2, <3>3
    <2> QED BY <2>2, <2>5, <2>6
  <1>8. /\ \A a \in Aggregates : Begin(a) => UNCHANGED <<outbox, partition, received>>
        /\ \A a \in Aggregates : Publish(a) => UNCHANGED <<partition, received>>
        /\ \A r \in Relays : ClaimOutboxRows(r) \/ Mark(r) \/ RollBackPass(r)
                                => UNCHANGED <<outbox, partition, received>>
        /\ \A t \in TopicSet : \A p \in Partitions : Receive(t, p) => UNCHANGED outbox
        /\ UNCHANGED vars => UNCHANGED <<outbox, partition, received>>
    BY DEF Begin, Publish, relaying, ClaimOutboxRows, Mark, RollBackPass, Receive, vars
  <1>9. ASSUME NEW a \in Aggregates, Publish(a)
        PROVE  Quiet
    BY <1>2, <1>3, <1>8, <1>9
  <1> HIDE DEF Some
  <1>10. \/ Quiet \/ Some
         \/ \E t \in TopicSet : \E p \in Partitions : Receive(t, p) /\ UNCHANGED outbox
    BY Steps, <1>2, <1>4, <1>5, <1>6, <1>7, <1>8, <1>9
  <1> QED BY <1>10 DEF Some

(* The places of a partition hold ids; those of the ids are 1 to its       *)
(* length.                                                                 *)
LEMMA PlacesAre ==
  ASSUME MessagesOK, NEW t \in TopicSet, NEW p \in Partitions
  PROVE  /\ Len(partition[t][p]) \in Nat
         /\ DOMAIN partition[t][p] = 1..Len(partition[t][p])
         /\ \A k \in DOMAIN partition[t][p] : partition[t][p][k] \in Ids
  <1>1. partition[t][p] \in Seq(Ids)
    BY DEF MessagesOK
  <1> QED BY <1>1, LenProperties, ElementOfSeq

(* What a delivery leaves where. *)
LEMMA AtDelivered ==
  ASSUME RowsOK, MessagesOK, NEW i \in Ids, NEW n \in Nat \ {0}, Deliver(i, n), Ids' = Ids
  PROVE  /\ \A t \in TopicSet : \A p \in Partitions : \A k \in Nat, j \in Ids :
               /\ At(t, p, k, j) => At(t, p, k, j)'
               /\ At(t, p, k, j)' =>
                     \/ At(t, p, k, j)
                     \/ /\ j = i /\ t = outbox[i].topic /\ p = outbox[i].place
                        /\ k > Len(partition[t][p])
         /\ \E k \in Nat : k \in DOMAIN partition'[outbox[i].topic][outbox[i].place]
                           /\ partition'[outbox[i].topic][outbox[i].place][k] = i
  <1>1. PICK ti \in TopicSet, pi \in Partitions : ti = outbox[i].topic /\ pi = outbox[i].place
    BY RowsAre DEF Row
  <1>2. n \in Nat
    OBVIOUS
  <1>3. /\ partition' \in [TopicSet -> [Partitions -> Seq(Ids)]]
        /\ \A t \in TopicSet : \A p \in Partitions :
               t # ti \/ p # pi => partition'[t][p] = partition[t][p]
        /\ Len(partition[ti][pi]) \in Nat
        /\ Len(partition'[ti][pi]) = Len(partition[ti][pi]) + n
        /\ \A m \in 1..Len(partition[ti][pi]) : partition'[ti][pi][m] = partition[ti][pi][m]
        /\ \A m \in (Len(partition[ti][pi]) + 1)..(Len(partition[ti][pi]) + n) :
              partition'[ti][pi][m] = i
    BY <1>1, <1>2, Delivered
  <1>4. /\ DOMAIN partition[ti][pi] = 1..Len(partition[ti][pi])
        /\ DOMAIN partition'[ti][pi] = 1..(Len(partition[ti][pi]) + n)
    <2>1. partition'[ti][pi] \in Seq(Ids)
      BY <1>3
    <2> QED BY <1>3, <2>1, PlacesAre, LenProperties
  <1>5. ASSUME NEW k \in Nat, NEW j \in Ids
        PROVE  /\ At(ti, pi, k, j) => At(ti, pi, k, j)'
               /\ At(ti, pi, k, j)' =>
                     At(ti, pi, k, j) \/ (j = i /\ k > Len(partition[ti][pi]))
    <2>1. At(ti, pi, k, j) => k \in 1..Len(partition[ti][pi]) /\ partition[ti][pi][k] = j
      BY <1>4 DEF At
    <2>2. At(ti, pi, k, j) => At(ti, pi, k, j)'
      BY <1>3, <1>4, <2>1 DEF At
    <2>3. ASSUME At(ti, pi, k, j)'
          PROVE  At(ti, pi, k, j) \/ (j = i /\ k > Len(partition[ti][pi]))
      <3>1. k \in 1..(Len(partition[ti][pi]) + n) /\ partition'[ti][pi][k] = j
        BY <1>4, <2>3 DEF At
      <3>2. CASE k <= Len(partition[ti][pi])
        BY <1>3, <1>4, <3>1, <3>2 DEF At
      <3>3. CASE k > Len(partition[ti][pi])
        BY <1>3, <3>1, <3>3
      <3> QED BY <1>3, <3>1, <3>2, <3>3
    <2> QED BY <2>2, <2>3
  <1>6. \A t \in TopicSet : \A p \in Partitions : \A k \in Nat, j \in Ids :
           t # ti \/ p # pi => (At(t, p, k, j)' <=> At(t, p, k, j))
    BY <1>3 DEF At
  <1>7. /\ Len(partition[ti][pi]) + 1 \in DOMAIN partition'[ti][pi]
        /\ partition'[ti][pi][Len(partition[ti][pi]) + 1] = i
    <2>1. PICK len \in Nat : len = Len(partition[ti][pi])
      BY <1>3
    <2>2. len + 1 \in (len + 1)..(len + n) /\ len + 1 \in 1..(len + n)
      OBVIOUS
    <2> QED BY <1>3, <1>4, <2>1, <2>2
  <1>8. Len(partition[ti][pi]) + 1 \in Nat
    BY <1>3
  <1> QED BY <1>1, <1>5, <1>6, <1>7, <1>8

(* What taking a message leaves where: the first is gone, the others move  *)
(* up by one.                                                              *)
LEMMA AtTaken ==
  ASSUME MessagesOK, NEW t \in TopicSet, NEW p \in Partitions, Receive(t, p), Ids' = Ids
  PROVE  /\ \A u \in TopicSet : \A x \in Partitions : \A k \in Nat, j \in Ids :
               u # t \/ x # p => (At(u, x, k, j)' <=> At(u, x, k, j))
         /\ \A k \in Nat, j \in Ids :
               /\ At(t, p, k, j)' => k > 0 /\ At(t, p, k + 1, j)
               /\ At(t, p, k, j) => j \in received' \/ (k > 1 /\ At(t, p, k - 1, j)')
         /\ partition[t][p][1] \in Ids
         /\ At(t, p, 1, partition[t][p][1])
         /\ received' = received \cup {partition[t][p][1]}
  <1>1. /\ partition' \in [TopicSet -> [Partitions -> Seq(Ids)]]
        /\ \A u \in TopicSet : \A x \in Partitions :
               u # t \/ x # p => partition'[u][x] = partition[u][x]
        /\ Len(partition[t][p]) \in Nat \ {0}
        /\ Len(partition'[t][p]) = Len(partition[t][p]) - 1
        /\ \A m \in 1..Len(partition'[t][p]) : partition'[t][p][m] = partition[t][p][m + 1]
        /\ partition[t][p][1] \in Ids
        /\ received' = received \cup {partition[t][p][1]}
    BY Taken
  <1>2. /\ DOMAIN partition[t][p] = 1..Len(partition[t][p])
        /\ DOMAIN partition'[t][p] = 1..(Len(partition[t][p]) - 1)
    <2>1. partition'[t][p] \in Seq(Ids)
      BY <1>1
    <2> QED BY <1>1, <2>1, PlacesAre, LenProperties
  <1>3. ASSUME NEW k \in Nat, NEW j \in Ids
        PROVE  /\ At(t, p, k, j)' => k > 0 /\ At(t, p, k + 1, j)
               /\ At(t, p, k, j) => j \in received' \/ (k > 1 /\ At(t, p, k - 1, j)')
    <2>1. At(t, p, k, j)' => k > 0 /\ At(t, p, k + 1, j)
      BY <1>1, <1>2 DEF At
    <2>2. ASSUME At(t, p, k, j)
          PROVE  j \in received' \/ (k > 1 /\ At(t, p, k - 1, j)')
      <3>1. k \in 1..Len(partition[t][p]) /\ partition[t][p][k] = j
        BY <1>2, <2>2 DEF At
      <3>2. CASE k = 1
        BY <1>1, <3>1, <3>2
      <3>3. CASE k > 1
        <4>1. k - 1 \in 1..(Len(partition[t][p]) - 1) /\ (k - 1) + 1 = k
          BY <1>1, <3>1, <3>3
        <4>2. partition'[t][p][k - 1] = j
          BY <1>1, <3>1, <4>1
        <4> QED BY <1>2, <3>3, <4>1, <4>2 DEF At
      <3> QED BY <3>1, <3>2, <3>3
    <2> QED BY <2>1, <2>2
  <1>4. \A u \in TopicSet : \A x \in Partitions : \A k \in Nat, j \in Ids :
               u # t \/ x # p => (At(u, x, k, j)' <=> At(u, x, k, j))
    BY <1>1 DEF At
  <1>5. At(t, p, 1, partition[t][p][1])
    BY <1>1, <1>2 DEF At
  <1> QED BY <1>1, <1>3, <1>4, <1>5

(* ReachOK in terms of At. *)
LEMMA ReachIs ==
  ASSUME MessagesOK
  PROVE  ReachOK <=>
            /\ \A i \in Ids : outbox[i].sends > 0 => Reached(i)
            /\ \A i \in received : outbox[i].sends > 0
            /\ \A t \in TopicSet : \A p \in Partitions : \A k \in Nat, i \in Ids :
                  At(t, p, k, i) => outbox[i].sends > 0
  <1>1. ASSUME ReachOK, NEW t \in TopicSet, NEW p \in Partitions, NEW k \in Nat, NEW i \in Ids,
               At(t, p, k, i)
        PROVE  outbox[i].sends > 0
    BY <1>1 DEF ReachOK, At
  <1>2. ASSUME NEW t \in TopicSet, NEW p \in Partitions, NEW k \in DOMAIN partition[t][p],
               \A m \in Nat, i \in Ids : At(t, p, m, i) => outbox[i].sends > 0
        PROVE  outbox[partition[t][p][k]].sends > 0
    <2>1. k \in Nat /\ partition[t][p][k] \in Ids
      BY PlacesAre
    <2>2. At(t, p, k, partition[t][p][k])
      BY DEF At
    <2> QED BY <1>2, <2>1, <2>2
  <1> QED BY <1>1, <1>2 DEF ReachOK

(* A step keeps ReachOK. *)
LEMMA ReachStep ==
  ASSUME TypeOK, SentIsLeft, ReachOK, RowsMove, TypeOK', [Next]_vars
  PROVE  ReachOK'
  <1>1. RowsOK /\ MessagesOK /\ MessagesOK' /\ Ids \subseteq Ids'
    <2>1. MessagesOK'
      BY DEF TypeOK, MessagesOK
    <2> QED BY <2>1, TypeOKParts DEF RowsMove
  <1>2. /\ \A i \in Ids : outbox[i].sends > 0 => Reached(i)
        /\ \A i \in received : i \in Ids /\ outbox[i].sends > 0
        /\ \A t \in TopicSet : \A p \in Partitions : \A k \in Nat, i \in Ids :
              At(t, p, k, i) => outbox[i].sends > 0
    BY <1>1, ReachIs DEF MessagesOK
  <1>3. \A i \in Ids : /\ outbox'[i].topic = outbox[i].topic
                       /\ outbox'[i].place = outbox[i].place
                       /\ outbox[i].topic \in TopicSet /\ outbox[i].place \in Partitions
    BY <1>1, RowsAre DEF RowsMove, SameMessage, Row
  <1>4. CASE Quiet
    <2>1. \A i \in Ids' : outbox'[i].sends > 0 => i \in Ids /\ Reached(i)'
      BY <1>2, <1>3, <1>4 DEF Quiet, Reached, At
    <2>2. \A i \in received' : outbox'[i].sends > 0
      BY <1>2, <1>4 DEF Quiet
    <2>3. \A t \in TopicSet : \A p \in Partitions : \A k \in DOMAIN partition'[t][p] :
             outbox'[partition'[t][p][k]].sends > 0
      BY <1>1, <1>4, PlacesAre DEF Quiet, ReachOK
    <2> QED BY <2>1, <2>2, <2>3 DEF ReachOK
  <1>5. ASSUME NEW r \in Relays, NEW i \in Ids, NEW n \in Nat \ {0}, Delivery(r, i, n)
        PROVE  ReachOK'
    <2>1. /\ Ids' = Ids /\ received' = received /\ outbox'[i].sends > 0
          /\ \A j \in Ids : j # i => outbox'[j].sends = outbox[j].sends
      BY <1>5 DEF Delivery
    <2>2. /\ \A t \in TopicSet : \A p \in Partitions : \A k \in Nat, j \in Ids :
               /\ At(t, p, k, j) => At(t, p, k, j)'
               /\ At(t, p, k, j)' => At(t, p, k, j) \/ j = i
          /\ \E k \in Nat : At(outbox[i].topic, outbox[i].place, k, i)'
      <3>1. Deliver(i, n)
        BY <1>5 DEF Delivery
      <3> QED BY <1>1, <1>3, <2>1, <3>1, AtDelivered DEF At
    <2>3. Reached(i)'
      BY <1>3, <2>2 DEF Reached, At
    <2>4. \A j \in Ids : j # i /\ outbox'[j].sends > 0 => Reached(j)'
      BY <1>2, <1>3, <2>1, <2>2 DEF Reached
    <2>5. \A t \in TopicSet : \A p \in Partitions : \A k \in Nat, j \in Ids' :
             At(t, p, k, j)' => outbox'[j].sends > 0
      BY <1>2, <2>1, <2>2
    <2>6. \A j \in received' : outbox'[j].sends > 0
      BY <1>2, <2>1
    <2>7. \A j \in Ids' : outbox'[j].sends > 0 => Reached(j)'
      BY <2>1, <2>3, <2>4
    <2>8. \A t \in TopicSet : \A p \in Partitions : \A k \in DOMAIN partition'[t][p] :
             outbox'[partition'[t][p][k]].sends > 0
      <3> SUFFICES ASSUME NEW t \in TopicSet, NEW p \in Partitions,
                          NEW k \in DOMAIN partition'[t][p]
                   PROVE  outbox'[partition'[t][p][k]].sends > 0
        OBVIOUS
      <3>1. partition'[t][p] \in Seq(Ids')
        BY <1>1 DEF MessagesOK
      <3>2. k \in Nat /\ partition'[t][p][k] \in Ids'
        BY <3>1, LenProperties, ElementOfSeq
      <3>3. PICK j \in Ids' : j = partition'[t][p][k]
        BY <3>2
      <3>4. At(t, p, k, j)'
        BY <3>3 DEF At
      <3> QED BY <2>5, <3>2, <3>3, <3>4
    <2> QED BY <2>6, <2>7, <2>8 DEF ReachOK
  <1>6. ASSUME NEW t \in TopicSet, NEW p \in Partitions, Receive(t, p), UNCHANGED outbox
        PROVE  ReachOK'
    <2>1. Ids' = Ids
      BY <1>6 DEF Ids
    <2>2. PICK h \in Ids : h = partition[t][p][1] /\ At(t, p, 1, h) /\ received' = received \cup {h}
      BY <1>1, <1>6, <2>1, AtTaken
    <2>3. \A j \in received' : outbox'[j].sends > 0
      BY <1>2, <1>6, <2>2
    <2>4. ASSUME NEW j \in Ids, outbox[j].sends > 0
          PROVE  Reached(j)'
      <3>1. CASE j \in received
        BY <2>2, <3>1 DEF Reached
      <3>2. ASSUME NEW k \in Nat, At(outbox[j].topic, outbox[j].place, k, j)
            PROVE  Reached(j)'
        <4>1. PICK u \in TopicSet, x \in Partitions : u = outbox[j].topic /\ x = outbox[j].place
          BY <1>3
        <4>2. u = outbox'[j].topic /\ x = outbox'[j].place
          BY <1>6, <4>1
        <4>3. CASE u # t \/ x # p
          <5>1. At(u, x, k, j)'
            BY <1>1, <1>6, <2>1, <3>2, <4>1, <4>3, AtTaken
          <5> QED BY <4>2, <5>1 DEF Reached, At
        <4>4. CASE u = t /\ x = p
          <5>1. j \in received' \/ (k > 1 /\ At(t, p, k - 1, j)')
            BY <1>1, <1>6, <2>1, <3>2, <4>1, <4>4, AtTaken
          <5>2. CASE j \in received'
            BY <5>2 DEF Reached
          <5>3. CASE k > 1 /\ At(t, p, k - 1, j)'
            <6>1. k - 1 \in Nat
              BY <5>3
            <6> QED BY <4>2, <4>4, <5>3, <6>1 DEF Reached, At
          <5> QED BY <5>1, <5>2, <5>3
        <4> QED BY <4>3, <4>4
      <3> QED BY <1>2, <2>4, <3>1, <3>2 DEF Reached
    <2>5. \A u \in TopicSet : \A x \in Partitions : \A k \in DOMAIN partition'[u][x] :
             outbox'[partition'[u][x][k]].sends > 0
      <3> SUFFICES ASSUME NEW u \in TopicSet, NEW x \in Partitions,
                          NEW k \in DOMAIN partition'[u][x]
                   PROVE  outbox'[partition'[u][x][k]].sends > 0
        OBVIOUS
      <3>1. partition'[u][x] \in Seq(Ids')
        BY <1>1 DEF MessagesOK
      <3>2. k \in Nat /\ partition'[u][x][k] \in Ids'
        BY <3>1, LenProperties, ElementOfSeq
      <3>3. PICK j \in Ids : j = partition'[u][x][k]
        BY <2>1, <3>2
      <3>4. At(u, x, k, j)'
        BY <3>3 DEF At
      <3>5. \E m \in Nat : At(u, x, m, j)
        <4>1. CASE u # t \/ x # p
          BY <1>1, <1>6, <2>1, <3>2, <3>4, <4>1, AtTaken
        <4>2. CASE u = t /\ x = p
          <5>1. At(t, p, k + 1, j) /\ k + 1 \in Nat
            BY <1>1, <1>6, <2>1, <3>2, <3>4, <4>2, AtTaken
          <5> QED BY <4>2, <5>1
        <4> QED BY <4>1, <4>2
      <3> QED BY <1>2, <1>6, <3>3, <3>5
    <2> QED BY <1>6, <2>1, <2>3, <2>4, <2>5 DEF ReachOK
  <1> QED BY MessagesStep, <1>4, <1>5, <1>6

(* What precedes the row a relay is at has been sent. *)
LEMMA EarlierSent ==
  ASSUME TypeOK, SentIsLeft, SendsOK, OpenLast, AloneOK, ~overlapped,
         NEW r \in Relays, Left(r) # {},
         NEW i \in Ids, i = Least(Left(r)), NEW j \in Ids, Before(j, i)
  PROVE  outbox[j].sends > 0
  <1>1. RowsOK /\ PassesOK /\ Ids \subseteq Nat
    BY TypeOKParts, RowsAre
  <1>2. i \in pass[r].claimed /\ outbox[i].state = "committed"
    BY <1>1, NextRow DEF Left
  <1>3. j < i /\ outbox[j].aggregate = outbox[i].aggregate /\ outbox[j].state # "undone"
    BY DEF Before, Precedes
  <1>4. outbox[j].state \in {"committed", "published"}
    <2>1. outbox[j].state \in RowStates
      BY <1>1, RowsAre DEF Row
    <2>2. outbox[j].state # "open"
      BY <1>2, <1>3 DEF OpenLast
    <2> QED BY <1>3, <2>1, <2>2 DEF RowStates
  <1>5. CASE outbox[j].state = "published"
    BY <1>5 DEF SendsOK, RowSends
  <1>6. CASE outbox[j].state = "committed"
    <2>1. j \in pass[r].claimed
      BY <1>2, <1>3, <1>6 DEF AloneOK
    <2>2. j \notin Left(r)
      <3>1. j \in Left(r) => i <= j
        BY <1>1, NextRow
      <3> QED BY <1>1, <1>3, <3>1
    <2>3. j \in pass[r].marked
      BY <2>1, <2>2 DEF Left
    <2> QED BY <2>3 DEF SendsOK, Done
  <1> QED BY <1>4, <1>5, <1>6

(* A row that precedes an old one is old and preceded it. *)
LEMMA BeforeOld ==
  ASSUME TypeOK, TypeOK', RowsMove, NEW i \in Ids, NEW j \in Ids', Before(j, i)'
  PROVE  j \in Ids /\ Before(j, i)
  <1>1. Ids' \subseteq Nat
    <2>1. RowsOK'
      BY DEF TypeOK, RowsOK, Row
    <2>2. Len(outbox') \in Nat /\ Ids' = 1..Len(outbox')
      BY <2>1, LenProperties DEF RowsOK, Ids
    <2> QED BY <2>2
  <1>2. i \in Ids' /\ i \in Nat /\ j \in Nat /\ j < i
    BY <1>1 DEF RowsMove, Before, Precedes
  <1>3. j \in Ids
    BY <1>2 DEF RowsMove
  <1>4. outbox[j].state # "undone"
    BY <1>3 DEF RowsMove, Before, Precedes
  <1> QED BY <1>3, <1>4 DEF RowsMove, SameMessage, Before, Precedes

(* A step keeps OrderOK. *)
LEMMA OrderStep ==
  ASSUME TypeOK, SentIsLeft, SendsOK, PlaceOK, OpenLast, ReachOK, AloneOK, OrderOK,
         RowsMove, TypeOK', [Next]_vars, ~overlapped'
  PROVE  OrderOK'
  <1>1. RowsOK /\ MessagesOK /\ MessagesOK'
    <2>1. MessagesOK'
      BY DEF TypeOK, MessagesOK
    <2> QED BY <2>1, TypeOKParts
  <1>2. ~overlapped
    <2>1. \A r \in Relays : ClaimOutboxRows(r) => ~overlapped
      BY DEF ClaimOutboxRows
    <2> QED BY <2>1, PassesStep
  <1>3. \A i, j \in Ids : Before(j, i) => InOrderAt(j, i)
    BY <1>2 DEF OrderOK
  <1>4. SUFFICES ASSUME NEW i \in Ids, NEW j \in Ids, Before(j, i), InOrderAt(j, i)
                 PROVE  InOrderAt(j, i)'
    <2>1. ASSUME NEW i \in Ids' \ Ids, NEW j, Before(j, i)'
          PROVE  InOrderAt(j, i)'
      <3>1. CASE Quiet
        <4>1. i \notin received'
          BY <1>1, <3>1 DEF Quiet, MessagesOK
        <4>2. \A t \in TopicSet : \A p \in Partitions : \A k \in Nat : ~At(t, p, k, i)'
          BY <1>1, <3>1, PlacesAre DEF Quiet, At
        <4> QED BY <4>1, <4>2 DEF InOrderAt
      <3>2. Ids' = Ids => FALSE
        BY <2>1
      <3>3. (\E r \in Relays : \E h \in Ids : \E n \in Nat \ {0} : Delivery(r, h, n)) => Ids' = Ids
        BY DEF Delivery
      <3>4. UNCHANGED outbox => Ids' = Ids
        BY DEF Ids
      <3> QED BY <3>1, <3>2, <3>3, <3>4, MessagesStep
    <2>2. ASSUME NEW i \in Ids, NEW j \in Ids', Before(j, i)'
          PROVE  InOrderAt(j, i)'
      BY <1>3, <1>4, <2>2, BeforeOld
    <2> QED BY <2>1, <2>2 DEF OrderOK
  <1>5. CASE Quiet
    BY <1>4, <1>5 DEF Quiet, InOrderAt, At
  <1>6. ASSUME NEW r \in Relays, NEW h \in Ids, NEW n \in Nat \ {0}, Delivery(r, h, n)
        PROVE  InOrderAt(j, i)'
    <2>1. Deliver(h, n) /\ Ids' = Ids /\ UNCHANGED received /\ h = Least(Left(r)) /\ Left(r) # {}
      BY <1>6 DEF Delivery
    <2>2. \A t \in TopicSet : \A p \in Partitions : \A k \in Nat, g \in Ids :
               /\ At(t, p, k, g) => At(t, p, k, g)'
               /\ At(t, p, k, g)' =>
                     \/ At(t, p, k, g)
                     \/ /\ g = h /\ t = outbox[h].topic /\ p = outbox[h].place
                        /\ k > Len(partition[t][p])
      BY <1>1, <2>1, AtDelivered
    <2>3. ASSUME NEW t \in TopicSet, NEW p \in Partitions, NEW k \in Nat, At(t, p, k, i)'
          PROVE  j \in received' \/ \E m \in Nat : m < k /\ At(t, p, m, j)'
      <3>1. CASE At(t, p, k, i)
        <4>1. j \in received \/ \E m \in Nat : m < k /\ At(t, p, m, j)
          BY <1>4, <3>1 DEF InOrderAt
        <4> QED BY <2>1, <2>2, <4>1
      <3>2. CASE i = h /\ t = outbox[h].topic /\ p = outbox[h].place /\ k > Len(partition[t][p])
        <4>1. outbox[j].sends > 0
          BY <1>2, <1>4, <2>1, <3>2, EarlierSent
        <4>2. Reached(j)
          BY <1>4, <4>1 DEF ReachOK
        <4>3. outbox[j].topic = t /\ outbox[j].place = p
          BY <1>4, <3>2 DEF Before, Precedes, PlaceOK
        <4>4. ASSUME NEW m \in Nat, At(t, p, m, j)
              PROVE  m < k
          <5>1. m \in 1..Len(partition[t][p]) /\ Len(partition[t][p]) \in Nat
            BY <1>1, <4>4, PlacesAre DEF At
          <5> QED BY <3>2, <5>1
        <4>5. j \in received \/ \E m \in Nat : m < k /\ At(t, p, m, j)
          BY <4>2, <4>3, <4>4 DEF Reached
        <4> QED BY <2>1, <2>2, <4>5
      <3> QED BY <2>2, <2>3, <3>1, <3>2
    <2>4. i \in received' => j \in received'
      BY <1>4, <2>1 DEF InOrderAt
    <2> QED BY <2>3, <2>4 DEF InOrderAt
  <1>7. ASSUME NEW t \in TopicSet, NEW p \in Partitions, Receive(t, p), UNCHANGED outbox
        PROVE  InOrderAt(j, i)'
    <2>1. Ids' = Ids
      BY <1>7 DEF Ids
    <2>2. PICK h \in Ids : h = partition[t][p][1] /\ At(t, p, 1, h) /\ received' = received \cup {h}
      BY <1>1, <1>7, <2>1, AtTaken
    <2>3. i \in received' => j \in received'
      <3>1. CASE i \in received
        BY <1>4, <2>2, <3>1 DEF InOrderAt
      <3>2. CASE i = h
        <4>1. j \in received \/ \E m \in Nat : m < 1 /\ At(t, p, m, j)
          BY <1>4, <2>2, <3>2 DEF InOrderAt
        <4>2. \A m \in Nat : At(t, p, m, j) => ~(m < 1)
          BY <1>1, PlacesAre DEF At
        <4> QED BY <2>2, <4>1, <4>2
      <3> QED BY <2>2, <3>1, <3>2
    <2>4. ASSUME NEW u \in TopicSet, NEW x \in Partitions, NEW k \in Nat, At(u, x, k, i)'
          PROVE  j \in received' \/ \E m \in Nat : m < k /\ At(u, x, m, j)'
      <3>1. CASE u # t \/ x # p
        <4>1. At(u, x, k, i)
          BY <1>1, <1>7, <2>1, <2>4, <3>1, AtTaken
        <4>2. j \in received \/ \E m \in Nat : m < k /\ At(u, x, m, j)
          BY <1>4, <4>1 DEF InOrderAt
        <4>3. \A m \in Nat : At(u, x, m, j) => At(u, x, m, j)'
          BY <1>1, <1>7, <2>1, <3>1, AtTaken
        <4> QED BY <2>2, <4>2, <4>3
      <3>2. CASE u = t /\ x = p
        <4>1. k + 1 \in Nat /\ At(t, p, k + 1, i)
          BY <1>1, <1>7, <2>1, <2>4, <3>2, AtTaken
        <4>2. j \in received \/ \E m \in Nat : m < k + 1 /\ At(t, p, m, j)
          BY <1>4, <4>1 DEF InOrderAt
        <4>3. ASSUME NEW m \in Nat, m < k + 1, At(t, p, m, j)
              PROVE  j \in received' \/ \E l \in Nat : l < k /\ At(t, p, l, j)'
          <5>1. j \in received' \/ (m > 1 /\ At(t, p, m - 1, j)')
            BY <1>1, <1>7, <2>1, <4>3, AtTaken
          <5>2. m > 1 => m - 1 \in Nat /\ m - 1 < k
            BY <4>3
          <5> QED BY <5>1, <5>2
        <4> QED BY <2>2, <3>2, <4>2, <4>3
      <3> QED BY <3>1, <3>2
    <2> QED BY <2>3, <2>4 DEF InOrderAt
  <1> QED BY MessagesStep, <1>5, <1>6, <1>7

-----------------------------------------------------------------------------
OrderInv == DeliveryInv /\ PlaceOK /\ OpenLast /\ ReachOK /\ AloneOK /\ OrderOK

(* At first there is nothing to order. *)
LEMMA OrderInit == Init => OrderInv
  <1> SUFFICES ASSUME Init PROVE OrderInv
    OBVIOUS
  <1>1. Ids = {} /\ received = {}
    BY EmptySeq, LenProperties DEF Init, Ids
  <1>2. \A r \in Relays : Idle(r) /\ pass[r].claimed = {} /\ Done(r) = {}
    BY NoPassIs DEF Init, Idle, Done
  <1>3. DeliveryInv
    BY <1>1, <1>2, InitType DEF DeliveryInv, SendsOK
  <1>4. MessagesOK
    BY <1>3, TypeOKParts DEF DeliveryInv
  <1>5. ReachOK
    BY <1>1, <1>4, PlacesAre DEF ReachOK
  <1> QED BY <1>1, <1>2, <1>3, <1>5 DEF OrderInv, PlaceOK, OpenLast, AloneOK, OrderOK

(* The invariant of order holds in every behaviour. *)
LEMMA OrderCorrect == Spec => []OrderInv
  <1>1. OrderInv /\ [Next]_vars => OrderInv'
    <2> SUFFICES ASSUME OrderInv, [Next]_vars PROVE OrderInv'
      OBVIOUS
    <2>1. TypeOK /\ SentIsLeft /\ SendsOK /\ PlaceOK /\ OpenLast /\ ReachOK /\ AloneOK /\ OrderOK
      BY DEF OrderInv, DeliveryInv
    <2>2. TypeOK' /\ SentIsLeft' /\ SendsOK'
      BY <2>1, TypeStep, SentStep, SendsStep
    <2>3. RowsMove
      BY <2>1, RowsStep
    <2>4. PlaceOK' /\ OpenLast'
      <3>1. RowsOK /\ RowsOK'
        BY <2>1, <2>2 DEF TypeOK, RowsOK, Row
      <3> QED BY <2>1, <2>3, <3>1, PlacesStep
    <2>5. ReachOK' /\ AloneOK'
      BY <2>1, <2>2, <2>3, ReachStep, AloneStep
    <2>6. OrderOK'
      <3>1. overlapped' => OrderOK'
        BY DEF OrderOK
      <3> QED BY <2>1, <2>2, <2>3, <3>1, OrderStep
    <2> QED BY <2>2, <2>4, <2>5, <2>6 DEF OrderInv, DeliveryInv
  <1> QED BY OrderInit, <1>1, PTL DEF Spec

(* While no two passes have overlapped, an aggregate's events reach the    *)
(* consumer of a topic keyed by the aggregate in the order they were       *)
(* written: through failed sends, aborted passes, crashes of relays and    *)
(* takeovers, and although transactions commit out of id order.            *)
THEOREM OrderWithoutOverlapHolds == Spec => []OrderWithoutOverlap
  <1>1. OrderInv => OrderWithoutOverlap
    <2> SUFFICES ASSUME OrderInv, ~overlapped, NEW t \in TopicSet, Keying[t] = "aggregate",
                        NEW i \in received, NEW j \in Ids, Precedes(t, j, i)
                 PROVE  j \in received
      BY DEF OrderWithoutOverlap, InOrder
    <2>1. i \in Ids
      BY TypeOKParts DEF OrderInv, DeliveryInv, MessagesOK
    <2>2. Before(j, i)
      BY DEF Before, Precedes
    <2> QED BY <2>1, <2>2 DEF OrderInv, OrderOK, InOrderAt
  <1> QED BY <1>1, OrderCorrect, PTL
=============================================================================
