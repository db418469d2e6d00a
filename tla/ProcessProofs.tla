--------------------------- MODULE ProcessProofs ---------------------------
(***************************************************************************)
(* Proofs about Process and PathCatalogue, for any topic, number of        *)
(* partitions, requests, rows, retries, failures and signals.              *)
(***************************************************************************)
EXTENDS Process, SequenceTheorems, FiniteSetTheorems, WellFoundedInduction, TLAPS

(* TypeOK, and what its steps rest on: the relay is off before the process *)
(* lets go of the database.                                                *)
TypeInv == TypeOK /\ (phase = "close" => relay = "off")

(* A message that may be read is one of the topic's. *)
LEMMA MessageRead ==
  ASSUME NEW p \in Partitions, NEW i \in 1..Len(Topic[p])
  PROVE  Topic[p][i] \in Messages
  BY CatalogueAssumption, ElementOfSeq

-----------------------------------------------------------------------------
(* Types *)

(* The types hold at first. *)
LEMMA TypeInit == Init => TypeInv
  <1> SUFFICES ASSUME Init
               PROVE  TypeInv
    OBVIOUS
  <1>1. CatalogueTypeOK
    <2>0. published \in [Partitions -> 0..1] /\ 0..1 \subseteq Nat
      BY DEF Init, CatalogueInit
    <2>1. /\ published \in [Partitions -> Nat]
          /\ next = [p \in Partitions |-> 0] /\ target = [p \in Partitions |-> 0]
          /\ DOMAIN paths = Keys /\ ready \in BOOLEAN /\ reading \in BOOLEAN
      BY <2>0 DEF Init, CatalogueInit, NoPaths
    <2>2. \A p \in Partitions : next[p] <= published[p] /\ published[p] <= Len(Topic[p])
      BY <2>1 DEF Init, CatalogueInit
    <2> QED BY <2>1, <2>2 DEF CatalogueTypeOK
  <1> QED BY <1>1, ProcessAssumption DEF Init, TypeInv, TypeOK, Booting

(* Each operation of the cache. *)
LEMMA CatalogueStep ==
  ASSUME CatalogueTypeOK
  PROVE  /\ NewConsumer => CatalogueTypeOK'
         /\ StopReading => CatalogueTypeOK'
         /\ (UNCHANGED <<published, next, paths, target, ready>> /\ reading' \in BOOLEAN)
               => CatalogueTypeOK'
         /\ \A p \in Partitions :
               (PublishChange(p) => CatalogueTypeOK') /\ (ReadMessage(p) => CatalogueTypeOK')
  <1>1. NewConsumer => CatalogueTypeOK'
    BY DEF NewConsumer, CatalogueTypeOK, NoPaths
  <1>2. ASSUME UNCHANGED <<published, next, paths, target, ready>>, reading' \in BOOLEAN
        PROVE  CatalogueTypeOK'
    BY <1>2 DEF CatalogueTypeOK
  <1>3. StopReading => CatalogueTypeOK'
    BY <1>2 DEF StopReading
  <1>4. ASSUME NEW p \in Partitions, PublishChange(p)
        PROVE  CatalogueTypeOK'
    <2>1. Len(Topic[p]) \in Nat
      BY CatalogueAssumption, LenProperties
    <2> QED BY <1>4, <2>1 DEF CatalogueTypeOK, PublishChange
  <1>5. ASSUME NEW p \in Partitions, ReadMessage(p)
        PROVE  CatalogueTypeOK'
    <2>1. DOMAIN paths' = Keys
      BY <1>5 DEF ReadMessage, Apply, CatalogueTypeOK
    <2>2. target' \in [Partitions -> Nat] /\ ready' \in BOOLEAN
      <3>1. CASE ~ready /\ Reached(p)
        <4>1. target' = [target EXCEPT ![p] = 0]
          BY <1>5, <3>1 DEF ReadMessage, CheckReady
        <4>2. CASE \A q \in Partitions \ {p} : target[q] = 0
          BY <1>5, <3>1, <4>1, <4>2 DEF ReadMessage, CheckReady, CatalogueTypeOK
        <4>3. CASE ~(\A q \in Partitions \ {p} : target[q] = 0)
          BY <1>5, <3>1, <4>1, <4>3 DEF ReadMessage, CheckReady, CatalogueTypeOK
        <4> QED BY <4>2, <4>3
      <3>2. CASE ~(~ready /\ Reached(p))
        BY <1>5, <3>2 DEF ReadMessage, CheckReady, CatalogueTypeOK
      <3> QED BY <3>1, <3>2
    <2>3. next' = [next EXCEPT ![p] = @ + 1] /\ UNCHANGED <<published, reading>>
      BY <1>5 DEF ReadMessage
    <2>4. next[p] < published[p]
      BY <1>5 DEF ReadMessage
    <2> QED BY <2>1, <2>2, <2>3, <2>4 DEF CatalogueTypeOK
  <1> QED BY <1>1, <1>2, <1>3, <1>4, <1>5

(* Each step keeps the types. *)
LEMMA TypeStep == TypeInv /\ [Next]_vars => TypeInv'
  <1> SUFFICES ASSUME TypeInv, [Next]_vars
               PROVE  TypeInv'
    OBVIOUS
  <1> USE ProcessAssumption
  <1>1. CatalogueTypeOK
    BY DEF TypeInv, TypeOK
  <1>c. ASSUME UNCHANGED catalogue
        PROVE  CatalogueTypeOK'
    BY <1>1, <1>c DEF catalogue, CatalogueTypeOK
  <1>2. CASE Start
    <2>1. CatalogueTypeOK'
      BY <1>2, <1>c DEF Start
    <2> QED BY <2>1, <1>2 DEF Start, Go, TypeInv, TypeOK, server, outbox, Booting, Stopping
  <1>3. CASE DialTopic
    <2>1. CatalogueTypeOK'
      BY <1>3, <1>1, CatalogueStep DEF DialTopic
    <2> QED BY <2>1, <1>3 DEF DialTopic, Go, TypeInv, TypeOK, server, outbox, Booting, Stopping
  <1>4. ASSUME NEW from \in {"dial", "database"}, BootFails(from)
        PROVE  TypeInv'
    <2>1. CatalogueTypeOK'
      BY <1>4, <1>1, CatalogueStep DEF BootFails, CatalogueTypeOK
    <2> QED BY <2>1, <1>4 DEF BootFails, TypeInv, TypeOK, server, outbox, Booting, Stopping
  <1>5. CASE WaitReady
    <2>1. CatalogueTypeOK'
      BY <1>5, <1>c DEF WaitReady
    <2> QED BY <2>1, <1>5 DEF WaitReady, Go, TypeInv, TypeOK, server, outbox, Booting, Stopping
  <1>6. CASE ReplayTimeout
    <2>1. CatalogueTypeOK'
      BY <1>6, <1>1, CatalogueStep DEF ReplayTimeout
    <2> QED
      BY <2>1, <1>6 DEF ReplayTimeout, Go, TypeInv, TypeOK, server, outbox, Booting, Stopping
  <1>7. CASE Serve
    <2>1. CatalogueTypeOK'
      BY <1>7, <1>c DEF Serve
    <2> QED BY <2>1, <1>7 DEF Serve, Go, TypeInv, TypeOK, server, outbox, Booting, Stopping
  <1>8. ASSUME NEW p \in Partitions, Read(p) \/ Change(p)
        PROVE  TypeInv'
    <2>1. CatalogueTypeOK'
      BY <1>8, <1>1, CatalogueStep DEF Read, Change
    <2> QED BY <2>1, <1>8 DEF Read, Change, TypeInv, TypeOK, server, outbox
  <1>9. ASSUME NEW r \in Requests, BeginRequest(r)
        PROVE  TypeInv'
    <2>1. CatalogueTypeOK'
      BY <1>9, <1>c DEF BeginRequest
    <2> QED BY <2>1, <1>9 DEF BeginRequest, TypeInv, TypeOK, outbox
  <1>10. ASSUME NEW r \in Requests, BeginTx(r) \/ EndTx(r) \/ FinishRequest(r)
         PROVE  TypeInv'
    <2>1. CatalogueTypeOK'
      BY <1>10, <1>c DEF BeginTx, EndTx, FinishRequest
    <2> QED BY <2>1, <1>10 DEF BeginTx, EndTx, FinishRequest, TypeInv, TypeOK, outbox
  <1>11. CASE BeginPass \/ EndPass
    <2>1. CatalogueTypeOK'
      BY <1>11, <1>c DEF BeginPass, EndPass
    <2> QED BY <2>1, <1>11 DEF BeginPass, EndPass, TypeInv, TypeOK, server, outbox, Booting
  <1>12. CASE ReaderFails
    <2>1. CatalogueTypeOK'
      BY <1>12, <1>1, CatalogueStep DEF ReaderFails
    <2> QED BY <2>1, <1>12 DEF ReaderFails, TypeInv, TypeOK, server, outbox
  <1>13. CASE ComponentFails \/ Signal \/ CloseListener \/ Drain
    <2>1. CatalogueTypeOK'
      BY <1>13, <1>c DEF ComponentFails, Signal, CloseListener, Drain
    <2> QED
      BY <2>1, <1>13
      DEF ComponentFails, Signal, CloseListener, Drain, Go, TypeInv, TypeOK, server, outbox,
          Booting, Stopping
  <1>14. CASE StopReaders \/ Close \/ Crash
    <2>1. CatalogueTypeOK'
      BY <1>14, <1>1, CatalogueStep DEF StopReaders, Close, Crash
    <2> QED
      BY <2>1, <1>14
      DEF StopReaders, Close, Crash, Go, TypeInv, TypeOK, server, outbox, Booting, Stopping
  <1>15. CASE StopRelay
    <2>1. CatalogueTypeOK'
      BY <1>15, <1>c DEF StopRelay
    <2> QED BY <2>1, <1>15 DEF StopRelay, Go, TypeInv, TypeOK, server, Booting, Stopping
  <1>16. CASE UNCHANGED vars
    <2>1. CatalogueTypeOK'
      BY <1>16, <1>c DEF vars
    <2> QED BY <2>1, <1>16 DEF vars, TypeInv, TypeOK, server, outbox
  <1> QED
    BY <1>2, <1>3, <1>4, <1>5, <1>6, <1>7, <1>8, <1>9, <1>10, <1>11, <1>12, <1>13,
       <1>14, <1>15, <1>16
    DEF Next, Boot, Shutdown

(* Nothing ever waits for a message the topic does not hold, an attempt    *)
(* past the last one is never made, the relay never marks what was not     *)
(* committed, and a process that serves nothing has no listener.           *)
THEOREM TypeCorrect == Spec => []TypeOK
  <1>1. TypeInv => TypeOK
    BY DEF TypeInv
  <1> QED BY <1>1, TypeInit, TypeStep, PTL DEF Spec

-----------------------------------------------------------------------------
(* The replay *)

(* What the readiness of the cache rests on: a partition is struck off the *)
(* target only when the end noted at the dial has been read.               *)
ReplayOK ==
    /\ startEnds \in [Partitions -> Nat]
    /\ phase \in {"down", "dial"} \/
          \A p \in Partitions : IF target[p] = 0 THEN next[p] >= startEnds[p]
                                                ELSE target[p] = startEnds[p]
    /\ phase \notin {"down", "dial"} /\ ready => \A p \in Partitions : target[p] = 0
    /\ phase \notin {"down", "dial", "replay"} => ready

(* ReplayOK survives a step of the process that leaves the cache alone. *)
LEMMA ReplayKept ==
  ASSUME ReplayOK, UNCHANGED <<next, target, ready, startEnds>>,
         phase' \in {"down", "dial"} \/ phase \notin {"down", "dial"},
         phase' \in {"down", "dial", "replay"} \/ ready
  PROVE  ReplayOK'
  BY DEF ReplayOK

(* Each step keeps the relation of targets, replay and readiness. *)
LEMMA ReplayStep == TypeInv /\ ReplayOK /\ [Next]_vars => ReplayOK'
  <1> SUFFICES ASSUME TypeInv, ReplayOK, [Next]_vars
               PROVE  ReplayOK'
    OBVIOUS
  <1>t. CatalogueTypeOK
    BY DEF TypeInv, TypeOK
  <1>1. CASE DialTopic
    <2>1. /\ startEnds' = published /\ target' = published
          /\ next' = [p \in Partitions |-> 0] /\ phase' = "replay"
      BY <1>1 DEF DialTopic, NewConsumer, Go
    <2>2. ready' => \A p \in Partitions : target'[p] = 0
      BY <1>1 DEF DialTopic, NewConsumer
    <2> QED BY <2>1, <2>2, <1>t DEF ReplayOK, CatalogueTypeOK
  <1>2. ASSUME NEW p \in Partitions, Read(p)
        PROVE  ReplayOK'
    <2>1. UNCHANGED <<phase, startEnds>> /\ next' = [next EXCEPT ![p] = @ + 1] /\ CheckReady(p)
      BY <1>2 DEF Read, ReadMessage
    <2>2. \A q \in Partitions : next[q] \in Nat /\ next'[q] >= next[q] /\ next'[q] \in Nat
      BY <2>1, <1>t DEF CatalogueTypeOK
    <2>3. \A q \in Partitions : target[q] \in Nat /\ startEnds[q] \in Nat
      BY <1>t DEF CatalogueTypeOK, ReplayOK
    <2>4. CASE ~ready /\ Reached(p)
      <3>1. target' = [target EXCEPT ![p] = 0] /\ target[p] > 0 /\ next'[p] >= target[p]
        BY <2>4, <2>1, <2>2, <2>3, <1>t DEF CheckReady, Reached, CatalogueTypeOK
      <3>2. ready' => \A q \in Partitions \ {p} : target[q] = 0
        BY <2>4, <2>1 DEF CheckReady
      <3>3. ready' => \A q \in Partitions : target'[q] = 0
        BY <3>1, <3>2, <1>t DEF CatalogueTypeOK
      <3>4. ASSUME phase \notin {"down", "dial"}, NEW q \in Partitions
            PROVE  IF target'[q] = 0 THEN next'[q] >= startEnds[q]
                                     ELSE target'[q] = startEnds[q]
        BY <3>1, <3>4, <2>2, <2>3, <1>t DEF ReplayOK, CatalogueTypeOK
      <3>5. phase \in {"down", "dial", "replay"}
        BY <2>4 DEF ReplayOK
      <3> QED BY <3>3, <3>4, <3>5, <2>1 DEF ReplayOK
    <2>5. CASE ~(~ready /\ Reached(p))
      <3>1. UNCHANGED <<target, ready>>
        BY <2>5, <2>1 DEF CheckReady
      <3> QED BY <3>1, <2>1, <2>2, <2>3 DEF ReplayOK
    <2> QED BY <2>4, <2>5
  <1>3. CASE Start \/ Serve \/ ComponentFails \/ Signal \/ CloseListener \/ Drain \/ StopRelay
    BY <1>3, ReplayKept
    DEF Start, Serve, ComponentFails, Signal, CloseListener, Drain, StopRelay, Go, ReplayOK,
        catalogue
  <1>4. CASE ReplayTimeout \/ ReaderFails \/ StopReaders \/ Close \/ Crash
    BY <1>4, ReplayKept
    DEF ReplayTimeout, ReaderFails, StopReaders, Close, Crash, Go, ReplayOK, StopReading
  <1>5. ASSUME BootFails("dial") \/ BootFails("database")
        PROVE  ReplayOK'
    BY <1>5, ReplayKept DEF BootFails, ReplayOK
  <1>6. CASE WaitReady
    BY <1>6, ReplayKept DEF WaitReady, Go, catalogue
  <1>7. ASSUME NEW p \in Partitions, Change(p)
        PROVE  ReplayOK'
    BY <1>7, ReplayKept DEF Change, PublishChange, ReplayOK
  <1>8. ASSUME NEW r \in Requests,
               BeginRequest(r) \/ BeginTx(r) \/ EndTx(r) \/ FinishRequest(r)
        PROVE  ReplayOK'
    BY <1>8, ReplayKept DEF BeginRequest, BeginTx, EndTx, FinishRequest, ReplayOK, catalogue
  <1>9. CASE BeginPass \/ EndPass \/ UNCHANGED vars
    BY <1>9, ReplayKept DEF BeginPass, EndPass, vars, ReplayOK, catalogue
  <1> QED
    BY <1>1, <1>2, <1>3, <1>4, <1>5, <1>6, <1>7, <1>8, <1>9 DEF Next, Boot, Shutdown

(* Before the topic is dialled nothing is promised. *)
LEMMA ReplayInit == Init => ReplayOK
  <1>1. 0..1 \subseteq Nat
    OBVIOUS
  <1> QED BY <1>1 DEF Init, CatalogueInit, ReplayOK

(* No request is accepted before every change that was in the topic when   *)
(* the process dialled it is in the cache.                                 *)
THEOREM ServesCompleteCatalogueHolds == Spec => []ServesCompleteCatalogue
  <1>1. TypeInv /\ ReplayOK => ServesCompleteCatalogue
    BY DEF TypeInv, TypeOK, ReplayOK, ServesCompleteCatalogue, Booting
  <1> QED BY <1>1, TypeInit, TypeStep, ReplayInit, ReplayStep, PTL DEF Spec

-----------------------------------------------------------------------------
(* The shutdown *)

(* From the signal on /readyz says no, and once the listener is closed it  *)
(* stays so: a shutdown that has drained has no request any more.          *)
StopOK ==
    /\ phase \in {"stopReaders", "closeListener", "drain", "stopRelay"} => ~inService
    /\ phase \in {"drain", "stopRelay"} => ~listening
    /\ phase = "stopRelay" /\ ~late => inflight = {}
    /\ phase = "close" /\ ~late => inflight = {} /\ ~listening

(* Each step keeps the order of the shutdown. *)
LEMMA StopStep == TypeInv /\ StopOK /\ [Next]_vars => StopOK'
  <1> SUFFICES ASSUME TypeInv, StopOK, [Next]_vars
               PROVE  StopOK'
    OBVIOUS
  <1> USE DEF StopOK
  <1>1. CASE Boot \/ ReplayTimeout
    BY <1>1
    DEF Boot, Start, DialTopic, WaitReady, ReplayTimeout, Serve, Go, server
  <1>2. ASSUME BootFails("dial") \/ BootFails("database")
        PROVE  StopOK'
    BY <1>2 DEF BootFails, server
  <1>3. ASSUME NEW p \in Partitions, Read(p) \/ Change(p)
        PROVE  StopOK'
    BY <1>3 DEF Read, Change, server
  <1>4. ASSUME NEW r \in Requests,
               BeginRequest(r) \/ BeginTx(r) \/ EndTx(r) \/ FinishRequest(r)
        PROVE  StopOK'
    BY <1>4 DEF BeginRequest, BeginTx, EndTx, FinishRequest
  <1>5. CASE BeginPass \/ EndPass \/ ReaderFails \/ ComponentFails \/ Crash \/ Signal
    BY <1>5 DEF BeginPass, EndPass, ReaderFails, ComponentFails, Crash, Signal, Go, server
  <1>6. CASE Shutdown
    BY <1>6 DEF Shutdown, StopReaders, CloseListener, Drain, StopRelay, Close, Go, server
  <1>7. CASE UNCHANGED vars
    BY <1>7 DEF vars, server
  <1> QED BY <1>1, <1>2, <1>3, <1>4, <1>5, <1>6, <1>7 DEF Next

(* /readyz has said no before the listener closes, and a shutdown that     *)
(* keeps its deadline cuts no request off: the listener is closed for good *)
(* before it looks for requests under way.                                 *)
THEOREM OrderlyStopHolds == Spec => []OrderlyStop
  <1>1. Init => StopOK
    BY DEF Init, StopOK
  <1>2. StopOK => OrderlyStop
    BY DEF StopOK, OrderlyStop
  <1> QED BY <1>1, <1>2, TypeInit, TypeStep, StopStep, PTL DEF Spec

-----------------------------------------------------------------------------
(* The cache and the log *)

(* The i-th message of partition p is the last change of key k among the   *)
(* first n.                                                                *)
IsLast(k, p, n, i) == i \in Changes(k, p, n) /\ \A j \in Changes(k, p, n) : j <= i

(* Whichever way its id is spelt, all changes of a key are in one          *)
(* partition, so its last change there is its latest.                      *)
LEMMA LatestIs ==
  ASSUME NEW k, NEW ends \in [Partitions -> Nat], NEW p \in Partitions,
         \A q \in Partitions : ends[q] <= Len(Topic[q]),
         NEW i, IsLast(k, p, ends[p], i)
  PROVE  Latest(k, ends) = IF Topic[p][i].type = "deactivated" THEN Unknown
                                                              ELSE Topic[p][i].prefix
  <1> DEFINE last == {m \in Messages : \E q \in Partitions : \E j \in Changes(k, q, ends[q]) :
                         m = Topic[q][j] /\ \A h \in Changes(k, q, ends[q]) : h <= j}
  <1>1. \A q \in Partitions : Topic[q] \in Seq(Messages) /\ Len(Topic[q]) \in Nat
    BY CatalogueAssumption, LenProperties
  <1>2. ASSUME NEW q \in Partitions, NEW j \in Changes(k, q, ends[q])
        PROVE  /\ j \in 1..Len(Topic[q]) /\ Canonical[Topic[q][j].id] = k
               /\ Topic[q][j] \in Messages /\ Topic[q][j] \in Range(Topic[q])
    <2>1. j \in 1..Len(Topic[q]) /\ Canonical[Topic[q][j].id] = k
      BY <1>1 DEF Changes
    <2> QED BY <2>1, <1>1, MessageRead, LenProperties DEF Range
  <1>3. Topic[p][i] \in last
    BY <1>2 DEF IsLast
  <1>4. ASSUME NEW m \in last
        PROVE  m = Topic[p][i]
    <2>1. PICK q \in Partitions : \E j \in Changes(k, q, ends[q]) :
             m = Topic[q][j] /\ \A h \in Changes(k, q, ends[q]) : h <= j
      OBVIOUS
    <2>2. PICK j \in Changes(k, q, ends[q]) :
             m = Topic[q][j] /\ \A h \in Changes(k, q, ends[q]) : h <= j
      BY <2>1
    <2>3. q = p
      <3>1. Topic[q][j] \in Range(Topic[q]) /\ Topic[p][i] \in Range(Topic[p])
        BY <1>2 DEF IsLast
      <3>2. Canonical[Topic[q][j].id] = Canonical[Topic[p][i].id]
        BY <1>2 DEF IsLast
      <3>3. \A v \in Range(Topic[q]), w \in Range(Topic[p]) :
               Canonical[v.id] = Canonical[w.id] => q = p
        BY CatalogueAssumption
      <3> QED BY <3>1, <3>2, <3>3
    <2>4. j \in Int /\ i \in Int
      BY <1>2 DEF IsLast
    <2> QED BY <2>2, <2>3, <2>4 DEF IsLast
  <1>5. last = {Topic[p][i]}
    BY <1>3, <1>4
  <1> HIDE DEF last
  <1>6. (CHOOSE m \in last : TRUE) = Topic[p][i]
    BY <1>5
  <1>7. Latest(k, ends) = IF \E m \in last : m.type # "deactivated"
                          THEN (CHOOSE m \in last : TRUE).prefix ELSE Unknown
    BY DEF Latest, last
  <1> QED BY <1>5, <1>6, <1>7

(* A key that has not been changed is unknown. *)
LEMMA NoneYet ==
  ASSUME NEW k, NEW ends, \A p \in Partitions : Changes(k, p, ends[p]) = {}
  PROVE  Latest(k, ends) = Unknown
  BY DEF Latest

(* What else is read leaves a key as it was. *)
LEMMA LatestKept ==
  ASSUME NEW k, NEW ends, NEW more,
         \A p \in Partitions : Changes(k, p, more[p]) = Changes(k, p, ends[p])
  PROVE  Latest(k, more) = Latest(k, ends)
  <1> DEFINE last(f) ==
               {m \in Messages : \E p \in Partitions : \E i \in Changes(k, p, f[p]) :
                   m = Topic[p][i] /\ \A j \in Changes(k, p, f[p]) : j <= i}
  <1>1. last(more) = last(ends)
    OBVIOUS
  <1> HIDE DEF last
  <1>2. \A f : Latest(k, f) = IF \E m \in last(f) : m.type # "deactivated"
                              THEN (CHOOSE m \in last(f) : TRUE).prefix ELSE Unknown
    BY DEF Latest, last
  <1> QED BY <1>1, <1>2

(* One more message of the log, whatever it says and whether or not it     *)
(* could be read, is one more step of the cache.                           *)
LEMMA CacheRead ==
  ASSUME CatalogueTypeOK, CacheIsLog, NEW p \in Partitions, ReadMessage(p)
  PROVE  CacheIsLog'
  <1> DEFINE n == next[p]
             m == Topic[p][n + 1]
  <1>1. /\ next \in [Partitions -> Nat] /\ published \in [Partitions -> Nat]
        /\ DOMAIN paths = Keys
        /\ next' = [next EXCEPT ![p] = n + 1] /\ n < published[p] /\ paths' = Apply(m)
        /\ \A q \in Partitions : Len(Topic[q]) \in Nat /\ published[q] <= Len(Topic[q])
                                 /\ next[q] <= published[q]
    BY CatalogueAssumption, LenProperties DEF CatalogueTypeOK, ReadMessage
  <1>2. n + 1 \in 1..Len(Topic[p]) /\ n \in Nat
    BY <1>1
  <1>3. m \in Messages
    BY <1>2, MessageRead
  <1>4. /\ next' \in [Partitions -> Nat]
        /\ \A q \in Partitions : next'[q] = (IF q = p THEN n + 1 ELSE next[q])
                                 /\ next'[q] <= Len(Topic[q])
    BY <1>1, <1>2
  <1> SUFFICES ASSUME NEW k \in Keys
               PROVE  paths'[k] = Latest(k, next')
    BY DEF CacheIsLog
  <1>5. paths[k] = Latest(k, next)
    BY DEF CacheIsLog
  <1>6. CASE Canonical[m.id] = k /\ m.type \in {"created", "updated", "deactivated"}
    <2>1. IsLast(k, p, next'[p], n + 1)
      BY <1>6, <1>2, <1>4 DEF IsLast, Changes
    <2>2. Latest(k, next') = IF m.type = "deactivated" THEN Unknown ELSE m.prefix
      BY <2>1, <1>4, LatestIs
    <2>3. paths'[k] = IF m.type = "deactivated" THEN Unknown ELSE m.prefix
      BY <1>6, <1>1 DEF Apply
    <2> QED BY <2>2, <2>3
  <1>7. CASE ~(Canonical[m.id] = k /\ m.type \in {"created", "updated", "deactivated"})
    <2>1. \A q \in Partitions : Changes(k, q, next'[q]) = Changes(k, q, next[q])
      BY <1>7, <1>2, <1>4 DEF Changes
    <2>2. Latest(k, next') = Latest(k, next)
      BY <2>1, LatestKept
    <2>3. paths'[k] = paths[k]
      BY <1>7, <1>1 DEF Apply
    <2> QED BY <2>2, <2>3, <1>5
  <1> QED BY <1>6, <1>7

(* An empty cache is what the log says before anything is read. *)
LEMMA CacheStarts ==
  ASSUME paths = NoPaths, next = [p \in Partitions |-> 0]
  PROVE  CacheIsLog
  <1>1. \A k \in Keys, p \in Partitions : Changes(k, p, next[p]) = {}
    BY DEF Changes
  <1> QED BY <1>1, NoneYet DEF CacheIsLog, NoPaths

(* Each step of the process. *)
LEMMA CacheStep == TypeInv /\ CacheIsLog /\ [Next]_vars => CacheIsLog'
  <1> SUFFICES ASSUME TypeInv, CacheIsLog, [Next]_vars
               PROVE  CacheIsLog'
    OBVIOUS
  <1>1. ASSUME UNCHANGED <<paths, next>>
        PROVE  CacheIsLog'
    BY <1>1 DEF CacheIsLog
  <1>2. CASE DialTopic
    <2>1. (paths = NoPaths /\ next = [p \in Partitions |-> 0])'
      BY <1>2 DEF DialTopic, NewConsumer, NoPaths
    <2> QED BY <2>1, CacheStarts, PTL
  <1>3. ASSUME NEW p \in Partitions, Read(p)
        PROVE  CacheIsLog'
    BY <1>3, CacheRead DEF Read, TypeInv, TypeOK
  <1> QED
    BY <1>1, <1>2, <1>3
    DEF Next, Boot, Shutdown, Start, WaitReady, ReplayTimeout, Serve, BootFails, Change,
        PublishChange, BeginRequest, BeginTx, EndTx, FinishRequest, BeginPass, EndPass, ReaderFails,
        ComponentFails, Crash, Signal, StopReaders, CloseListener, Drain, StopRelay, Close,
        StopReading, vars, catalogue

(* Nothing is in the cache of a process but the last change of each path,  *)
(* whatever its restarts, its failures and the messages it could not read. *)
THEOREM CacheFollowsLogHolds == Spec => []CacheFollowsLog
  <1>1. Init => CacheIsLog
    BY CacheStarts DEF Init, CatalogueInit
  <1>2. CacheIsLog => CacheFollowsLog
    BY DEF CacheFollowsLog
  <1> QED BY <1>1, <1>2, TypeInit, TypeStep, CacheStep, PTL DEF Spec

-----------------------------------------------------------------------------
(* The lookup *)

(* A set of naturals has a least element. *)
LEMMA SmallestIs ==
  ASSUME NEW S, S \subseteq Nat, S # {}
  PROVE  \E i \in S : \A j \in S : i <= j
  <1> DEFINE Less == OpToRel(<, Nat)
  <1>1. Less = {ss \in Nat \X Nat : ss[1] < ss[2]}
    BY Zenon DEF OpToRel
  <1>2. PICK i \in S : \A j \in S : ~(<<j, i>> \in Less)
    BY NatLessThanWellFounded, WFMin
  <1> HIDE DEF Less
  <1>3. ASSUME NEW j \in S
        PROVE  i <= j
    <2>1. i \in Nat /\ j \in Nat
      OBVIOUS
    <2>2. j < i => <<j, i>> \in {ss \in Nat \X Nat : ss[1] < ss[2]}
      BY <2>1
    <2>3. ~(j < i)
      BY <1>1, <1>2, <2>2, Zenon
    <2> QED BY <2>1, <2>3
  <1> QED BY <1>3

(* Max is the greatest element of a set of positions. *)
LEMMA MaxIs ==
  ASSUME NEW n \in Nat, NEW s, s \subseteq 1..n, s # {}
  PROVE  Max(s) \in s /\ \A y \in s : Max(s) >= y
  <1> DEFINE U == {m \in Nat : \A y \in s : y <= m}
  <1>1. n \in U
    OBVIOUS
  <1>2. PICK u \in U : \A m \in U : u <= m
    BY <1>1, SmallestIs
  <1>3. u \in s
    <2> SUFFICES ASSUME u \notin s
                 PROVE  FALSE
      OBVIOUS
    <2>0. \A y \in s : y \in 1..n /\ y <= u /\ y # u
      OBVIOUS
    <2>1. u - 1 \in U
      <3>1. PICK y \in s : TRUE
        OBVIOUS
      <3>2. u - 1 \in Nat
        BY <3>1, <2>0
      <3>3. \A z \in s : z <= u - 1
        BY <2>0
      <3> QED BY <3>2, <3>3
    <2> QED BY <2>1, <1>2
  <1>4. \A y \in s : u >= y
    OBVIOUS
  <1> QED BY <1>3, <1>4 DEF Max

(* One round of the loop of Lookup. *)
Visited(id, best, prefix) ==
    IF prefix # <<>> /\ MatchesPrefix(id, prefix) /\ Better(prefix, best)
    THEN prefix ELSE best

(* What the fold of the library computes, over positions 1 to k. *)
Solves(id, defs, k, g) ==
    g = [s \in SUBSET (1..k) |->
            IF s = {} THEN Unknown ELSE Visited(id, g[s \ {Max(s)}], defs[Max(s)])]

(* The recursion of the fold is well-defined, by the least k for which it  *)
(* would not be.                                                           *)
LEMMA FoldExists ==
  ASSUME NEW id, NEW defs, NEW n \in Nat
  PROVE  \E g : Solves(id, defs, n, g)
  <1> DEFINE Bad == {k \in Nat : ~\E g : Solves(id, defs, k, g)}
  <1> SUFFICES ASSUME Bad # {}
               PROVE  FALSE
    OBVIOUS
  <1>1. PICK b \in Bad : \A k \in Bad : b <= k
    BY SmallestIs
  <1>2. CASE b = 0
    <2> DEFINE g == [s \in SUBSET (1..0) |-> Unknown]
    <2>1. \A s \in SUBSET (1..0) : s = {}
      OBVIOUS
    <2>2. Solves(id, defs, 0, g)
      BY <2>1 DEF Solves
    <2> QED BY <2>2, <1>2
  <1>3. CASE b # 0
    <2>1. b \in Nat /\ b - 1 \in Nat /\ b - 1 \notin Bad
      BY <1>1, <1>3
    <2>2. PICK g : Solves(id, defs, b - 1, g)
      BY <2>1
    <2> DEFINE h == [s \in SUBSET (1..b) |->
                        IF s = {} THEN Unknown
                                  ELSE Visited(id, g[s \ {Max(s)}], defs[Max(s)])]
    <2>3. ASSUME NEW s \in SUBSET (1..b), s # {}
          PROVE  h[s \ {Max(s)}] = g[s \ {Max(s)}]
      <3>1. Max(s) \in s /\ \A y \in s : Max(s) >= y
        BY <2>3, MaxIs
      <3>2. s \ {Max(s)} \in SUBSET (1..(b - 1)) /\ s \ {Max(s)} \in SUBSET (1..b)
        <4>1. Max(s) \in 1..b
          BY <3>1
        <4>2. ASSUME NEW y \in s \ {Max(s)}
              PROVE  y \in 1..(b - 1)
          <5>1. y \in 1..b /\ y <= Max(s) /\ y # Max(s)
            BY <3>1
          <5> QED BY <5>1, <4>1, <2>1
        <4> QED BY <4>2
      <3> DEFINE t == s \ {Max(s)}
      <3>3. g[t] = IF t = {} THEN Unknown ELSE Visited(id, g[t \ {Max(t)}], defs[Max(t)])
        BY <3>2, <2>2 DEF Solves
      <3> QED BY <3>2, <3>3
    <2>4. Solves(id, defs, b, h)
      <3>1. h = [s \in SUBSET (1..b) |->
                    IF s = {} THEN Unknown
                              ELSE Visited(id, h[s \ {Max(s)}], defs[Max(s)])]
        BY <2>3
      <3> QED BY <3>1 DEF Solves
    <2> QED BY <2>4
  <1> QED BY <1>2, <1>3

(* The loop of Lookup: best[k] is the best after k of the n definitions.   *)
Rounds(id, n, defs, best) ==
    /\ best[0] = Unknown /\ best[n] = LookupIn(defs, id)
    /\ \A k \in 1..n : best[k] = Visited(id, best[k - 1], defs[k])

(* The fold, seen as rounds: one for each declared path, in some order. *)
LEMMA LookupRounds ==
  ASSUME NEW id, NEW n \in Nat, NEW defs, DOMAIN defs = 1..n
  PROVE  \E best : Rounds(id, n, defs, best)
  <1> DEFINE iter == CHOOSE g : Solves(id, defs, n, g)
             best == [k \in 0..n |-> iter[1..k]]
  <1>1. Solves(id, defs, n, iter)
    BY FoldExists
  <1>2. LookupIn(defs, id) = iter[1..n]
    BY DEF LookupIn, FoldLeft, MapThenFoldSet, Visited, Solves
  <1>3. best[0] = Unknown
    <2>1. 1..0 = {} /\ 1..0 \in SUBSET (1..n)
      OBVIOUS
    <2> HIDE DEF iter
    <2>2. iter[{}] = Unknown
      BY <1>1, <2>1 DEF Solves
    <2> QED BY <2>1, <2>2
  <1>4. ASSUME NEW k \in 1..n
        PROVE  best[k] = Visited(id, best[k - 1], defs[k])
    <2>1. 1..k \in SUBSET (1..n) /\ 1..k # {} /\ k \in 1..k
      <3>1. \A i \in 1..k : i \in 1..n
        OBVIOUS
      <3>2. k \in 1..k
        OBVIOUS
      <3> QED BY <3>1, <3>2
    <2>2. Max(1..k) = k
      <3>1. Max(1..k) \in 1..k /\ \A y \in 1..k : Max(1..k) >= y
        BY <2>1, MaxIs
      <3> QED BY <3>1
    <2>3. (1..k) \ {k} = 1..(k - 1) /\ k - 1 \in 0..n
      OBVIOUS
    <2> HIDE DEF iter
    <2>4. iter[1..k] = Visited(id, iter[1..(k - 1)], defs[k])
      BY <1>1, <2>1, <2>2, <2>3 DEF Solves
    <2> QED BY <2>3, <2>4
  <1>5. best[n] = LookupIn(defs, id)
    BY <1>2
  <1> HIDE DEF best
  <1> QED BY <1>3, <1>4, <1>5 DEF Rounds

(* What a prefix in the cache is made of: to the provers "unknown path" is *)
(* not known to be a string.                                               *)
Words == STRING \cup {"unknown path"}

(* The loop ends with a longest of the prefixes that match, or with none.  *)
LEMMA LookupFinds ==
  ASSUME NEW id, NEW n \in Nat, NEW defs \in [1..n -> Seq(Words)],
         \A k \in 1..n : defs[k] # Unknown
  PROVE  LET M == {p \in Range(defs) : p # <<>> /\ MatchesPrefix(id, p)}
         IN  IF M = {} THEN LookupIn(defs, id) = Unknown
                       ELSE /\ LookupIn(defs, id) \in M
                            /\ \A p \in M : Len(p) <= Len(LookupIn(defs, id))
  <1> DEFINE match(p) == p # <<>> /\ MatchesPrefix(id, p)
             M(k) == {p \in {defs[i] : i \in 1..k} : match(p)}
  <1>0. DOMAIN defs = 1..n
    OBVIOUS
  <1>p. PICK best : Rounds(id, n, defs, best)
    BY <1>0, LookupRounds, Zenon
  <1>1. /\ best[0] = Unknown /\ best[n] = LookupIn(defs, id)
        /\ \A k \in 1..n : best[k] = Visited(id, best[k - 1], defs[k])
    BY <1>p DEF Rounds
  <1> DEFINE Fine(k) == IF M(k) = {} THEN best[k] = Unknown
                        ELSE best[k] \in M(k) /\ \A p \in M(k) : Len(p) <= Len(best[k])
             Bad == {k \in 0..n : ~Fine(k)}
  <1>2. Fine(0)
    <2>1. M(0) = {}
      OBVIOUS
    <2> QED BY <2>1, <1>1
  <1>3. ASSUME NEW k \in 1..n, Fine(k - 1)
        PROVE  Fine(k)
    <2> DEFINE p == defs[k]
    <2>1. {defs[i] : i \in 1..k} = {defs[i] : i \in 1..(k - 1)} \cup {p}
      <3>1. 1..k = (1..(k - 1)) \cup {k}
        OBVIOUS
      <3> QED BY <3>1
    <2>2. M(k) = IF match(p) THEN M(k - 1) \cup {p} ELSE M(k - 1)
      BY <2>1
    <2>3. best[k] = IF match(p) /\ Better(p, best[k - 1]) THEN p ELSE best[k - 1]
      BY <1>1 DEF Visited
    <2>4. /\ p \in Seq(Words) /\ p # Unknown /\ Len(p) \in Nat
          /\ \A q \in M(k - 1) : q \in Seq(Words) /\ q # Unknown /\ Len(q) \in Nat
      <3>1. \A i \in 1..n : defs[i] \in Seq(Words) /\ defs[i] # Unknown /\ Len(defs[i]) \in Nat
        BY LenProperties
      <3>2. \A i \in 1..(k - 1) : i \in 1..n
        OBVIOUS
      <3> QED BY <3>1, <3>2
    <2> HIDE DEF M, match
    <2>5. CASE ~match(p)
      BY <2>5, <2>2, <2>3, <1>3
    <2>6. CASE match(p) /\ M(k - 1) = {}
      BY <2>6, <2>2, <2>3, <2>4, <1>3 DEF Better
    <2>7. CASE match(p) /\ M(k - 1) # {}
      <3>1. best[k - 1] \in M(k - 1) /\ \A q \in M(k - 1) : Len(q) <= Len(best[k - 1])
        BY <2>7, <1>3
      <3>2. Better(p, best[k - 1]) <=> Len(p) > Len(best[k - 1])
        BY <3>1, <2>4 DEF Better
      <3>3. CASE Len(p) > Len(best[k - 1])
        <4>1. best[k] = p /\ M(k) = M(k - 1) \cup {p}
          BY <3>2, <3>3, <2>2, <2>3, <2>7
        <4>2. \A q \in M(k) : Len(q) <= Len(p)
          BY <4>1, <3>1, <3>3, <2>4
        <4> QED BY <4>1, <4>2
      <3>4. CASE ~(Len(p) > Len(best[k - 1]))
        <4>1. best[k] = best[k - 1] /\ M(k) = M(k - 1) \cup {p}
          BY <3>2, <3>4, <2>2, <2>3, <2>7
        <4>2. \A q \in M(k) : Len(q) <= Len(best[k - 1])
          BY <4>1, <3>1, <3>4, <2>4
        <4> QED BY <4>1, <4>2, <3>1
      <3> QED BY <3>3, <3>4
    <2> QED BY <2>5, <2>6, <2>7
  <1> HIDE DEF Fine
  <1>4. Bad = {}
    <2> SUFFICES ASSUME Bad # {}
                 PROVE  FALSE
      OBVIOUS
    <2>1. PICK b \in Bad : \A k \in Bad : b <= k
      <3>1. Bad \subseteq Nat
        OBVIOUS
      <3> QED BY <3>1, SmallestIs
    <2>2. b \in 1..n /\ b - 1 \in 0..n
      BY <1>2
    <2>3. b - 1 \notin Bad
      BY <2>1, <2>2
    <2> QED BY <2>2, <2>3, <1>3
  <1>5. Fine(n)
    BY <1>4
  <1>6. Range(defs) = {defs[i] : i \in 1..n}
    BY DEF Range
  <1> QED BY <1>1, <1>5, <1>6 DEF Fine

(* A longest match that is looked at first is the answer. *)
LEMMA FirstWins ==
  ASSUME NEW id, NEW n \in Nat, NEW defs \in [1..n -> Seq(Words)], n # 0,
         \A k \in 1..n : defs[k] # Unknown,
         defs[1] # <<>>, MatchesPrefix(id, defs[1]),
         \A k \in 1..n : defs[k] # <<>> /\ MatchesPrefix(id, defs[k])
                          => Len(defs[k]) <= Len(defs[1])
  PROVE  LookupIn(defs, id) = defs[1]
  <1>0. DOMAIN defs = 1..n
    OBVIOUS
  <1>p. PICK best : Rounds(id, n, defs, best)
    BY <1>0, LookupRounds, Zenon
  <1>1. /\ best[0] = Unknown /\ best[n] = LookupIn(defs, id)
        /\ \A k \in 1..n : best[k] = Visited(id, best[k - 1], defs[k])
    BY <1>p DEF Rounds
  <1> DEFINE Bad == {k \in 1..n : best[k] # defs[1]}
  <1>2. \A k \in 1..n : Len(defs[k]) \in Nat
    BY LenProperties
  <1>3. 1 \notin Bad
    <2>1. 1 \in 1..n /\ 1 - 1 = 0
      OBVIOUS
    <2> QED BY <1>1, <2>1 DEF Visited, Better
  <1>4. Bad = {}
    <2> SUFFICES ASSUME Bad # {}
                 PROVE  FALSE
      OBVIOUS
    <2>1. PICK b \in Bad : \A k \in Bad : b <= k
      <3>1. Bad \subseteq Nat
        OBVIOUS
      <3> QED BY <3>1, SmallestIs
    <2>2. b \in 1..n /\ b - 1 \in 1..n /\ b - 1 \notin Bad
      BY <1>3, <2>1
    <2>3. best[b] = Visited(id, defs[1], defs[b])
      BY <1>1, <2>2
    <2>4. ~(MatchesPrefix(id, defs[b]) /\ defs[b] # <<>> /\ Better(defs[b], defs[1]))
      <3>1. 1 \in 1..n
        OBVIOUS
      <3> QED BY <1>2, <2>2, <3>1 DEF Better
    <2> QED BY <2>1, <2>3, <2>4 DEF Visited
  <1> QED BY <1>1, <1>4

(* What the log says of a key is a prefix. *)
LEMMA PrefixIs ==
  ASSUME NEW k, NEW ends
  PROVE  Latest(k, ends) \in Seq(Words)
  <1>1. Unknown \in Seq(Words)
    BY DEF Unknown, Words
  <1> DEFINE last == {m \in Messages : \E p \in Partitions : \E i \in Changes(k, p, ends[p]) :
                         m = Topic[p][i] /\ \A j \in Changes(k, p, ends[p]) : j <= i}
  <1>2. \A m \in last : m.prefix \in Seq(Words)
    <2>1. ASSUME NEW s \in Seq(STRING)
          PROVE  s \in Seq(Words)
      <3>1. Len(s) \in Nat /\ s \in [1..Len(s) -> STRING]
        BY LenProperties
      <3>2. STRING \subseteq Words
        BY DEF Words
      <3>3. s \in [1..Len(s) -> Words]
        BY <3>1, <3>2
      <3> QED BY <3>1, <3>3, SeqDef
    <2> QED BY <2>1, CatalogueAssumption
  <1> HIDE DEF last
  <1>3. last # {} => (CHOOSE m \in last : TRUE) \in last
    OBVIOUS
  <1>4. Latest(k, ends) = IF \E m \in last : m.type # "deactivated"
                          THEN (CHOOSE m \in last : TRUE).prefix ELSE Unknown
    BY DEF Latest, last
  <1> QED BY <1>1, <1>2, <1>3, <1>4

(* A set has an order, and one that begins with any of its elements. *)
LEMMA OrdersAre ==
  ASSUME NEW S, IsFiniteSet(S)
  PROVE  /\ SetToSeqs(S) # {}
         /\ \A x \in S : \E ks \in SetToSeqs(S) : ks[1] = x
         /\ \A ks \in SetToSeqs(S) : Range(ks) = S
         /\ Cardinality(S) \in Nat
         /\ SetToSeqs(S) \subseteq [1..Cardinality(S) -> S]
         /\ S # {} => Cardinality(S) # 0
  <1> DEFINE n == Cardinality(S)
  <1>1. n \in Nat /\ ExistsBijection(1..n, S)
    BY FS_CardinalityType
  <1>2. PICK f \in [1..n -> S] : /\ \A i, j \in 1..n : i # j => f[i] # f[j]
                                /\ \A x \in S : \E i \in 1..n : f[i] = x
    BY <1>1 DEF ExistsBijection, Bijection, Injection, Surjection, IsInjective
  <1>3. f \in SetToSeqs(S)
    BY <1>2 DEF SetToSeqs
  <1>4. ASSUME NEW x \in S
        PROVE  \E ks \in SetToSeqs(S) : ks[1] = x
    <2>1. PICK i \in 1..n : f[i] = x
      BY <1>2
    <2>2. 1 \in 1..n
      BY <1>1
    <2> DEFINE g == [j \in 1..n |-> IF j = 1 THEN f[i] ELSE IF j = i THEN f[1] ELSE f[j]]
    <2>3. g \in [1..n -> S] /\ g[1] = x
      BY <1>2, <2>1, <2>2
    <2>4. \A j, k \in 1..n : j # k => g[j] # g[k]
      BY <1>2, <2>2
    <2> HIDE DEF g
    <2> QED BY <2>3, <2>4 DEF SetToSeqs
  <1>5. ASSUME NEW ks \in SetToSeqs(S)
        PROVE  Range(ks) = S
    <2>1. ks \in [1..n -> S] /\ \A i, j \in 1..n : i # j => ks[i] # ks[j]
      BY DEF SetToSeqs
    <2>2. ks \in Injection(1..n, S)
      BY <2>1 DEF Injection, IsInjective
    <2>3. Cardinality(1..n) = n /\ IsFiniteSet(1..n)
      BY <1>1, FS_Interval
    <2>4. ks \in Surjection(1..n, S)
      BY <2>2, <2>3, FS_Injection
    <2> QED BY <2>1, <2>4 DEF Surjection, Range
  <1>6. SetToSeqs(S) \subseteq [1..n -> S]
    BY DEF SetToSeqs
  <1>7. S # {} => n # 0
    BY FS_EmptySet
  <1> QED BY <1>1, <1>3, <1>4, <1>5, <1>6, <1>7

(* Lookup, over any order of the map. *)
LEMMA LookupLongest ==
  ASSUME CacheIsLog, NEW id
  PROVE  LET matches == {paths[k] : k \in {a \in Active : paths[a] # <<>>
                                                       /\ IsPrefix(paths[a], id)}}
         IN  Lookups(id) = IF matches = {} THEN {Unknown}
                           ELSE {m \in matches : \A n \in matches : Len(n) <= Len(m)}
  <1> DEFINE matches == {paths[k] : k \in {a \in Active : paths[a] # <<>>
                                                         /\ IsPrefix(paths[a], id)}}
             longest == {m \in matches : \A n \in matches : Len(n) <= Len(m)}
             Defs(ks) == [i \in DOMAIN ks |-> paths[ks[i]]]
             size == Cardinality(Active)
  <1>1. \A k \in Active : paths[k] \in Seq(Words) /\ paths[k] # Unknown
    BY PrefixIs DEF CacheIsLog, Active
  <1>2. IsFiniteSet(Active)
    BY CatalogueAssumption, FS_Subset DEF Active
  <1>3. size \in Nat /\ SetToSeqs(Active) \subseteq [1..size -> Active]
    BY <1>2, OrdersAre
  <1>4. ASSUME NEW ks \in SetToSeqs(Active)
        PROVE  /\ Defs(ks) \in [1..size -> Seq(Words)]
               /\ \A i \in 1..size : Defs(ks)[i] # Unknown /\ Defs(ks)[i] = paths[ks[i]]
               /\ {p \in Range(Defs(ks)) : p # <<>> /\ MatchesPrefix(id, p)} = matches
    <2>1. ks \in [1..size -> Active]
      BY <1>3
    <2>2. \A i \in 1..size : Defs(ks)[i] = paths[ks[i]]
      BY <2>1
    <2>3. Defs(ks) \in [1..size -> Seq(Words)] /\ \A i \in 1..size : Defs(ks)[i] # Unknown
      BY <2>1, <1>1
    <2>4. Range(ks) = Active
      BY <1>2, OrdersAre
    <2>5. Range(Defs(ks)) = {paths[k] : k \in Active}
      BY <2>1, <2>4 DEF Range
    <2> HIDE DEF Defs
    <2>6. {p \in Range(Defs(ks)) : p # <<>> /\ MatchesPrefix(id, p)} = matches
      BY <2>5 DEF MatchesPrefix
    <2> QED BY <2>2, <2>3, <2>6
  <1>5. Lookups(id) = {LookupIn(Defs(ks), id) : ks \in SetToSeqs(Active)}
    BY DEF Lookups
  <1> HIDE DEF Defs, size, matches
  <1>6. ASSUME NEW ks \in SetToSeqs(Active)
        PROVE  IF matches = {} THEN LookupIn(Defs(ks), id) = Unknown
                               ELSE LookupIn(Defs(ks), id) \in longest
    <2>1. LET M == {p \in Range(Defs(ks)) : p # <<>> /\ MatchesPrefix(id, p)}
          IN  IF M = {} THEN LookupIn(Defs(ks), id) = Unknown
                        ELSE /\ LookupIn(Defs(ks), id) \in M
                             /\ \A p \in M : Len(p) <= Len(LookupIn(Defs(ks), id))
      BY <1>3, <1>4, LookupFinds
    <2> QED BY <2>1, <1>4
  <1>7. ASSUME NEW m \in longest
        PROVE  \E ks \in SetToSeqs(Active) : LookupIn(Defs(ks), id) = m
    <2>1. PICK k \in Active : m = paths[k] /\ paths[k] # <<>> /\ IsPrefix(paths[k], id)
      BY DEF matches
    <2>2. PICK ks \in SetToSeqs(Active) : ks[1] = k
      BY <1>2, OrdersAre
    <2>3. size # 0 /\ 1 \in 1..size
      BY <1>2, <1>3, OrdersAre DEF size
    <2>4. Defs(ks)[1] = m
      BY <1>4, <2>1, <2>2, <2>3
    <2>5. ASSUME NEW i \in 1..size, Defs(ks)[i] # <<>>, MatchesPrefix(id, Defs(ks)[i])
          PROVE  Len(Defs(ks)[i]) <= Len(Defs(ks)[1])
      <3>1. Defs(ks)[i] \in Range(Defs(ks))
        BY <1>4 DEF Range
      <3>2. Defs(ks)[i] \in matches
        BY <3>1, <2>5, <1>4
      <3> QED BY <3>2, <2>4
    <2>6. MatchesPrefix(id, Defs(ks)[1])
      BY <2>1, <2>4 DEF MatchesPrefix
    <2>7. LookupIn(Defs(ks), id) = Defs(ks)[1]
      <3>1. size \in Nat /\ size # 0 /\ Defs(ks) \in [1..size -> Seq(Words)]
        BY <1>3, <1>4, <2>3
      <3>2. Defs(ks)[1] # <<>> /\ \A i \in 1..size : Defs(ks)[i] # Unknown
        BY <1>4, <2>1, <2>4
      <3>3. \A i \in 1..size : Defs(ks)[i] # <<>> /\ MatchesPrefix(id, Defs(ks)[i])
                              => Len(Defs(ks)[i]) <= Len(Defs(ks)[1])
        BY <2>5
      <3> HIDE DEF Unknown
      <3> QED BY <3>1, <3>2, <3>3, <2>6, FirstWins, Zenon
    <2> QED BY <2>7, <2>4
  <1>8. SetToSeqs(Active) # {}
    BY <1>2, OrdersAre
  <1>9. CASE matches = {}
    <2>1. Lookups(id) = {Unknown}
      BY <1>5, <1>6, <1>8, <1>9
    <2> QED BY <2>1, <1>9 DEF matches
  <1>10. CASE matches # {}
    <2>1. Lookups(id) = longest
      BY <1>5, <1>6, <1>7, <1>10
    <2> QED BY <2>1, <1>10 DEF matches
  <1> QED BY <1>9, <1>10

(* Whatever order the map is walked in, an id is known exactly when some   *)
(* active path declares a prefix of it, and every answer is a longest one; *)
(* so it is for every id and whatever the log has put in the cache.        *)
THEOREM LookupIsLongestMatchHolds == Spec => []LookupIsLongestMatch
  <1>1. Init => CacheIsLog
    BY CacheStarts DEF Init, CatalogueInit
  <1>2. CacheIsLog => LookupIsLongestMatch
    BY LookupLongest, Zenon DEF LookupIsLongestMatch
  <1> QED BY <1>1, <1>2, TypeInit, TypeStep, CacheStep, PTL DEF Spec
=============================================================================
