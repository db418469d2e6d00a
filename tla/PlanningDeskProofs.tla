------------------------- MODULE PlanningDeskProofs -------------------------
(***************************************************************************)
(* Proofs about PlanningDesk, for any number of clients, units and events, *)
(* any requests, limits and trip conditions, and any number of failures    *)
(* and timers.                                                             *)
(***************************************************************************)
EXTENDS PlanningDesk, FiniteSetTheorems, TLAPS

-----------------------------------------------------------------------------
(* Types *)

EventNames == Documents \cup {"WorkReleased", "BacklogThresholdBreached", "PathCapacityChanged",
                              "PathThrottled", "LaborReassignmentFlagged"}

Readings == [backlog : Nat, wip : Nat, remaining : Int]

ClientStates ==
    [at : Labels, req : Requests \cup {NoRequest}, unit : SUBSET WorkUnits,
     tries : 0..MaxAttempts, epoch : Nat, events : SUBSET EventNames, id : Nat,
     seen : SUBSET Readings, advice : SUBSET Readings]

Typed ==
    /\ mode \in {"ReleaseFed", "FlowFed"}
    /\ pool \in Pools
    /\ stored \in [Documents -> Requests \cup {NoRequest}]
    /\ outbox \subseteq [id : Nat, type : SUBSET EventNames, says : Requests]
    /\ nextId \in Nat
    /\ client \in [Clients -> ClientStates]
    /\ failed \in [Dependencies -> Nat]

(* Where a request of each kind may be, and what it has by then.           *)
StageOK(k) ==
    /\ k.at = "idle" => k = Free
    /\ k.at # "idle" => k.req \in Requests
    /\ k.at = "read" => k.req.op \in {"sample", "rebalance"}
    /\ k.at = "hold" => k.req.op = "release"
    /\ k.at \in {"enter", "fetch"} => k.req.op \in {"plan", "release"}
    /\ k.at = "save" => k.req.op \in Documents
    /\ k.at \in {"read", "hold", "save"} => k.unit = {}
    /\ k.unit # {} => k.at # "idle" /\ k.req.op = "release" /\ \E w \in WorkUnits : k.unit = {w}
    /\ k.at \in {"enter", "fetch", "publish", "commit"} /\ k.req.op = "release"
          => k.unit # {} /\ k.events = {"WorkReleased"}
    /\ k.at \in {"publish", "commit"} =>
          IF k.req.op \in Documents THEN k.events = {k.req.op}
                                    ELSE k.events \cap Documents = {}

Stages == \A c \in Clients : StageOK(client[c])

(* A request is about one of the operations. *)
LEMMA RequestIs ==
  ASSUME NEW r \in Requests
  PROVE  r.op \in Ops /\ r.valid \in BOOLEAN /\ r.extra \in BOOLEAN
  BY DeskAssumption

(* Pools are finite, so depth and work in progress are numbers. *)
LEMMA ReadingIs ==
  ASSUME NEW entries \in Pools
  PROVE  /\ Reading(entries) \in Readings
         /\ WIP(entries) \in Nat /\ BacklogDepth(entries) \in Nat
         /\ IsFiniteSet(Outstanding(entries))
  <1>1. IsFiniteSet(Pending(entries)) /\ IsFiniteSet(Outstanding(entries))
    BY PoolAssumption, FS_Subset DEF Pending, Outstanding
  <1>2. WIP(entries) \in Nat /\ BacklogDepth(entries) \in Nat
    BY <1>1, FS_CardinalityType DEF WIP, BacklogDepth
  <1>3. WipLimit \in Nat
    BY PoolAssumption
  <1> QED BY <1>1, <1>2, <1>3 DEF Reading, Readings

(* A client that waits for a request. *)
LEMMA FreeIs == Free \in ClientStates /\ StageOK(Free) /\ Free.at = "idle" /\ Free.unit = {}
  BY DeskAssumption DEF Free, ClientStates, StageOK, Labels

(* What becomes of client c: its new state is k. *)
Moved(c, k) == client' = [client EXCEPT ![c] = k]

(* The new states of a client, one for each step it may take. *)
Asked(r)       == [Free EXCEPT !.at = FirstStep(r), !.req = r, !.seen = {Reading(pool)}]
Passing(k)     == [k EXCEPT !.at = IF k.req.op = "plan" THEN "save" ELSE "publish"]
Fetching(k, e) == [k EXCEPT !.at = "fetch", !.tries = 0, !.epoch = e]
Retrying(k)    == [k EXCEPT !.tries = @ + 1]
Holding(k, w)  == [k EXCEPT !.at = IF w \in WithSku THEN "enter" ELSE "publish",
                            !.unit = {w}, !.events = {"WorkReleased"}]
Advised(k)     == [k EXCEPT !.at = "publish", !.advice = {Reading(pool)},
                            !.events = EventsOf(k.req, Reading(pool))]
Saving(k)      == [k EXCEPT !.at = "publish", !.events = {k.req.op}]
Publishing(k)  == [k EXCEPT !.at = "commit", !.id = nextId]

(* The steps that change one client, in terms of those.                    *)
LEMMA StepsMove ==
  ASSUME Typed, NEW c \in Clients
  PROVE  /\ \A r \in Requests : Ask(c, r) =>
               /\ client[c].at = "idle"
               /\ \/ FirstStep(r) = "idle" /\ Moved(c, Free)
                  \/ FirstStep(r) # "idle" /\ Moved(c, Asked(r))
         /\ Enter(c) =>
               /\ client[c].at = "enter"
               /\ \/ Moved(c, Passing(client[c]))
                  \/ Moved(c, Fetching(client[c], breaker[DependencyOf(c)].epoch))
         /\ FetchAnswered(c) => client[c].at = "fetch" /\ Moved(c, Passing(client[c]))
         /\ FetchFailed(c) =>
               /\ client[c].at = "fetch"
               /\ \/ client[c].tries + 1 < MaxAttempts /\ Moved(c, Retrying(client[c]))
                  \/ Moved(c, Passing(client[c]))
         /\ CancelLookup(c) => client[c].at = "fetch" /\ Moved(c, Free)
         /\ Hold(c) =>
               /\ client[c].at = "hold"
               /\ \/ Moved(c, Free)
                  \/ \E w \in NextPending(pool) : /\ MayRelease /\ PoolHolders = {}
                                                 /\ Moved(c, Holding(client[c], w))
         /\ Read(c) => client[c].at = "read" /\ Moved(c, Advised(client[c]))
         /\ AnswerReading(c) => client[c].at = "publish" /\ Moved(c, Free)
         /\ Save(c) => client[c].at = "save" /\ RowHolders(Op(c)) = {}
                       /\ Moved(c, Saving(client[c]))
         /\ Publish(c) => client[c].at = "publish" /\ Moved(c, Publishing(client[c]))
         /\ FailDatabase(c) => Moved(c, Free)
  <1>1. client \in [Clients -> ClientStates]
    BY DEF Typed
  <1>2. ASSUME NEW r \in Requests, Ask(c, r)
        PROVE  /\ client[c].at = "idle"
               /\ \/ FirstStep(r) = "idle" /\ Moved(c, Free)
                  \/ FirstStep(r) # "idle" /\ Moved(c, Asked(r))
    BY <1>2 DEF Ask, Moved, Asked
  <1>3. ASSUME Enter(c)
        PROVE  /\ client[c].at = "enter"
               /\ \/ Moved(c, Passing(client[c]))
                  \/ Moved(c, Fetching(client[c], breaker[DependencyOf(c)].epoch))
    BY <1>1, <1>3 DEF Enter, Goto, AfterLookup, Op, Moved, Passing, Fetching
  <1>4. FetchAnswered(c) => client[c].at = "fetch" /\ Moved(c, Passing(client[c]))
    BY <1>1 DEF FetchAnswered, Goto, AfterLookup, Op, Moved, Passing
  <1>5. ASSUME FetchFailed(c)
        PROVE  /\ client[c].at = "fetch"
               /\ \/ client[c].tries + 1 < MaxAttempts /\ Moved(c, Retrying(client[c]))
                  \/ Moved(c, Passing(client[c]))
    BY <1>1, <1>5 DEF FetchFailed, Goto, AfterLookup, Op, Moved, Passing, Retrying
  <1>6. CancelLookup(c) => client[c].at = "fetch" /\ Moved(c, Free)
    BY DEF CancelLookup, Answer, Moved
  <1>7. ASSUME Hold(c)
        PROVE  /\ client[c].at = "hold"
               /\ \/ Moved(c, Free)
                  \/ \E w \in NextPending(pool) : /\ MayRelease /\ PoolHolders = {}
                                                 /\ Moved(c, Holding(client[c], w))
    BY <1>1, <1>7 DEF Hold, Answer, Moved, Holding
  <1>8. Read(c) => client[c].at = "read" /\ Moved(c, Advised(client[c]))
    BY <1>1 DEF Read, Advise, Moved, Advised
  <1>9. AnswerReading(c) => client[c].at = "publish" /\ Moved(c, Free)
    BY DEF AnswerReading, Answer, Moved
  <1>10. Save(c) => client[c].at = "save" /\ RowHolders(Op(c)) = {} /\ Moved(c, Saving(client[c]))
    BY <1>1 DEF Save, Op, Moved, Saving
  <1>11. Publish(c) => client[c].at = "publish" /\ Moved(c, Publishing(client[c]))
    BY <1>1 DEF Publish, Moved, Publishing
  <1>12. FailDatabase(c) => Moved(c, Free)
    BY DEF FailDatabase, Answer, Moved
  <1> QED BY <1>2, <1>3, <1>4, <1>5, <1>6, <1>7, <1>8, <1>9, <1>10, <1>11, <1>12

(* What each of these leaves as it was. *)
LEMMA FieldsOf ==
  ASSUME NEW k \in ClientStates
  PROVE  /\ LET n == Passing(k)
            IN  /\ n.at = IF k.req.op = "plan" THEN "save" ELSE "publish"
                /\ n.req = k.req /\ n.unit = k.unit /\ n.id = k.id
                /\ n.seen = k.seen /\ n.advice = k.advice
         /\ \A e : LET n == Fetching(k, e)
                  IN  /\ n.at = "fetch" /\ n.req = k.req /\ n.unit = k.unit /\ n.id = k.id
                      /\ n.seen = k.seen /\ n.advice = k.advice
         /\ LET n == Retrying(k)
            IN  /\ n.at = k.at /\ n.req = k.req /\ n.unit = k.unit /\ n.id = k.id
                /\ n.seen = k.seen /\ n.advice = k.advice
         /\ \A w : LET n == Holding(k, w)
                  IN  /\ n.at = IF w \in WithSku THEN "enter" ELSE "publish"
                      /\ n.req = k.req /\ n.unit = {w} /\ n.id = k.id
                      /\ n.seen = k.seen /\ n.advice = k.advice
         /\ LET n == Advised(k)
            IN  /\ n.at = "publish" /\ n.req = k.req /\ n.unit = k.unit /\ n.id = k.id
                /\ n.seen = k.seen /\ n.advice = {Reading(pool)}
         /\ LET n == Saving(k)
            IN  /\ n.at = "publish" /\ n.req = k.req /\ n.unit = k.unit /\ n.id = k.id
                /\ n.seen = k.seen /\ n.advice = k.advice
         /\ LET n == Publishing(k)
            IN  /\ n.at = "commit" /\ n.req = k.req /\ n.unit = k.unit /\ n.id = nextId
                /\ n.seen = k.seen /\ n.advice = k.advice
  <1> USE DEF ClientStates
  <1>1. LET n == Passing(k)
        IN  /\ n.at = IF k.req.op = "plan" THEN "save" ELSE "publish"
            /\ n.req = k.req /\ n.unit = k.unit /\ n.id = k.id
            /\ n.seen = k.seen /\ n.advice = k.advice
    BY DEF Passing
  <1>2. \A e : LET n == Fetching(k, e)
              IN  /\ n.at = "fetch" /\ n.req = k.req /\ n.unit = k.unit /\ n.id = k.id
                  /\ n.seen = k.seen /\ n.advice = k.advice
    BY DEF Fetching
  <1>3. LET n == Retrying(k)
        IN  /\ n.at = k.at /\ n.req = k.req /\ n.unit = k.unit /\ n.id = k.id
            /\ n.seen = k.seen /\ n.advice = k.advice
    BY DEF Retrying
  <1>4. \A w : LET n == Holding(k, w)
              IN  /\ n.at = IF w \in WithSku THEN "enter" ELSE "publish"
                  /\ n.req = k.req /\ n.unit = {w} /\ n.id = k.id
                  /\ n.seen = k.seen /\ n.advice = k.advice
    BY DEF Holding
  <1>5. LET n == Advised(k)
        IN  /\ n.at = "publish" /\ n.req = k.req /\ n.unit = k.unit /\ n.id = k.id
            /\ n.seen = k.seen /\ n.advice = {Reading(pool)}
    BY DEF Advised
  <1>6. LET n == Saving(k)
        IN  /\ n.at = "publish" /\ n.req = k.req /\ n.unit = k.unit /\ n.id = k.id
            /\ n.seen = k.seen /\ n.advice = k.advice
    BY DEF Saving
  <1>7. LET n == Publishing(k)
        IN  /\ n.at = "commit" /\ n.req = k.req /\ n.unit = k.unit /\ n.id = nextId
            /\ n.seen = k.seen /\ n.advice = k.advice
    BY DEF Publishing
  <1> QED BY <1>1, <1>2, <1>3, <1>4, <1>5, <1>6, <1>7

(* Each of these is a state a client may be in. *)
LEMMA StatesFit ==
  ASSUME Typed, NEW k \in ClientStates, StageOK(k)
  PROVE  /\ \A r \in Requests :
               FirstStep(r) # "idle" => Asked(r) \in ClientStates /\ StageOK(Asked(r))
         /\ k.at \in {"enter", "fetch"} => Passing(k) \in ClientStates /\ StageOK(Passing(k))
         /\ \A e \in Nat : k.at = "enter" =>
               Fetching(k, e) \in ClientStates /\ StageOK(Fetching(k, e))
         /\ k.at = "fetch" /\ k.tries + 1 < MaxAttempts =>
               Retrying(k) \in ClientStates /\ StageOK(Retrying(k))
         /\ \A w \in WorkUnits : k.at = "hold" =>
               Holding(k, w) \in ClientStates /\ StageOK(Holding(k, w))
         /\ k.at = "read" => Advised(k) \in ClientStates /\ StageOK(Advised(k))
         /\ k.at = "save" => Saving(k) \in ClientStates /\ StageOK(Saving(k))
         /\ k.at = "publish" => Publishing(k) \in ClientStates /\ StageOK(Publishing(k))
  <1>1. /\ k.at \in Labels /\ k.req \in Requests \cup {NoRequest} /\ k.unit \subseteq WorkUnits
        /\ k.tries \in 0..MaxAttempts /\ k.epoch \in Nat /\ k.events \subseteq EventNames
        /\ k.id \in Nat /\ k.seen \subseteq Readings /\ k.advice \subseteq Readings
    BY DEF ClientStates
  <1>2. MaxAttempts \in Nat \ {0} /\ 0 \in 0..MaxAttempts /\ nextId \in Nat
    BY DeskAssumption DEF Typed
  <1>3. Reading(pool) \in Readings
    BY ReadingIs DEF Typed
  <1>4. ASSUME NEW r \in Requests, FirstStep(r) # "idle"
        PROVE  Asked(r) \in ClientStates /\ StageOK(Asked(r))
    <2>1. FirstStep(r) \in Labels /\ r.op \in Ops
      BY RequestIs DEF FirstStep, Labels
    <2>2. /\ FirstStep(r) \notin {"fetch", "publish", "commit"}
          /\ FirstStep(r) = "read" => r.op \in {"sample", "rebalance"}
          /\ FirstStep(r) = "hold" => r.op = "release"
          /\ FirstStep(r) = "enter" => r.op = "plan"
          /\ FirstStep(r) = "save" => r.op \in Documents
      BY <2>1, <1>4 DEF FirstStep, Ops, Documents
    <2>3. Asked(r) \in ClientStates
      BY <2>1, <1>2, <1>3, FreeIs DEF Asked, ClientStates
    <2>4. Asked(r).at = FirstStep(r) /\ Asked(r).req = r /\ Asked(r).unit = {}
      BY DEF Asked, Free
    <2> QED BY <2>1, <2>2, <2>3, <2>4, <1>4 DEF StageOK
  <1>5. ASSUME k.at \in {"enter", "fetch"}
        PROVE  Passing(k) \in ClientStates /\ StageOK(Passing(k))
    <2>1. k.req \in Requests /\ k.req.op \in {"plan", "release"}
      BY <1>5 DEF StageOK
    <2>2. Passing(k) \in ClientStates
      BY <1>1 DEF Passing, ClientStates, Labels
    <2>3. k.req.op = "plan" => Passing(k).at = "save" /\ Passing(k).unit = {}
      BY <1>1, <1>5 DEF StageOK, Passing, ClientStates
    <2>4. k.req.op = "release" => Passing(k).at = "publish" /\ Passing(k).unit # {}
                                  /\ Passing(k).events = {"WorkReleased"}
      BY <1>1, <1>5 DEF StageOK, Passing, ClientStates
    <2>5. Passing(k).req = k.req /\ Passing(k).unit = k.unit
      BY DEF Passing, ClientStates
    <2> QED BY <2>1, <2>2, <2>3, <2>4, <2>5, <1>5 DEF StageOK, Documents
  <1>6. ASSUME NEW e \in Nat, k.at = "enter"
        PROVE  Fetching(k, e) \in ClientStates /\ StageOK(Fetching(k, e))
    <2>1. Fetching(k, e) \in ClientStates
      BY <1>1, <1>2 DEF Fetching, ClientStates, Labels
    <2> QED BY <2>1, <1>6 DEF StageOK, Fetching, ClientStates
  <1>7. ASSUME k.at = "fetch", k.tries + 1 < MaxAttempts
        PROVE  Retrying(k) \in ClientStates /\ StageOK(Retrying(k))
    <2>1. Retrying(k) \in ClientStates
      BY <1>1, <1>2, <1>7 DEF Retrying, ClientStates
    <2> QED BY <2>1, <1>7 DEF StageOK, Retrying, ClientStates
  <1>8. ASSUME NEW w \in WorkUnits, k.at = "hold"
        PROVE  Holding(k, w) \in ClientStates /\ StageOK(Holding(k, w))
    <2>1. Holding(k, w) \in ClientStates
      BY <1>1 DEF Holding, ClientStates, Labels, EventNames
    <2> QED BY <2>1, <1>8 DEF StageOK, Holding, ClientStates, Documents
  <1>9. ASSUME k.at = "read"
        PROVE  Advised(k) \in ClientStates /\ StageOK(Advised(k))
    <2>1. EventsOf(k.req, Reading(pool)) \subseteq EventNames
          /\ EventsOf(k.req, Reading(pool)) \cap Documents = {}
      BY DEF EventsOf, SampleEvents, RebalanceEvents, EventNames, Documents
    <2>2. Advised(k) \in ClientStates
      BY <1>1, <1>3, <2>1 DEF Advised, ClientStates, Labels
    <2> QED BY <2>1, <2>2, <1>9 DEF StageOK, Advised, ClientStates, Documents
  <1>10. ASSUME k.at = "save"
         PROVE  Saving(k) \in ClientStates /\ StageOK(Saving(k))
    <2>1. k.req.op \in Documents /\ k.req \in Requests /\ k.unit = {}
      BY <1>10 DEF StageOK
    <2>2. Saving(k) \in ClientStates
      BY <1>1, <2>1 DEF Saving, ClientStates, Labels, EventNames
    <2> QED BY <2>1, <2>2, <1>10 DEF StageOK, Saving, ClientStates, Documents
  <1>11. ASSUME k.at = "publish"
         PROVE  Publishing(k) \in ClientStates /\ StageOK(Publishing(k))
    <2>1. Publishing(k) \in ClientStates
      BY <1>1, <1>2 DEF Publishing, ClientStates, Labels
    <2> QED BY <2>1, <1>11 DEF StageOK, Publishing, ClientStates
  <1> QED BY <1>4, <1>5, <1>6, <1>7, <1>8, <1>9, <1>10, <1>11

(* One client's new state fits in with the others'. *)
LEMMA MovedIs ==
  ASSUME Typed, Stages, NEW c \in Clients, NEW k \in ClientStates, StageOK(k), Moved(c, k)
  PROVE  /\ client' \in [Clients -> ClientStates] /\ Stages'
         /\ client'[c] = k /\ \A d \in Clients \ {c} : client'[d] = client[d]
  <1>1. client' \in [Clients -> ClientStates] /\ client'[c] = k
        /\ \A d \in Clients \ {c} : client'[d] = client[d]
    BY DEF Typed, Moved
  <1>2. \A d \in Clients : StageOK(client[d])
    BY DEF Stages
  <1>3. \A d \in Clients : StageOK(client'[d])
    BY <1>1, <1>2
  <1> QED BY <1>1, <1>3 DEF Stages

-----------------------------------------------------------------------------
(* The breakers *)

(* The calls that a breaker has admitted in its present epoch.             *)
InFlight(d) == {c \in Clients : /\ client[c].at = "fetch"
                                /\ DependencyOf(c) = d
                                /\ client[c].epoch = breaker[d].epoch}

(* The counts of a closed breaker are below what really failed, and what   *)
(* opened one that is not closed did fail.                                 *)
Counted(b, n) == IF b.state = "closed" THEN b.failed <= n /\ b.streak <= b.failed
                                       ELSE n >= FewestToTrip

BreakerOK ==
    /\ breaker \in [Dependencies -> Breakers]
    /\ \A c \in Clients : client[c].at = "fetch" =>
          client[c].epoch <= breaker[DependencyOf(c)].epoch
    /\ \A d \in Dependencies :
          /\ Cardinality(InFlight(d)) <= breaker[d].requests
          /\ Counted(breaker[d], failed[d])

(* The least number of failures is one that any trip has. *)
LEMMA TripNeeds ==
  ASSUME NEW b \in Breakers, b.streak <= b.failed, ReadyToTrip(b)
  PROVE  FewestToTrip \in Nat /\ b.failed >= FewestToTrip
  <1>1. TripStreak \in Nat /\ MinVolume \in Nat /\ b.failed \in Nat /\ b.streak \in Nat
        /\ b.requests \in Nat
    BY BreakerAssumption DEF Breakers
  <1>2. MinVolume \div 2 \in Nat /\ 2 * (MinVolume \div 2) <= MinVolume
    BY <1>1
  <1>3. CASE b.streak >= TripStreak
    BY <1>1, <1>2, <1>3 DEF FewestToTrip
  <1>4. CASE b.requests >= MinVolume /\ 2 * b.failed > b.requests
    <2>1. b.failed >= (MinVolume \div 2) + 1
      BY <1>1, <1>2, <1>4
    <2> QED BY <1>1, <1>2, <2>1 DEF FewestToTrip
  <1> QED BY <1>3, <1>4 DEF ReadyToTrip

(* The calls in flight can be counted. *)
LEMMA InFlightFinite ==
  ASSUME NEW d
  PROVE  /\ IsFiniteSet(InFlight(d)) /\ Cardinality(InFlight(d)) \in Nat
         /\ \A S \in SUBSET InFlight(d) : Cardinality(S) <= Cardinality(InFlight(d))
  <1>1. IsFiniteSet(InFlight(d))
    BY DeskAssumption, FS_Subset DEF InFlight
  <1> QED BY <1>1, FS_CardinalityType, FS_Subset

(* Steps that leave the breakers alone and let nobody in. *)
LEMMA BreakerKept ==
  ASSUME BreakerOK, UNCHANGED <<breaker, failed>>,
         \A c \in Clients : client'[c].at = "fetch" =>
             /\ client[c].at = "fetch" /\ client'[c].req = client[c].req
             /\ client'[c].epoch = client[c].epoch
  PROVE  BreakerOK'
  <1>1. ASSUME NEW d \in Dependencies
        PROVE  InFlight(d)' \subseteq InFlight(d)
    BY DEF InFlight, DependencyOf, Op
  <1>2. ASSUME NEW d \in Dependencies
        PROVE  Cardinality(InFlight(d)') <= breaker[d].requests
    <2>1. Cardinality(InFlight(d)') <= Cardinality(InFlight(d))
      BY <1>1, InFlightFinite
    <2>2. Cardinality(InFlight(d)') \in Nat /\ Cardinality(InFlight(d)) \in Nat
      BY <1>1, InFlightFinite, FS_Subset, FS_CardinalityType
    <2>3. breaker[d].requests \in Nat
      BY DEF BreakerOK, Breakers
    <2> QED BY <2>1, <2>2, <2>3 DEF BreakerOK
  <1>3. \A c \in Clients : client'[c].at = "fetch" =>
           client'[c].epoch <= breaker'[DependencyOf(c)'].epoch
    BY DEF BreakerOK, DependencyOf, Op
  <1> QED BY <1>2, <1>3 DEF BreakerOK

(* A call that is over: a new state of its breaker. *)
LEMMA BreakerLeft ==
  ASSUME Typed, BreakerOK, NEW c \in Clients, NEW d \in Dependencies, NEW b \in Breakers,
         client[c].at = "fetch", DependencyOf(c) = d, client'[c].at # "fetch",
         \A e \in Clients \ {c} : client'[e] = client[e],
         breaker' = [breaker EXCEPT ![d] = b],
         Counted(b, failed'[d]), \A e \in Dependencies \ {d} : failed'[e] = failed[e],
         \/ b.epoch = breaker[d].epoch /\ b.requests = breaker[d].requests
         \/ b.epoch > breaker[d].epoch
         \/ /\ client[c].epoch = breaker[d].epoch /\ b.epoch = breaker[d].epoch
            /\ b.requests = breaker[d].requests - 1
  PROVE  BreakerOK'
  <1>1. breaker' \in [Dependencies -> Breakers] /\ breaker'[d] = b
        /\ \A e \in Dependencies \ {d} : breaker'[e] = breaker[e]
    BY DEF BreakerOK
  <1>2. \A e \in Clients : client'[e].at = "fetch" =>
           /\ e # c /\ client[e].at = "fetch" /\ client'[e] = client[e]
           /\ DependencyOf(e)' = DependencyOf(e)
    BY DEF DependencyOf, Op
  <1>3. \A e \in Dependencies : breaker[e].epoch \in Nat /\ breaker[e].requests \in Nat
    BY DEF BreakerOK, Breakers
  <1>4. b.epoch \in Nat /\ b.requests \in Int /\ b.epoch >= breaker[d].epoch
    BY <1>3 DEF Breakers
  <1>5. \A e \in Clients : client[e].epoch \in Nat /\ DependencyOf(e) \in Dependencies
    BY DEF Typed, ClientStates, DependencyOf, Dependencies
  <1>6. \A e \in Clients : client'[e].at = "fetch" =>
           client'[e].epoch <= breaker'[DependencyOf(e)'].epoch
    BY <1>1, <1>2, <1>3, <1>4, <1>5 DEF BreakerOK
  <1>7. ASSUME NEW e \in Dependencies
        PROVE  Cardinality(InFlight(e)') <= breaker'[e].requests
    <2>0. Cardinality(InFlight(e)) \in Nat /\ Cardinality(InFlight(e)) <= breaker[e].requests
      BY InFlightFinite DEF BreakerOK
    <2>1. CASE e # d \/ (b.epoch = breaker[d].epoch /\ b.requests = breaker[d].requests)
      <3>1. InFlight(e)' \subseteq InFlight(e)
        BY <2>1, <1>1, <1>2 DEF InFlight
      <3>2. Cardinality(InFlight(e)') <= Cardinality(InFlight(e))
        BY <3>1, InFlightFinite
      <3>3. Cardinality(InFlight(e)') \in Nat
        BY <3>1, InFlightFinite, FS_Subset, FS_CardinalityType
      <3> QED BY <2>0, <2>1, <3>2, <3>3, <1>1, <1>3
    <2>2. CASE e = d /\ b.epoch > breaker[d].epoch
      <3>1. InFlight(e)' = {}
        BY <2>2, <1>1, <1>2, <1>3, <1>4, <1>5 DEF InFlight, BreakerOK
      <3>2. b.requests \in Nat
        BY DEF Breakers
      <3> QED BY <3>1, <3>2, <2>2, <1>1, FS_EmptySet
    <2>3. CASE /\ e = d /\ client[c].epoch = breaker[d].epoch /\ b.epoch = breaker[d].epoch
               /\ b.requests = breaker[d].requests - 1
      <3>1. c \in InFlight(e)
        BY <2>3 DEF InFlight
      <3>2. InFlight(e)' \subseteq InFlight(e) \ {c}
        BY <2>3, <1>1, <1>2 DEF InFlight
      <3>3. Cardinality(InFlight(e) \ {c}) = Cardinality(InFlight(e)) - 1
            /\ IsFiniteSet(InFlight(e) \ {c})
        BY <3>1, InFlightFinite, FS_RemoveElement
      <3>4. Cardinality(InFlight(e)') <= Cardinality(InFlight(e)) - 1
            /\ Cardinality(InFlight(e)') \in Nat
        BY <3>2, <3>3, FS_Subset, FS_CardinalityType
      <3> QED BY <3>4, <2>0, <2>3, <1>1, <1>3
    <2> QED BY <2>1, <2>2, <2>3
  <1>8. \A e \in Dependencies : Counted(breaker'[e], failed'[e])
    BY <1>1 DEF BreakerOK
  <1> QED BY <1>1, <1>6, <1>7, <1>8 DEF BreakerOK

(* A call that begins. *)
LEMMA BreakerEntered ==
  ASSUME Typed, Stages, BreakerOK, NEW c \in Clients, Enter(c)
  PROVE  BreakerOK'
  <1> DEFINE d == DependencyOf(c)
             k == client[c]
  <1>1. client \in [Clients -> ClientStates] /\ k \in ClientStates /\ d \in Dependencies
        /\ k.at = "enter" /\ breaker \in [Dependencies -> Breakers]
    BY DEF Typed, DependencyOf, Dependencies, Enter, BreakerOK
  <1>2. CASE Admits(breaker[d])
    <2>1. /\ breaker' = [breaker EXCEPT ![d] = Admitted(breaker[d])] /\ UNCHANGED failed
          /\ client' = [client EXCEPT ![c].at = "fetch", ![c].tries = 0,
                                      ![c].epoch = breaker[d].epoch]
      BY <1>2 DEF Enter, history
    <2>2. /\ client'[c].at = "fetch" /\ client'[c].epoch = breaker[d].epoch
          /\ client'[c].req = client[c].req
          /\ \A e \in Clients \ {c} : client'[e] = client[e]
      BY <2>1, <1>1 DEF ClientStates
    <2>3. DependencyOf(c)' = d /\ \A e \in Clients \ {c} : DependencyOf(e)' = DependencyOf(e)
      BY <2>2 DEF DependencyOf, Op
    <2>4. /\ breaker' \in [Dependencies -> Breakers]
          /\ breaker'[d].epoch = breaker[d].epoch
          /\ breaker'[d].requests = breaker[d].requests + 1
          /\ breaker'[d].failed = breaker[d].failed /\ breaker'[d].streak = breaker[d].streak
          /\ breaker'[d].state = breaker[d].state
          /\ \A e \in Dependencies \ {d} : breaker'[e] = breaker[e]
      BY <2>1, <1>1 DEF Admitted, Breakers
    <2>5. \A e \in Clients : client'[e].at = "fetch" =>
             client'[e].epoch <= breaker'[DependencyOf(e)'].epoch
      <3>1. breaker[d].epoch \in Nat
        BY <1>1 DEF Breakers
      <3>2. ASSUME NEW e \in Clients \ {c}, client'[e].at = "fetch"
            PROVE  client'[e].epoch <= breaker'[DependencyOf(e)'].epoch
        <4>1. client[e].epoch <= breaker[DependencyOf(e)].epoch
          BY <3>2, <2>2 DEF BreakerOK
        <4>2. DependencyOf(e) \in Dependencies
          BY DEF DependencyOf, Dependencies
        <4>3. breaker'[DependencyOf(e)].epoch = breaker[DependencyOf(e)].epoch
          BY <4>2, <2>4
        <4> QED BY <4>1, <4>3, <2>2, <2>3
      <3> QED BY <3>1, <3>2, <2>2, <2>3, <2>4
    <2>6. ASSUME NEW e \in Dependencies
          PROVE  Cardinality(InFlight(e)') <= breaker'[e].requests
      <3>0. Cardinality(InFlight(e)) \in Nat /\ Cardinality(InFlight(e)) <= breaker[e].requests
            /\ IsFiniteSet(InFlight(e)) /\ breaker[e].requests \in Nat
        BY <1>1, InFlightFinite DEF BreakerOK, Breakers
      <3>1. c \notin InFlight(e)
        BY <1>1 DEF InFlight
      <3>2. CASE e = d
        <4>1. InFlight(e)' = InFlight(e) \cup {c}
          BY <3>2, <1>1, <2>2, <2>3, <2>4 DEF InFlight
        <4>2. Cardinality(InFlight(e) \cup {c}) = Cardinality(InFlight(e)) + 1
          BY <3>0, <3>1, FS_AddElement
        <4> QED BY <4>1, <4>2, <3>0, <3>2, <2>4
      <3>3. CASE e # d
        <4>1. InFlight(e)' = InFlight(e)
          BY <3>3, <1>1, <2>2, <2>3, <2>4 DEF InFlight
        <4> QED BY <4>1, <3>0, <3>3, <2>4
      <3> QED BY <3>2, <3>3
    <2>7. \A e \in Dependencies : Counted(breaker'[e], failed'[e])
      BY <2>1, <2>4 DEF Counted, BreakerOK
    <2> QED BY <2>4, <2>5, <2>6, <2>7 DEF BreakerOK
  <1>3. CASE ~Admits(breaker[d])
    <2>1. UNCHANGED <<breaker, failed>> /\ Goto(c, AfterLookup(c))
      BY <1>3 DEF Enter, history
    <2>2. client'[c].at # "fetch" /\ \A e \in Clients \ {c} : client'[e] = client[e]
      BY <2>1, <1>1 DEF Goto, AfterLookup, ClientStates
    <2> QED BY <2>1, <2>2, BreakerKept
  <1> QED BY <1>2, <1>3

(* A breaker that counts one more failure. *)
LEMMA OneMore ==
  ASSUME NEW b \in Breakers
  PROVE  LET more == [b EXCEPT !.failed = @ + 1, !.streak = @ + 1]
         IN  /\ more \in Breakers /\ more.epoch = b.epoch /\ more.requests = b.requests
             /\ more.state = b.state /\ more.failed = b.failed + 1 /\ more.streak = b.streak + 1
  <1>1. b.failed + 1 \in Nat /\ b.streak + 1 \in Nat
    BY DEF Breakers
  <1> QED BY <1>1 DEF Breakers

(* A call that was answered, failed or was cancelled. *)
LEMMA BreakerReturned ==
  ASSUME Typed, Stages, BreakerOK, NEW c \in Clients,
         FetchAnswered(c) \/ FetchFailed(c) \/ CancelLookup(c)
  PROVE  BreakerOK' /\ failed' \in [Dependencies -> Nat]
  <1> DEFINE d == DependencyOf(c)
             k == client[c]
             b == breaker[d]
  <1>1. /\ client \in [Clients -> ClientStates] /\ k \in ClientStates /\ d \in Dependencies
        /\ k.at = "fetch" /\ b \in Breakers /\ k.epoch <= b.epoch /\ k.epoch \in Nat
        /\ failed \in [Dependencies -> Nat] /\ breaker \in [Dependencies -> Breakers]
    BY DEF Typed, DependencyOf, Dependencies, FetchAnswered, FetchFailed, CancelLookup,
           BreakerOK, ClientStates
  <1>2. /\ b.state \in {"closed", "halfOpen", "open"} /\ b.epoch \in Nat /\ b.requests \in Nat
        /\ b.failed \in Nat /\ b.streak \in Nat /\ failed[d] \in Nat
    BY <1>1 DEF Breakers
  <1>3. Counted(b, failed[d]) /\ Cardinality(InFlight(d)) <= b.requests
    BY <1>1 DEF BreakerOK
  <1>4. ASSUME Moved(c, Passing(k)) \/ Moved(c, Free)
        PROVE  client'[c].at # "fetch" /\ \A e \in Clients \ {c} : client'[e] = client[e]
    BY <1>1, <1>4, FreeIs DEF Moved, Passing, ClientStates
  <1>5. CASE FetchAnswered(c)
    <2> DEFINE after == Succeeded(b, k.epoch)
    <2>1. /\ breaker' = [breaker EXCEPT ![d] = after]
          /\ failed' = [failed EXCEPT ![d] = IF b.state # "closed" /\ after.state = "closed"
                                             THEN 0 ELSE @]
          /\ Moved(c, Passing(k))
      BY <1>5, StepsMove DEF FetchAnswered
    <2>2. failed' \in [Dependencies -> Nat]
      BY <2>1, <1>1
    <2>3. CASE b.epoch # k.epoch
      <3>1. after = b
        BY <2>3 DEF Succeeded
      <3>2. failed'[d] = failed[d] /\ \A e \in Dependencies \ {d} : failed'[e] = failed[e]
        BY <2>1, <3>1, <1>1
      <3> HIDE DEF after
      <3> QED BY <3>1, <3>2, <1>1, <1>3, <1>4, <2>1, <2>2, BreakerLeft
    <2>4. CASE b.epoch = k.epoch /\ b.state = "halfOpen"
      <3>1. after = Fresh("closed", k.epoch + 1)
        BY <2>4 DEF Succeeded
      <3>2. after \in Breakers /\ after.epoch > b.epoch /\ after.state = "closed"
            /\ after.failed = 0 /\ after.streak = 0
        BY <3>1, <2>4, <1>2 DEF Fresh, Breakers
      <3>3. failed'[d] = 0 /\ \A e \in Dependencies \ {d} : failed'[e] = failed[e]
        BY <2>1, <3>2, <2>4, <1>1
      <3>4. Counted(after, failed'[d])
        BY <3>2, <3>3 DEF Counted
      <3> HIDE DEF after
      <3> QED BY <3>2, <3>3, <3>4, <1>1, <1>4, <2>1, <2>2, BreakerLeft
    <2>5. CASE b.epoch = k.epoch /\ b.state # "halfOpen"
      <3>1. after = [b EXCEPT !.streak = 0]
        BY <2>5 DEF Succeeded
      <3>2. after \in Breakers /\ after.epoch = b.epoch /\ after.requests = b.requests
            /\ after.state = b.state /\ after.failed = b.failed /\ after.streak = 0
        BY <3>1, <1>1 DEF Breakers
      <3>3. failed'[d] = failed[d] /\ \A e \in Dependencies \ {d} : failed'[e] = failed[e]
        BY <2>1, <3>2, <1>1
      <3>4. Counted(after, failed'[d])
        BY <3>2, <3>3, <1>2, <1>3 DEF Counted
      <3> HIDE DEF after
      <3> QED BY <3>2, <3>3, <3>4, <1>1, <1>4, <2>1, <2>2, BreakerLeft
    <2> QED BY <2>3, <2>4, <2>5
  <1>6. CASE FetchFailed(c)
    <2>1. CASE client' = [client EXCEPT ![c].tries = @ + 1] /\ UNCHANGED <<breaker, failed>>
      <3>1. /\ client'[c].req = k.req /\ client'[c].epoch = k.epoch
            /\ \A e \in Clients \ {c} : client'[e] = client[e]
        BY <2>1, <1>1 DEF ClientStates
      <3> QED BY <2>1, <3>1, <1>1, BreakerKept
    <2>2. CASE LookupFailed(c) /\ Goto(c, AfterLookup(c))
      <3> DEFINE after == Failed(b, k.epoch)
                 more == [b EXCEPT !.failed = @ + 1, !.streak = @ + 1]
      <3>1. /\ breaker' = [breaker EXCEPT ![d] = after]
            /\ failed' = [failed EXCEPT ![d] = @ + 1]
            /\ Moved(c, Passing(k))
        BY <2>2, <1>1 DEF LookupFailed, Goto, Moved, Passing, AfterLookup, Op
      <3>2. failed' \in [Dependencies -> Nat] /\ failed'[d] = failed[d] + 1
            /\ \A e \in Dependencies \ {d} : failed'[e] = failed[e]
        BY <3>1, <1>1
      <3>3. more \in Breakers /\ more.epoch = b.epoch /\ more.requests = b.requests
            /\ more.state = b.state /\ more.failed = b.failed + 1 /\ more.streak = b.streak + 1
        BY <1>1, OneMore
      <3>4. CASE b.epoch # k.epoch
        <4>1. after = b
          BY <3>4 DEF Failed
        <4>2. FewestToTrip \in Nat
          BY BreakerAssumption DEF FewestToTrip
        <4>3. Counted(b, failed'[d])
          BY <3>2, <4>2, <1>2, <1>3 DEF Counted
        <4> HIDE DEF after
        <4> QED BY <4>1, <4>3, <3>1, <3>2, <1>1, <1>4, BreakerLeft
      <3>5. CASE b.epoch = k.epoch /\ (b.state = "halfOpen" \/ ReadyToTrip(more))
        <4>1. after = Fresh("open", k.epoch + 1)
          BY <3>5 DEF Failed
        <4>2. after \in Breakers /\ after.epoch > b.epoch /\ after.state = "open"
          BY <4>1, <3>5, <1>2 DEF Fresh, Breakers
        <4>3. FewestToTrip \in Nat
          BY BreakerAssumption DEF FewestToTrip
        <4>4. failed'[d] >= FewestToTrip
          <5>1. CASE b.state # "closed"
            BY <5>1, <4>3, <3>2, <1>2, <1>3 DEF Counted
          <5>2. CASE b.state = "closed"
            <6>1. b.failed <= failed[d] /\ b.streak <= b.failed
              BY <5>2, <1>3 DEF Counted
            <6>2. more.streak <= more.failed /\ ReadyToTrip(more)
              BY <6>1, <5>2, <3>3, <3>5, <1>2
            <6> HIDE DEF more
            <6>3. more.failed >= FewestToTrip
              BY <6>2, <3>3, TripNeeds
            <6> QED BY <6>1, <6>3, <4>3, <3>2, <3>3, <1>2
          <5> QED BY <5>1, <5>2
        <4>5. Counted(after, failed'[d])
          BY <4>2, <4>4 DEF Counted
        <4> HIDE DEF after
        <4> QED BY <4>2, <4>5, <3>1, <3>2, <1>1, <1>4, BreakerLeft
      <3>6. CASE b.epoch = k.epoch /\ b.state # "halfOpen" /\ ~ReadyToTrip(more)
        <4>1. after = more
          BY <3>6 DEF Failed
        <4>2. FewestToTrip \in Nat
          BY BreakerAssumption DEF FewestToTrip
        <4>3. Counted(more, failed'[d])
          BY <3>2, <3>3, <4>2, <1>2, <1>3 DEF Counted
        <4> HIDE DEF after, more
        <4> QED BY <4>1, <4>3, <3>3, <3>1, <3>2, <1>1, <1>4, BreakerLeft
      <3> QED BY <3>4, <3>5, <3>6
    <2> QED BY <1>6, <2>1, <2>2 DEF FetchFailed
  <1>7. CASE CancelLookup(c)
    <2>1. PICK after \in Excluded(b, k.epoch) : breaker' = [breaker EXCEPT ![d] = after]
      BY <1>7 DEF CancelLookup
    <2>2. Moved(c, Free) /\ UNCHANGED failed
      BY <1>7, StepsMove DEF CancelLookup, history
    <2>3. CASE after = b
      BY <2>1, <2>2, <2>3, <1>1, <1>3, <1>4, BreakerLeft
    <2>4. CASE after = [b EXCEPT !.requests = @ - 1] /\ b.epoch = k.epoch
      <3>1. c \in InFlight(d)
        BY <2>4, <1>1 DEF InFlight
      <3>2. Cardinality(InFlight(d)) \in Nat /\ Cardinality(InFlight(d)) # 0
        BY <3>1, InFlightFinite, FS_EmptySet
      <3>3. b.requests - 1 \in Nat
        BY <3>2, <1>2, <1>3
      <3>4. after \in Breakers /\ after.epoch = b.epoch /\ after.requests = b.requests - 1
            /\ after.state = b.state /\ after.failed = b.failed /\ after.streak = b.streak
        BY <2>4, <3>3, <1>1 DEF Breakers
      <3>5. Counted(after, failed[d])
        BY <3>4, <1>3 DEF Counted
      <3> QED BY <2>1, <2>2, <2>4, <3>4, <3>5, <1>1, <1>4, BreakerLeft
    <2> QED BY <2>1, <2>3, <2>4 DEF Excluded
  <1> QED BY <1>5, <1>6, <1>7

(* The readings that the open requests add to what they have seen change   *)
(* nothing else.                                                           *)
LEMMA WitnessedIs ==
  ASSUME NEW clients \in [Clients -> ClientStates], NEW entries \in Pools,
         \A c \in Clients : StageOK(clients[c])
  PROVE  /\ Witnessed(clients, entries) \in [Clients -> ClientStates]
         /\ \A c \in Clients : StageOK(Witnessed(clients, entries)[c])
         /\ \A c \in Clients :
               LET k == clients[c]
                   n == Witnessed(clients, entries)[c]
               IN  /\ n.at = k.at /\ n.req = k.req /\ n.unit = k.unit /\ n.epoch = k.epoch
                   /\ n.events = k.events /\ n.id = k.id /\ n.advice = k.advice
                   /\ k.at = "idle" => n = k
                   /\ k.at # "idle" => n.seen = k.seen \cup {Reading(entries)}
  <1>1. Reading(entries) \in Readings
    BY ReadingIs
  <1>2. ASSUME NEW c \in Clients
        PROVE  LET k == clients[c]
                   n == Witnessed(clients, entries)[c]
               IN  /\ n \in ClientStates
                   /\ n.at = k.at /\ n.req = k.req /\ n.unit = k.unit /\ n.epoch = k.epoch
                   /\ n.events = k.events /\ n.id = k.id /\ n.advice = k.advice
                   /\ k.at = "idle" => n = k
                   /\ k.at # "idle" => n.seen = k.seen \cup {Reading(entries)}
    <2> DEFINE k == clients[c]
               n == Witnessed(clients, entries)[c]
    <2>1. k \in ClientStates
      OBVIOUS
    <2>2. n = IF k.at = "idle" THEN k ELSE [k EXCEPT !.seen = @ \cup {Reading(entries)}]
      BY DEF Witnessed
    <2> HIDE DEF k, n
    <2>3. CASE k.at = "idle"
      BY <2>1, <2>2, <2>3 DEF k, n
    <2>4. CASE k.at # "idle"
      BY <2>1, <2>2, <2>4, <1>1 DEF ClientStates, k, n
    <2> QED BY <2>3, <2>4
  <1>3. Witnessed(clients, entries) \in [Clients -> ClientStates]
    BY <1>2, Zenon DEF Witnessed
  <1>4. ASSUME NEW c \in Clients
        PROVE  StageOK(Witnessed(clients, entries)[c])
    BY <1>2 DEF StageOK
  <1> QED BY <1>2, <1>3, <1>4

(* Steps of one client that leave the database alone. *)
LEMMA DatabaseKept ==
  ASSUME Typed, Stages, UNCHANGED <<mode, pool, stored, outbox>>, nextId' \in Nat,
         failed' \in [Dependencies -> Nat],
         NEW c \in Clients, NEW k \in ClientStates, StageOK(k), Moved(c, k)
  PROVE  Typed' /\ Stages'
  BY MovedIs DEF Typed

(* What a commit and a completion do to the pool and the clients. *)
LEMMA CommitIs ==
  ASSUME Typed, Stages, NEW c \in Clients, CommitTx(c)
  PROVE  /\ Typed' /\ Stages' /\ UNCHANGED <<mode, nextId, breaker, failed>>
         /\ pool' \in Pools
         /\ client' = Witnessed([client EXCEPT ![c] = Free], pool')
         /\ [client EXCEPT ![c] = Free] \in [Clients -> ClientStates]
         /\ \A d \in Clients : StageOK([client EXCEPT ![c] = Free][d])
  <1> DEFINE me == client[c]
  <1>1. /\ me \in ClientStates /\ StageOK(me) /\ me.at = "commit" /\ me.req \in Requests
        /\ client \in [Clients -> ClientStates]
    BY DEF Typed, Stages, CommitTx, StageOK
  <1>2. pool' \in Pools
    BY DEF CommitTx, Typed, Pools, EntryStates
  <1>3. /\ stored' = [doc \in Documents |-> IF doc = Op(c) THEN me.req ELSE stored[doc]]
        /\ outbox' = outbox \cup {[id |-> me.id, type |-> me.events, says |-> me.req]}
        /\ client' = Witnessed([client EXCEPT ![c] = Free], pool')
        /\ UNCHANGED <<mode, nextId, breaker, failed>>
    BY DEF CommitTx, history
  <1>4. stored' \in [Documents -> Requests \cup {NoRequest}]
    BY <1>1, <1>3 DEF Typed
  <1>5. outbox' \subseteq [id : Nat, type : SUBSET EventNames, says : Requests]
    BY <1>1, <1>3 DEF Typed, ClientStates
  <1>6. /\ [client EXCEPT ![c] = Free] \in [Clients -> ClientStates]
        /\ \A d \in Clients : StageOK([client EXCEPT ![c] = Free][d])
    BY <1>1, FreeIs DEF Stages
  <1>7. client' \in [Clients -> ClientStates] /\ Stages'
    BY <1>2, <1>3, <1>6, WitnessedIs DEF Stages
  <1> QED BY <1>2, <1>3, <1>4, <1>5, <1>6, <1>7 DEF Typed

(* What a completion does. *)
LEMMA OtherWorkIs ==
  ASSUME Typed, Stages, NEW w \in WorkUnits, OtherWork(w)
  PROVE  /\ Typed' /\ Stages' /\ UNCHANGED <<mode, stored, outbox, nextId, breaker, failed>>
         /\ client' = Witnessed(client, pool') /\ PoolHolders = {}
         /\ pool[w] = "released" /\ pool' = [pool EXCEPT ![w] = "completed"] /\ pool' \in Pools
  <1>1. /\ UNCHANGED <<mode, stored, outbox, nextId, breaker, failed>>
        /\ client' = Witnessed(client, pool') /\ PoolHolders = {}
        /\ pool[w] = "released" /\ pool' = [pool EXCEPT ![w] = "completed"]
    BY DEF OtherWork, history
  <1>2. pool' \in Pools
    BY <1>1 DEF Typed, Pools, EntryStates
  <1>3. client \in [Clients -> ClientStates] /\ \A c \in Clients : StageOK(client[c])
    BY DEF Typed, Stages
  <1>4. client' \in [Clients -> ClientStates] /\ Stages'
    BY <1>1, <1>2, <1>3, WitnessedIs DEF Stages
  <1> QED BY <1>1, <1>2, <1>4 DEF Typed

(* Each step keeps the types and the breakers' counts. *)
LEMMA BaseStep ==
  Typed /\ Stages /\ BreakerOK /\ [Next]_vars => Typed' /\ Stages' /\ BreakerOK'
  <1> SUFFICES ASSUME Typed, Stages, BreakerOK, [Next]_vars
               PROVE  Typed' /\ Stages' /\ BreakerOK'
    OBVIOUS
  <1>0. /\ client \in [Clients -> ClientStates] /\ \A c \in Clients : StageOK(client[c])
        /\ nextId \in Nat /\ failed \in [Dependencies -> Nat]
    BY DEF Typed, Stages
  <1>1. ASSUME NEW c \in Clients, NEW k \in ClientStates, StageOK(k), Moved(c, k),
               k.at # "fetch", UNCHANGED <<mode, pool, stored, outbox, breaker, failed>>,
               nextId' \in Nat
        PROVE  Typed' /\ Stages' /\ BreakerOK'
    <2>1. Typed' /\ Stages'
      BY <1>0, <1>1, DatabaseKept
    <2>2. BreakerOK'
      BY <1>1, MovedIs, BreakerKept
    <2> QED BY <2>1, <2>2
  <1>2. ASSUME NEW c \in Clients, NEW r \in Requests, Ask(c, r)
        PROVE  Typed' /\ Stages' /\ BreakerOK'
    <2>1. UNCHANGED <<mode, pool, stored, outbox, breaker, failed, nextId>>
      BY <1>2 DEF Ask, database
    <2>2. CASE Moved(c, Free)
      BY <2>1, <2>2, <1>0, <1>1, FreeIs
    <2>3. CASE FirstStep(r) # "idle" /\ Moved(c, Asked(r))
      <3>1. Asked(r) \in ClientStates /\ StageOK(Asked(r))
        BY <2>3, <1>0, StatesFit
      <3>2. Asked(r).at # "fetch"
        BY DEF Asked, Free, FirstStep
      <3> QED BY <2>1, <2>3, <3>1, <3>2, <1>0, <1>1
    <2> QED BY <1>2, <2>2, <2>3, StepsMove
  <1>3. ASSUME NEW c \in Clients, Enter(c)
        PROVE  Typed' /\ Stages' /\ BreakerOK'
    <2>1. UNCHANGED <<mode, pool, stored, outbox, nextId, failed>> /\ client[c].at = "enter"
      BY <1>3 DEF Enter, database, history
    <2>2. breaker[DependencyOf(c)].epoch \in Nat
      BY DEF BreakerOK, Breakers, DependencyOf, Dependencies
    <2>3. PICK k \in ClientStates : StageOK(k) /\ Moved(c, k)
      BY <1>3, <2>1, <2>2, <1>0, StepsMove, StatesFit
    <2>4. Typed' /\ Stages'
      BY <2>1, <2>3, <1>0, DatabaseKept
    <2> QED BY <2>4, <1>3, BreakerEntered
  <1>4. ASSUME NEW c \in Clients, FetchAnswered(c) \/ FetchFailed(c) \/ CancelLookup(c)
        PROVE  Typed' /\ Stages' /\ BreakerOK'
    <2>1. UNCHANGED <<mode, pool, stored, outbox, nextId>> /\ client[c].at = "fetch"
      BY <1>4 DEF FetchAnswered, FetchFailed, CancelLookup, database
    <2>2. PICK k \in ClientStates : StageOK(k) /\ Moved(c, k)
      BY <1>4, <2>1, <1>0, StepsMove, StatesFit, FreeIs
    <2>3. BreakerOK' /\ failed' \in [Dependencies -> Nat]
      BY <1>4, BreakerReturned
    <2> QED BY <2>1, <2>2, <2>3, <1>0, DatabaseKept
  <1>5. ASSUME NEW c \in Clients, Hold(c)
        PROVE  Typed' /\ Stages' /\ BreakerOK'
    <2>1. UNCHANGED <<mode, pool, stored, outbox, breaker, failed, nextId>>
      BY <1>5 DEF Hold, database, history
    <2>2. CASE Moved(c, Free)
      BY <2>1, <2>2, <1>0, <1>1, FreeIs
    <2>3. ASSUME NEW w \in NextPending(pool), Moved(c, Holding(client[c], w))
          PROVE  Typed' /\ Stages' /\ BreakerOK'
      <3>1. w \in WorkUnits /\ client[c].at = "hold"
        BY <1>5 DEF NextPending, Pending, Hold
      <3>2. Holding(client[c], w) \in ClientStates /\ StageOK(Holding(client[c], w))
        BY <3>1, <1>0, StatesFit
      <3>3. Holding(client[c], w).at # "fetch"
        BY <1>0 DEF Holding, ClientStates
      <3> QED BY <2>1, <2>3, <3>2, <3>3, <1>0, <1>1
    <2> QED BY <1>5, <2>2, <2>3, StepsMove
  <1>6. ASSUME NEW c \in Clients, Read(c) \/ AnswerReading(c) \/ Save(c) \/ FailDatabase(c)
        PROVE  Typed' /\ Stages' /\ BreakerOK'
    <2>1. UNCHANGED <<mode, pool, stored, outbox, breaker, failed, nextId>>
      BY <1>6 DEF Read, AnswerReading, Save, FailDatabase, database, history
    <2>2. CASE Moved(c, Free)
      BY <2>1, <2>2, <1>0, <1>1, FreeIs
    <2>3. CASE client[c].at = "read" /\ Moved(c, Advised(client[c]))
      <3>1. Advised(client[c]) \in ClientStates /\ StageOK(Advised(client[c]))
        BY <2>3, <1>0, StatesFit
      <3>2. Advised(client[c]).at # "fetch"
        BY <1>0, FieldsOf
      <3> QED BY <2>1, <2>3, <3>1, <3>2, <1>0, <1>1
    <2>4. CASE client[c].at = "save" /\ Moved(c, Saving(client[c]))
      <3>1. Saving(client[c]) \in ClientStates /\ StageOK(Saving(client[c]))
        BY <2>4, <1>0, StatesFit
      <3>2. Saving(client[c]).at # "fetch"
        BY <1>0, FieldsOf
      <3> QED BY <2>1, <2>4, <3>1, <3>2, <1>0, <1>1
    <2> QED BY <1>6, <2>2, <2>3, <2>4, StepsMove
  <1>7. ASSUME NEW c \in Clients, Publish(c)
        PROVE  Typed' /\ Stages' /\ BreakerOK'
    <2>1. UNCHANGED <<mode, pool, stored, outbox, breaker, failed>> /\ nextId' \in Nat
      BY <1>7, <1>0 DEF Publish, history
    <2>2. client[c].at = "publish" /\ Moved(c, Publishing(client[c]))
      BY <1>7, StepsMove
    <2>3. Publishing(client[c]) \in ClientStates /\ StageOK(Publishing(client[c]))
      BY <2>2, <1>0, StatesFit
    <2>4. Publishing(client[c]).at # "fetch"
      BY <1>0, FieldsOf
    <2> QED BY <2>1, <2>2, <2>3, <2>4, <1>1
  <1>8. ASSUME NEW c \in Clients, CommitTx(c)
        PROVE  Typed' /\ Stages' /\ BreakerOK'
    <2>1. Typed' /\ Stages' /\ UNCHANGED <<breaker, failed>>
      BY <1>8, CommitIs
    <2>2. \A d \in Clients : client'[d].at = "fetch" =>
             /\ client[d].at = "fetch" /\ client'[d].req = client[d].req
             /\ client'[d].epoch = client[d].epoch
      <3> DEFINE cs == [client EXCEPT ![c] = Free]
      <3>1. /\ client' = Witnessed(cs, pool') /\ pool' \in Pools
            /\ cs \in [Clients -> ClientStates] /\ \A d \in Clients : StageOK(cs[d])
        BY <1>8, CommitIs
      <3>2. \A d \in Clients : client'[d].at = cs[d].at /\ client'[d].req = cs[d].req
                               /\ client'[d].epoch = cs[d].epoch
        <4> HIDE DEF cs
        <4> QED BY <3>1, WitnessedIs
      <3>3. \A d \in Clients : cs[d] = IF d = c THEN Free ELSE client[d]
        BY <1>0
      <3> QED BY <3>2, <3>3, FreeIs
    <2> QED BY <2>1, <2>2, BreakerKept
  <1>9. ASSUME NEW w \in WorkUnits, OtherWork(w)
        PROVE  Typed' /\ Stages' /\ BreakerOK'
    <2>1. Typed' /\ Stages' /\ UNCHANGED <<breaker, failed>>
          /\ client' = Witnessed(client, pool') /\ pool' \in Pools
      BY <1>9, OtherWorkIs
    <2>2. \A d \in Clients : client'[d].at = client[d].at /\ client'[d].req = client[d].req
                             /\ client'[d].epoch = client[d].epoch
      BY <2>1, <1>0, WitnessedIs
    <2> QED BY <2>1, <2>2, BreakerKept
  <1>10. ASSUME NEW d \in Dependencies, TimerEnds(d)
         PROVE  Typed' /\ Stages' /\ BreakerOK'
    <2> DEFINE b == breaker[d]
               after == IF b.state = "open" THEN CooledDown(b) ELSE WindowEnded(b)
    <2>1. /\ UNCHANGED <<mode, pool, stored, outbox, nextId, client, failed>>
          /\ breaker' = [breaker EXCEPT ![d] = after] /\ b.state # "halfOpen"
      BY <1>10 DEF TimerEnds, database
    <2>2. breaker \in [Dependencies -> Breakers] /\ b \in Breakers /\ b.epoch \in Nat
          /\ failed[d] \in Nat /\ Counted(b, failed[d])
      BY <1>0 DEF BreakerOK, Breakers
    <2>3. after \in Breakers /\ after.epoch = b.epoch + 1 /\ after.failed = 0 /\ after.streak = 0
          /\ after.requests = 0 /\ after.state = IF b.state = "open" THEN "halfOpen" ELSE "closed"
      BY <2>2 DEF CooledDown, WindowEnded, Fresh, Breakers
    <2>4. b.state \in {"closed", "open"}
      BY <2>1, <2>2 DEF Breakers
    <2>5. Counted(after, failed[d])
      BY <2>2, <2>3, <2>4 DEF Counted
    <2> HIDE DEF after
    <2>6. breaker' \in [Dependencies -> Breakers] /\ breaker'[d] = after
          /\ \A e \in Dependencies \ {d} : breaker'[e] = breaker[e]
      BY <2>1, <2>2, <2>3
    <2>7. \A c \in Clients : /\ DependencyOf(c)' = DependencyOf(c)
                             /\ client[c].epoch \in Nat /\ DependencyOf(c) \in Dependencies
      BY <2>1, <1>0 DEF DependencyOf, Op, Dependencies, ClientStates
    <2>8. \A e \in Dependencies : breaker[e].epoch \in Nat
      BY <2>2 DEF Breakers
    <2>9. \A c \in Clients : client'[c].at = "fetch" =>
             client'[c].epoch <= breaker'[DependencyOf(c)'].epoch
      BY <2>1, <2>3, <2>6, <2>7, <2>8 DEF BreakerOK
    <2>10. InFlight(d)' = {}
      BY <2>1, <2>3, <2>6, <2>7, <2>8 DEF InFlight, BreakerOK
    <2>11. ASSUME NEW e \in Dependencies \ {d}
           PROVE  InFlight(e)' = InFlight(e)
      BY <2>1, <2>6, <2>7 DEF InFlight
    <2>12. ASSUME NEW e \in Dependencies
           PROVE  Cardinality(InFlight(e)') <= breaker'[e].requests /\ Counted(breaker'[e], failed'[e])
      <3>1. CASE e = d
        BY <3>1, <2>1, <2>3, <2>5, <2>6, <2>10, FS_EmptySet
      <3>2. CASE e # d
        BY <3>2, <2>1, <2>6, <2>11 DEF BreakerOK
      <3> QED BY <3>1, <3>2
    <2>13. BreakerOK'
      BY <2>6, <2>9, <2>12 DEF BreakerOK
    <2> QED BY <2>1, <2>13 DEF Typed, Stages
  <1>11. CASE UNCHANGED vars
    <2>1. UNCHANGED <<mode, pool, stored, outbox, nextId, client, failed, breaker>>
      BY <1>11 DEF vars, database, history
    <2>2. BreakerOK'
      BY <2>1, BreakerKept
    <2> QED BY <2>1, <2>2 DEF Typed, Stages
  <1> QED
    BY <1>2, <1>3, <1>4, <1>5, <1>6, <1>7, <1>8, <1>9, <1>10, <1>11 DEF Next, Serve

(* The base of all that follows. *)
Base == Typed /\ Stages /\ BreakerOK

(* At first every breaker is closed and no call is in flight. *)
LEMMA BaseInit == Init => Base
  <1> SUFFICES ASSUME Init
               PROVE  Base
    OBVIOUS
  <1>1. Typed /\ Stages
    BY FreeIs DEF Init, Typed, Stages, Pools, EntryStates
  <1>2. breaker \in [Dependencies -> Breakers] /\ \A d \in Dependencies : breaker[d] = NewBreaker
    BY DEF Init, NewBreaker, Fresh, Breakers
  <1>3. \A c \in Clients : client[c].at # "fetch"
    BY DEF Init, Free
  <1>4. \A d \in Dependencies : InFlight(d) = {}
    BY <1>3 DEF InFlight
  <1>5. \A d \in Dependencies : breaker[d].requests = 0 /\ Counted(breaker[d], failed[d])
    BY <1>2 DEF Init, NewBreaker, Fresh, Counted
  <1>6. BreakerOK
    BY <1>2, <1>3, <1>4, <1>5, FS_EmptySet DEF BreakerOK
  <1> QED BY <1>1, <1>6 DEF Base

(* A breaker opens only for failed lookups of its own dependency, as many  *)
(* as the trip condition needs, a lookup's retries counted once, for any   *)
(* trip condition and any order of calls, answers, windows and cool-downs. *)
THEOREM OpensForItsOwnFailuresHolds == Spec => []OpensForItsOwnFailures
  <1>1. Base /\ [Next]_vars => Base'
    BY BaseStep DEF Base
  <1>2. Base => OpensForItsOwnFailures
    BY DEF Base, BreakerOK, Counted, OpensForItsOwnFailures
  <1> QED BY <1>1, <1>2, BaseInit, PTL DEF Spec

-----------------------------------------------------------------------------
(* The pool *)

(* One release at a time has a unit, which is still waiting in the pool;   *)
(* and with it the limit is not passed.                                    *)
WorkOK ==
    /\ \A c, d \in Clients : client[c].unit # {} /\ client[d].unit # {} => c = d
    /\ \A c \in Clients : client[c].unit \subseteq Pending(pool)
    /\ mode = "ReleaseFed" =>
          WIP(pool) <= WipLimit /\ (PoolHolders # {} => WIP(pool) < WipLimit)

(* Steps that leave the pool alone and take no unit. *)
LEMMA WorkKept ==
  ASSUME WorkOK, UNCHANGED <<mode, pool>>,
         \A c \in Clients : client'[c].unit \in {{}, client[c].unit}
  PROVE  WorkOK'
  <1>1. PoolHolders' \subseteq PoolHolders
    BY DEF PoolHolders
  <1> QED BY <1>1 DEF WorkOK

(* Each step keeps one release at a time and the limit. *)
LEMMA WorkStep ==
  Base /\ WorkOK /\ [Next]_vars => WorkOK'
  <1> SUFFICES ASSUME Base, WorkOK, [Next]_vars
               PROVE  WorkOK'
    OBVIOUS
  <1>0. /\ client \in [Clients -> ClientStates] /\ \A c \in Clients : StageOK(client[c])
        /\ pool \in Pools /\ Typed /\ Stages /\ WipLimit \in Nat
    BY PoolAssumption DEF Typed, Stages, Base
  <1>1. ASSUME NEW c \in Clients, NEW k, Moved(c, k), k.unit \in {{}, client[c].unit},
               UNCHANGED <<mode, pool>>
        PROVE  WorkOK'
    <2>1. \A d \in Clients : client'[d] = IF d = c THEN k ELSE client[d]
      BY <1>0, <1>1 DEF Moved
    <2> QED BY <1>1, <2>1, WorkKept
  <1>2. ASSUME NEW c \in Clients, NEW r \in Requests, Ask(c, r)
        PROVE  WorkOK'
    <2>1. UNCHANGED <<mode, pool>> /\ (Moved(c, Free) \/ Moved(c, Asked(r)))
      BY <1>0, <1>2, StepsMove DEF Ask, database
    <2>2. Asked(r).unit = {} /\ Free.unit = {}
      BY DEF Asked, Free
    <2> QED BY <2>1, <2>2, <1>1
  <1>3. ASSUME NEW c \in Clients, Enter(c)
        PROVE  WorkOK'
    <2>1. UNCHANGED <<mode, pool>>
      BY <1>3 DEF Enter, database
    <2>2. \/ Moved(c, Passing(client[c]))
          \/ Moved(c, Fetching(client[c], breaker[DependencyOf(c)].epoch))
      BY <1>0, <1>3, StepsMove
    <2> QED BY <2>1, <2>2, <1>0, <1>1, FieldsOf
  <1>4. ASSUME NEW c \in Clients, FetchAnswered(c) \/ FetchFailed(c) \/ CancelLookup(c)
        PROVE  WorkOK'
    <2>1. UNCHANGED <<mode, pool>>
      BY <1>4 DEF FetchAnswered, FetchFailed, CancelLookup, database
    <2>2. Moved(c, Passing(client[c])) \/ Moved(c, Retrying(client[c])) \/ Moved(c, Free)
      BY <1>0, <1>4, StepsMove
    <2> QED BY <2>1, <2>2, <1>0, <1>1, FieldsOf, FreeIs
  <1>5. ASSUME NEW c \in Clients, Hold(c)
        PROVE  WorkOK'
    <2>1. UNCHANGED <<mode, pool>>
      BY <1>5 DEF Hold, database
    <2>2. CASE Moved(c, Free)
      BY <2>1, <2>2, <1>1, FreeIs
    <2>3. ASSUME NEW w \in NextPending(pool), MayRelease, PoolHolders = {},
                 Moved(c, Holding(client[c], w))
          PROVE  WorkOK'
      <3>1. Holding(client[c], w).unit = {w}
        BY <1>0, FieldsOf
      <3>2. \A d \in Clients : client'[d].unit = IF d = c THEN {w} ELSE {}
        BY <2>3, <3>1, <1>0 DEF Moved, PoolHolders
      <3>3. w \in Pending(pool)
        BY DEF NextPending
      <3>4. mode = "ReleaseFed" => WIP(pool) < WipLimit
        BY <2>3 DEF MayRelease
      <3>5. WIP(pool) \in Nat
        BY <1>0, ReadingIs
      <3> QED BY <3>2, <3>3, <3>4, <3>5, <2>1, <1>0 DEF WorkOK
    <2> QED BY <1>0, <1>5, <2>2, <2>3, StepsMove
  <1>6. ASSUME NEW c \in Clients,
               Read(c) \/ AnswerReading(c) \/ Save(c) \/ Publish(c) \/ FailDatabase(c)
        PROVE  WorkOK'
    <2>1. UNCHANGED <<mode, pool>>
      BY <1>6 DEF Read, AnswerReading, Save, Publish, FailDatabase, database
    <2>2. \/ Moved(c, Advised(client[c])) \/ Moved(c, Saving(client[c]))
          \/ Moved(c, Publishing(client[c])) \/ Moved(c, Free)
      BY <1>0, <1>6, StepsMove
    <2> QED BY <2>1, <2>2, <1>0, <1>1, FieldsOf, FreeIs
  <1>7. ASSUME NEW c \in Clients, CommitTx(c)
        PROVE  WorkOK'
    <2> DEFINE cs == [client EXCEPT ![c] = Free]
    <2>1. /\ UNCHANGED mode /\ client' = Witnessed(cs, pool') /\ pool' \in Pools
          /\ cs \in [Clients -> ClientStates] /\ \A d \in Clients : StageOK(cs[d])
      BY <1>0, <1>7, CommitIs
    <2>2. \A d \in Clients : client'[d].unit = cs[d].unit
      <3> HIDE DEF cs
      <3> QED BY <2>1, WitnessedIs
    <2>3. \A d \in Clients : client'[d].unit = IF d = c THEN {} ELSE client[d].unit
      BY <2>2, <1>0, FreeIs
    <2>4. client[c].at = "commit" /\ StageOK(client[c]) /\ client[c].unit \subseteq Pending(pool)
      BY <1>0, <1>7 DEF CommitTx, WorkOK
    <2>5. CASE Op(c) # "release"
      <3>1. pool' = pool
        BY <2>5, <1>7 DEF CommitTx
      <3> QED BY <2>1, <2>3, <3>1, WorkKept
    <2>6. CASE Op(c) = "release"
      <3>1. PICK w \in WorkUnits : client[c].unit = {w}
        BY <2>4, <2>6 DEF StageOK, Op
      <3>2. w \in Pending(pool) /\ \A d \in Clients : d # c => client[d].unit = {}
        BY <2>4, <3>1 DEF WorkOK
      <3>3. \A d \in Clients : client'[d].unit = {}
        BY <2>3, <3>2
      <3>4. PoolHolders' = {}
        BY <3>3 DEF PoolHolders
      <3>5. pool' = [v \in WorkUnits |-> IF v \in {w} THEN "released" ELSE pool[v]]
        BY <2>6, <3>1, <1>7 DEF CommitTx
      <3>6. Outstanding(pool') = Outstanding(pool) \cup {w} /\ w \notin Outstanding(pool)
        BY <3>2, <3>5 DEF Outstanding, Pending
      <3>7. WIP(pool') = WIP(pool) + 1 /\ WIP(pool) \in Nat
        BY <3>6, <1>0, ReadingIs, FS_AddElement DEF WIP
      <3>8. c \in PoolHolders
        BY <3>1 DEF PoolHolders
      <3>9. mode = "ReleaseFed" => WIP(pool') <= WipLimit
        BY <3>7, <3>8, <1>0 DEF WorkOK
      <3> QED BY <3>3, <3>4, <3>9, <2>1 DEF WorkOK
    <2> QED BY <2>5, <2>6
  <1>8. ASSUME NEW w \in WorkUnits, OtherWork(w)
        PROVE  WorkOK'
    <2>1. /\ UNCHANGED mode /\ client' = Witnessed(client, pool') /\ pool' \in Pools
          /\ PoolHolders = {} /\ pool[w] = "released" /\ pool' = [pool EXCEPT ![w] = "completed"]
      BY <1>0, <1>8, OtherWorkIs
    <2>2. \A d \in Clients : client'[d].unit = {}
      BY <2>1, <1>0, WitnessedIs DEF PoolHolders
    <2>3. PoolHolders' = {}
      BY <2>2 DEF PoolHolders
    <2>4. Outstanding(pool') \subseteq Outstanding(pool)
      BY <2>1, <1>0 DEF Outstanding, Pools
    <2>5. WIP(pool') <= WIP(pool) /\ WIP(pool) \in Nat /\ WIP(pool') \in Nat
      BY <2>1, <2>4, <1>0, ReadingIs, FS_Subset DEF WIP
    <2>6. mode = "ReleaseFed" => WIP(pool) <= WipLimit
      BY DEF WorkOK
    <2>7. mode' = "ReleaseFed" => WIP(pool') <= WipLimit
      BY <2>1, <2>5, <2>6, <1>0
    <2>8. \A d, e \in Clients : client'[d].unit # {} /\ client'[e].unit # {} => d = e
      BY <2>2
    <2>9. \A d \in Clients : client'[d].unit \subseteq Pending(pool')
      BY <2>2
    <2> QED BY <2>3, <2>7, <2>8, <2>9 DEF WorkOK
  <1>9. ASSUME NEW d \in Dependencies, TimerEnds(d)
        PROVE  WorkOK'
    BY <1>9, WorkKept DEF TimerEnds, database
  <1>10. CASE UNCHANGED vars
    BY <1>10, WorkKept DEF vars, database
  <1> QED
    BY <1>2, <1>3, <1>4, <1>5, <1>6, <1>7, <1>8, <1>9, <1>10 DEF Next, Serve

(* The pool starts with everything pending and nothing in progress. *)
LEMMA WorkInit == Init => WorkOK
  <1> SUFFICES ASSUME Init
               PROVE  WorkOK
    OBVIOUS
  <1>1. \A c \in Clients : client[c].unit = {}
    BY DEF Init, Free
  <1>2. PoolHolders = {}
    BY <1>1 DEF PoolHolders
  <1>3. Outstanding(pool) = {}
    BY DEF Init, Outstanding
  <1>4. WIP(pool) = 0 /\ WipLimit \in Nat
    BY <1>3, FS_EmptySet, PoolAssumption DEF WIP
  <1> QED BY <1>1, <1>2, <1>4 DEF WorkOK

-----------------------------------------------------------------------------
(* What the requests have seen *)

(* An open request has seen the pool as it is, and what it advises on is   *)
(* something that it has seen.                                             *)
SeenFits(k) ==
    /\ k.at # "idle" => Reading(pool) \in k.seen
    /\ \A r \in k.advice : r \in k.seen /\ r.remaining >= 0

SeenOK == \A c \in Clients : SeenFits(client[c])

(* What is left to admit is not negative within the limit. *)
LEMMA RemainingIs ==
  ASSUME Base, WorkOK
  PROVE  Reading(pool).remaining >= 0
  <1>1. WIP(pool) \in Nat /\ WipLimit \in Nat
    BY ReadingIs, PoolAssumption DEF Base, Typed
  <1>2. mode = "ReleaseFed" => WIP(pool) <= WipLimit
    BY DEF WorkOK
  <1>3. Reading(pool).remaining = IF mode = "ReleaseFed" /\ WipLimit > 0
                                  THEN WipLimit - WIP(pool) ELSE 0
    BY DEF Reading
  <1> QED BY <1>1, <1>2, <1>3

(* A step that changes the pool shows the new one to every open request. *)
LEMMA SeenWitnessed ==
  ASSUME UNCHANGED mode, NEW clients \in [Clients -> ClientStates], pool' \in Pools,
         client' = Witnessed(clients, pool'),
         \A c \in Clients : StageOK(clients[c]),
         \A c \in Clients : \A r \in clients[c].advice : r \in clients[c].seen /\ r.remaining >= 0
  PROVE  SeenOK'
  <1>1. PICK entries \in Pools : entries = pool'
    OBVIOUS
  <1>2. client' = Witnessed(clients, entries)
    BY <1>1
  <1>3. Reading(pool)' = Reading(entries)
    BY <1>1 DEF Reading
  <1>4. ASSUME NEW c \in Clients
        PROVE  /\ client'[c].at # "idle" => Reading(entries) \in client'[c].seen
               /\ \A r \in client'[c].advice : r \in client'[c].seen /\ r.remaining >= 0
    <2>1. /\ client'[c].at = clients[c].at /\ client'[c].advice = clients[c].advice
          /\ clients[c].at = "idle" => client'[c] = clients[c]
          /\ clients[c].at # "idle" => client'[c].seen = clients[c].seen \cup {Reading(entries)}
      BY <1>2, WitnessedIs
    <2> QED BY <2>1
  <1> QED BY <1>3, <1>4 DEF SeenOK, SeenFits

(* Each step keeps it. *)
LEMMA SeenStep ==
  Base /\ WorkOK /\ SeenOK /\ [Next]_vars => SeenOK'
  <1> SUFFICES ASSUME Base, WorkOK, SeenOK, [Next]_vars
               PROVE  SeenOK'
    OBVIOUS
  <1>0. /\ client \in [Clients -> ClientStates] /\ \A c \in Clients : StageOK(client[c])
        /\ pool \in Pools /\ Typed /\ Stages
        /\ \A c \in Clients : SeenFits(client[c])
    BY DEF Typed, Stages, Base, SeenOK
  <1>1. ASSUME NEW c \in Clients, NEW k, Moved(c, k), SeenFits(k), UNCHANGED <<mode, pool>>
        PROVE  SeenOK'
    <2>1. \A d \in Clients : SeenFits(client'[d])
      BY <1>0, <1>1 DEF Moved
    <2>2. Reading(pool)' = Reading(pool)
      BY <1>1 DEF Reading
    <2> QED BY <2>1, <2>2 DEF SeenOK, SeenFits
  <1>2. SeenFits(Free)
    BY DEF SeenFits, Free
  <1>3. ASSUME NEW c \in Clients, NEW r \in Requests, Ask(c, r)
        PROVE  SeenOK'
    <2>1. UNCHANGED <<mode, pool>> /\ (Moved(c, Free) \/ Moved(c, Asked(r)))
      BY <1>0, <1>3, StepsMove DEF Ask, database
    <2>2. SeenFits(Asked(r))
      BY DEF Asked, Free, SeenFits
    <2> QED BY <2>1, <2>2, <1>1, <1>2
  <1>4. ASSUME NEW c \in Clients, Enter(c)
        PROVE  SeenOK'
    <2>1. UNCHANGED <<mode, pool>> /\ client[c].at = "enter"
      BY <1>4 DEF Enter, database
    <2>2. \/ Moved(c, Passing(client[c]))
          \/ Moved(c, Fetching(client[c], breaker[DependencyOf(c)].epoch))
      BY <1>0, <1>4, StepsMove
    <2>3. SeenFits(Passing(client[c]))
          /\ SeenFits(Fetching(client[c], breaker[DependencyOf(c)].epoch))
      BY <2>1, <1>0, FieldsOf DEF SeenFits
    <2> QED BY <2>1, <2>2, <2>3, <1>1
  <1>5. ASSUME NEW c \in Clients, FetchAnswered(c) \/ FetchFailed(c) \/ CancelLookup(c)
        PROVE  SeenOK'
    <2>1. UNCHANGED <<mode, pool>> /\ client[c].at = "fetch"
      BY <1>5 DEF FetchAnswered, FetchFailed, CancelLookup, database
    <2>2. Moved(c, Passing(client[c])) \/ Moved(c, Retrying(client[c])) \/ Moved(c, Free)
      BY <1>0, <1>5, StepsMove
    <2>3. SeenFits(Passing(client[c])) /\ SeenFits(Retrying(client[c]))
      BY <2>1, <1>0, FieldsOf DEF SeenFits
    <2> QED BY <2>1, <2>2, <2>3, <1>1, <1>2
  <1>6. ASSUME NEW c \in Clients, Hold(c)
        PROVE  SeenOK'
    <2>1. UNCHANGED <<mode, pool>> /\ client[c].at = "hold"
      BY <1>6 DEF Hold, database
    <2>2. \A w : SeenFits(Holding(client[c], w))
      BY <2>1, <1>0, FieldsOf DEF SeenFits
    <2>3. Moved(c, Free) \/ \E w \in NextPending(pool) : Moved(c, Holding(client[c], w))
      BY <1>0, <1>6, StepsMove
    <2> QED BY <2>1, <2>2, <2>3, <1>1, <1>2
  <1>7. ASSUME NEW c \in Clients, Read(c)
        PROVE  SeenOK'
    <2>1. UNCHANGED <<mode, pool>> /\ client[c].at = "read"
      BY <1>7 DEF Read, database
    <2>2. Moved(c, Advised(client[c]))
      BY <1>0, <1>7, StepsMove
    <2>3. Reading(pool) \in client[c].seen
      BY <2>1, <1>0 DEF SeenFits
    <2>4. SeenFits(Advised(client[c]))
      BY <2>3, <1>0, FieldsOf, RemainingIs DEF SeenFits
    <2> QED BY <2>1, <2>2, <2>4, <1>1
  <1>8. ASSUME NEW c \in Clients, AnswerReading(c) \/ Save(c) \/ Publish(c) \/ FailDatabase(c)
        PROVE  SeenOK'
    <2>1. UNCHANGED <<mode, pool>>
      BY <1>8 DEF AnswerReading, Save, Publish, FailDatabase, database
    <2>2. \/ client[c].at = "save" /\ Moved(c, Saving(client[c]))
          \/ client[c].at = "publish" /\ Moved(c, Publishing(client[c]))
          \/ Moved(c, Free)
      BY <1>0, <1>8, StepsMove
    <2>3. client[c].at # "idle" => SeenFits(Saving(client[c])) /\ SeenFits(Publishing(client[c]))
      BY <1>0, FieldsOf DEF SeenFits
    <2> QED BY <2>1, <2>2, <2>3, <1>1, <1>2
  <1>9. ASSUME NEW c \in Clients, CommitTx(c)
        PROVE  SeenOK'
    <2> DEFINE cs == [client EXCEPT ![c] = Free]
    <2>1. /\ UNCHANGED mode /\ client' = Witnessed(cs, pool') /\ pool' \in Pools
          /\ cs \in [Clients -> ClientStates] /\ \A d \in Clients : StageOK(cs[d])
      BY <1>0, <1>9, CommitIs
    <2>2. \A d \in Clients : SeenFits(cs[d])
      BY <1>0, <1>2
    <2>3. \A d \in Clients : \A r \in cs[d].advice : r \in cs[d].seen /\ r.remaining >= 0
      BY <2>2 DEF SeenFits
    <2> HIDE DEF cs
    <2> QED BY <2>1, <2>3, SeenWitnessed
  <1>10. ASSUME NEW w \in WorkUnits, OtherWork(w)
         PROVE  SeenOK'
    <2>1. UNCHANGED mode /\ client' = Witnessed(client, pool') /\ pool' \in Pools
      BY <1>0, <1>10, OtherWorkIs
    <2>2. \A d \in Clients : \A r \in client[d].advice : r \in client[d].seen /\ r.remaining >= 0
      BY <1>0 DEF SeenFits
    <2> QED BY <2>1, <2>2, <1>0, SeenWitnessed
  <1>11. ASSUME UNCHANGED <<mode, pool, client>>
         PROVE  SeenOK'
    BY <1>11 DEF SeenOK, SeenFits, Reading
  <1>12. ASSUME NEW d \in Dependencies, TimerEnds(d)
         PROVE  SeenOK'
    BY <1>12, <1>11 DEF TimerEnds, database
  <1>13. CASE UNCHANGED vars
    BY <1>13, <1>11 DEF vars, database
  <1> QED
    BY <1>3, <1>4, <1>5, <1>6, <1>7, <1>8, <1>9, <1>10, <1>12, <1>13 DEF Next, Serve

(* A reading is of one state that the pool had while the request was open, *)
(* and what is left to admit is never negative, whatever the limit and the *)
(* number of releases and completions around it.                           *)
THEOREM ReadingsAreOfOneMomentHolds == Spec => []ReadingsAreOfOneMoment
  <1>1. Init => Base /\ WorkOK /\ SeenOK
    <2>1. Init => SeenOK
      BY DEF Init, SeenOK, SeenFits, Free
    <2> QED BY <2>1, BaseInit, WorkInit
  <1>2. Base /\ WorkOK /\ SeenOK /\ [Next]_vars => (Base /\ WorkOK /\ SeenOK)'
    BY BaseStep, WorkStep, SeenStep DEF Base
  <1>3. SeenOK => ReadingsAreOfOneMoment
    BY DEF SeenOK, SeenFits, ReadingsAreOfOneMoment
  <1> QED BY <1>1, <1>2, <1>3, PTL DEF Spec
-----------------------------------------------------------------------------
(* Documents and their events *)

InTransaction(c) == client[c].at \in {"publish", "commit"}

(* One transaction at a time has a document's row. *)
RowsOK ==
    \A c, d \in Clients :
        /\ InTransaction(c) /\ InTransaction(d)
        /\ client[c].req.op \in Documents /\ client[d].req.op = client[c].req.op
        => c = d

OutboxIds ==
    /\ \A e, f \in outbox : e.id = f.id => e = f
    /\ \A e \in outbox : e.id < nextId

(* The id that a transaction has drawn is its own, and above those of the  *)
(* events that are committed about its document.                           *)
DrawnFor(k) ==
    k.at = "commit" =>
        /\ k.id < nextId
        /\ \A e \in outbox :
              /\ e.id # k.id
              /\ k.req.op \in Documents /\ e.type = {k.req.op} => e.id < k.id

DrawnOK ==
    /\ \A c \in Clients : DrawnFor(client[c])
    /\ \A c, d \in Clients :
          /\ client[c].at = "commit" /\ client[d].at = "commit"
          /\ client[c].id = client[d].id
          => c = d

OutboxOK == RowsOK /\ OutboxIds /\ DrawnOK /\ StreamEndsWithWhatIsStored

(* Steps that leave the outbox and the documents alone, and bring no       *)
(* request to its row or to its commit.                                    *)
LEMMA OutboxKept ==
  ASSUME OutboxOK, UNCHANGED <<stored, outbox, nextId>>,
         \A c \in Clients : client'[c].at = "commit" =>
            /\ client[c].at = "commit"
            /\ client'[c].id = client[c].id /\ client'[c].req = client[c].req,
         \A c \in Clients : client'[c].at = "publish" /\ client'[c].req.op \in Documents =>
            client[c].at = "publish" /\ client'[c].req = client[c].req
  PROVE  OutboxOK'
  <1>1. RowsOK'
    BY DEF OutboxOK, RowsOK, InTransaction
  <1>2. OutboxIds'
    BY DEF OutboxOK, OutboxIds
  <1>3. DrawnOK'
    BY DEF OutboxOK, DrawnOK, DrawnFor
  <1>4. StreamEndsWithWhatIsStored'
    BY DEF OutboxOK, StreamEndsWithWhatIsStored
  <1> QED BY <1>1, <1>2, <1>3, <1>4 DEF OutboxOK

(* What one client's step has to show for it. *)
LEMMA OutboxMoved ==
  ASSUME Base, OutboxOK, UNCHANGED <<stored, outbox, nextId>>,
         NEW c \in Clients, NEW k, Moved(c, k),
         k.at = "commit" => k = client[c],
         k.at = "publish" /\ k.req.op \in Documents => client[c].at = "publish" /\ k.req = client[c].req
  PROVE  OutboxOK'
  <1>1. \A d \in Clients : client'[d] = IF d = c THEN k ELSE client[d]
    BY DEF Moved, Base, Typed
  <1>2. \A d \in Clients : client'[d].at = "commit" => client'[d] = client[d]
    BY <1>1
  <1>3. \A d \in Clients : client'[d].at = "publish" /\ client'[d].req.op \in Documents =>
            client[d].at = "publish" /\ client'[d].req = client[d].req
    BY <1>1
  <1> QED BY <1>2, <1>3, OutboxKept

(* The row of a document is taken when nobody has it. *)
LEMMA OutboxSaved ==
  ASSUME Base, OutboxOK, NEW c \in Clients, Save(c)
  PROVE  OutboxOK'
  <1>1. /\ client \in [Clients -> ClientStates] /\ UNCHANGED <<stored, outbox, nextId>>
        /\ client[c].at = "save" /\ RowHolders(Op(c)) = {} /\ Moved(c, Saving(client[c]))
    BY StepsMove DEF Base, Typed, Save, database
  <1>2. \A d \in Clients \ {c} : client'[d] = client[d]
    BY <1>1 DEF Moved
  <1>3. client'[c].at = "publish" /\ client'[c].req = client[c].req
    BY <1>1, FieldsOf DEF Moved
  <1>4. \A d \in Clients : InTransaction(d) => client[d].req.op # client[c].req.op
    BY <1>1 DEF RowHolders, InTransaction, Op
  <1>5. RowsOK'
    <2> SUFFICES ASSUME NEW a \in Clients, NEW b \in Clients,
                        InTransaction(a)', InTransaction(b)',
                        client'[a].req.op \in Documents, client'[b].req.op = client'[a].req.op
                 PROVE  a = b
      BY DEF RowsOK
    <2>1. CASE a # c /\ b # c
      BY <2>1, <1>2 DEF OutboxOK, RowsOK, InTransaction
    <2>2. CASE a = c /\ b # c
      BY <2>2, <1>2, <1>3, <1>4 DEF InTransaction
    <2>3. CASE a # c /\ b = c
      BY <2>3, <1>2, <1>3, <1>4 DEF InTransaction
    <2> QED BY <2>1, <2>2, <2>3
  <1>6. OutboxIds'
    BY <1>1 DEF OutboxOK, OutboxIds
  <1>7. DrawnOK'
    BY <1>1, <1>2, <1>3 DEF OutboxOK, DrawnOK, DrawnFor
  <1>8. StreamEndsWithWhatIsStored'
    BY <1>1 DEF OutboxOK, StreamEndsWithWhatIsStored
  <1> QED BY <1>5, <1>6, <1>7, <1>8 DEF OutboxOK

(* An id is drawn above all that were drawn before. *)
LEMMA OutboxPublished ==
  ASSUME Base, OutboxOK, NEW c \in Clients, Publish(c)
  PROVE  OutboxOK'
  <1>1. /\ client \in [Clients -> ClientStates] /\ UNCHANGED <<stored, outbox>>
        /\ nextId \in Nat /\ nextId' = nextId + 1
        /\ outbox \subseteq [id : Nat, type : SUBSET EventNames, says : Requests]
        /\ client[c].at = "publish" /\ Moved(c, Publishing(client[c]))
    BY StepsMove DEF Base, Typed, Publish
  <1>2. \A d \in Clients \ {c} : client'[d] = client[d]
    BY <1>1 DEF Moved
  <1>3. client'[c].at = "commit" /\ client'[c].req = client[c].req /\ client'[c].id = nextId
    BY <1>1, FieldsOf DEF Moved
  <1>4. \A e \in outbox : e.id \in Nat /\ e.id < nextId
    BY <1>1 DEF OutboxOK, OutboxIds
  <1>5. \A d \in Clients : client[d].id \in Nat
    BY <1>1 DEF ClientStates
  <1>6. RowsOK'
    BY <1>1, <1>2, <1>3 DEF OutboxOK, RowsOK, InTransaction
  <1>7. OutboxIds'
    BY <1>1, <1>4 DEF OutboxOK, OutboxIds
  <1>8. DrawnOK'
    <2>1. \A d \in Clients : DrawnFor(client[d])
      BY DEF OutboxOK, DrawnOK
    <2>2. ASSUME NEW d \in Clients
          PROVE  DrawnFor(client[d])'
      <3>1. CASE d = c
        <4>1. client'[c].id < nextId'
          BY <1>1, <1>3
        <4>2. \A e \in outbox' : e.id < client'[c].id /\ e.id # client'[c].id
          BY <1>1, <1>3, <1>4
        <4> QED BY <3>1, <4>1, <4>2 DEF DrawnFor
      <3>2. CASE d # c
        <4>1. client'[d] = client[d]
          BY <3>2, <1>2
        <4>2. client[d].id < nextId => client[d].id < nextId'
          BY <1>1, <1>5
        <4> QED BY <2>1, <4>1, <4>2, <1>1 DEF DrawnFor
      <3> QED BY <3>1, <3>2
    <2>3. \A d \in Clients \ {c} : client'[d].at = "commit" => client'[d].id # nextId
      BY <2>1, <1>1, <1>2, <1>5 DEF DrawnFor
    <2>4. \A a, b \in Clients : client[a].at = "commit" /\ client[b].at = "commit"
                                /\ client[a].id = client[b].id => a = b
      BY DEF OutboxOK, DrawnOK
    <2>5. ASSUME NEW a \in Clients, NEW b \in Clients,
                 client'[a].at = "commit", client'[b].at = "commit", client'[a].id = client'[b].id
          PROVE  a = b
      BY <2>3, <2>4, <2>5, <1>2, <1>3
    <2> QED BY <2>2, <2>5 DEF DrawnOK
  <1>9. StreamEndsWithWhatIsStored'
    BY <1>1 DEF OutboxOK, StreamEndsWithWhatIsStored
  <1> QED BY <1>6, <1>7, <1>8, <1>9 DEF OutboxOK

(* What a commit leaves behind is the last that is said of its document.   *)
LEMMA OutboxCommitted ==
  ASSUME Base, OutboxOK, NEW c \in Clients, CommitTx(c)
  PROVE  OutboxOK'
  <1> DEFINE me == client[c]
             cs == [client EXCEPT ![c] = Free]
             new == [id |-> me.id, type |-> me.events, says |-> me.req]
  <1>1. /\ client \in [Clients -> ClientStates] /\ nextId \in Nat /\ UNCHANGED nextId
        /\ outbox \subseteq [id : Nat, type : SUBSET EventNames, says : Requests]
        /\ me.at = "commit" /\ outbox' = outbox \cup {new}
        /\ stored' = [doc \in Documents |-> IF doc = me.req.op THEN me.req ELSE stored[doc]]
    BY DEF Base, Typed, CommitTx, Op
  <1>2. \A d \in Clients : client'[d].at = cs[d].at /\ client'[d].req = cs[d].req
                           /\ client'[d].id = cs[d].id
    <2>1. /\ client' = Witnessed(cs, pool') /\ pool' \in Pools
          /\ cs \in [Clients -> ClientStates] /\ \A d \in Clients : StageOK(cs[d])
      BY CommitIs DEF Base
    <2> HIDE DEF cs
    <2> QED BY <2>1, WitnessedIs
  <1>3. client'[c].at = "idle"
    BY <1>1, <1>2, FreeIs
  <1>4. \A d \in Clients \ {c} : client'[d].at = client[d].at /\ client'[d].req = client[d].req
                                 /\ client'[d].id = client[d].id
    BY <1>1, <1>2
  <1>5. /\ me.id \in Nat /\ me.id < nextId
        /\ \A e \in outbox : /\ e.id \in Nat /\ e.id # me.id /\ e.id < nextId
                             /\ me.req.op \in Documents /\ e.type = {me.req.op} => e.id < me.id
    BY <1>1 DEF OutboxOK, OutboxIds, DrawnOK, DrawnFor, ClientStates
  <1>6. /\ me.req.op \in Documents => me.events = {me.req.op}
        /\ me.req.op \notin Documents => me.events \cap Documents = {}
    BY <1>1 DEF Base, Stages, StageOK
  <1>7. \A doc \in Documents : me.events = {doc} <=> me.req.op = doc
    BY <1>6
  <1>8. new.id = me.id /\ new.type = me.events /\ new.says = me.req /\ new \in outbox'
    BY <1>1
  <1> HIDE DEF cs, new
  <1>9. RowsOK'
    BY <1>3, <1>4 DEF OutboxOK, RowsOK, InTransaction
  <1>10. OutboxIds'
    BY <1>1, <1>5, <1>8 DEF OutboxOK, OutboxIds
  <1>11. DrawnOK'
    <2>1. ASSUME NEW d \in Clients \ {c}, client'[d].at = "commit"
          PROVE  DrawnFor(client[d])'
      <3>1. DrawnFor(client[d]) /\ client[d].at = "commit"
        BY <2>1, <1>4 DEF OutboxOK, DrawnOK
      <3>2. me.id # client[d].id
        BY <3>1, <1>1 DEF OutboxOK, DrawnOK
      <3>3. client[d].req.op \in Documents => me.events # {client[d].req.op}
        BY <3>1, <1>1, <1>7 DEF OutboxOK, RowsOK, InTransaction
      <3> QED BY <3>1, <3>2, <3>3, <1>1, <1>4, <1>8 DEF DrawnFor
    <2>2. \A d \in Clients : DrawnFor(client[d])'
      BY <2>1, <1>3 DEF DrawnFor
    <2> QED BY <2>2, <1>3, <1>4 DEF OutboxOK, DrawnOK
  <1>12. StreamEndsWithWhatIsStored'
    <2> SUFFICES ASSUME NEW doc \in Documents
                 PROVE  LET about == {e \in outbox' : e.type = {doc}}
                        IN  IF about = {} THEN stored'[doc] = NoRequest
                            ELSE \E last \in about : /\ \A e \in about : e.id <= last.id
                                                     /\ stored'[doc] = last.says
      BY DEF StreamEndsWithWhatIsStored
    <2>1. CASE me.req.op = doc
      <3>1. new \in {e \in outbox' : e.type = {doc}}
        BY <2>1, <1>7, <1>8
      <3>2. \A e \in {e \in outbox' : e.type = {doc}} : e.id <= new.id
        BY <2>1, <1>1, <1>5, <1>8
      <3>3. stored'[doc] = new.says
        BY <2>1, <1>1, <1>8
      <3> QED BY <3>1, <3>2, <3>3
    <2>2. CASE me.req.op # doc
      <3>1. {e \in outbox' : e.type = {doc}} = {e \in outbox : e.type = {doc}}
        BY <2>2, <1>1, <1>7, <1>8
      <3>2. stored'[doc] = stored[doc]
        BY <2>2, <1>1
      <3> QED BY <3>1, <3>2 DEF OutboxOK, StreamEndsWithWhatIsStored
    <2> QED BY <2>1, <2>2
  <1> QED BY <1>9, <1>10, <1>11, <1>12 DEF OutboxOK

(* Each step keeps it. *)
LEMMA OutboxStep ==
  Base /\ OutboxOK /\ [Next]_vars => OutboxOK'
  <1> SUFFICES ASSUME Base, OutboxOK, [Next]_vars
               PROVE  OutboxOK'
    OBVIOUS
  <1>0. /\ client \in [Clients -> ClientStates] /\ \A c \in Clients : StageOK(client[c])
        /\ pool \in Pools /\ Typed /\ Stages
    BY DEF Typed, Stages, Base
  <1>1. ASSUME NEW c \in Clients, Moved(c, Free), UNCHANGED <<stored, outbox, nextId>>
        PROVE  OutboxOK'
    BY <1>1, FreeIs, OutboxMoved
  <1>2. ASSUME NEW c \in Clients, NEW r \in Requests, Ask(c, r)
        PROVE  OutboxOK'
    <2>1. UNCHANGED <<stored, outbox, nextId>> /\ (Moved(c, Free) \/ Moved(c, Asked(r)))
      BY <1>0, <1>2, StepsMove DEF Ask, database
    <2>2. Asked(r).at \notin {"publish", "commit"}
      BY DEF Asked, Free, FirstStep
    <2> QED BY <2>1, <2>2, <1>1, OutboxMoved
  <1>3. ASSUME NEW c \in Clients, Enter(c) \/ FetchAnswered(c) \/ FetchFailed(c) \/ CancelLookup(c)
        PROVE  OutboxOK'
    <2>1. UNCHANGED <<stored, outbox, nextId>> /\ client[c].at \in {"enter", "fetch"}
      BY <1>3 DEF Enter, FetchAnswered, FetchFailed, CancelLookup, database
    <2>2. \/ Moved(c, Passing(client[c])) \/ Moved(c, Retrying(client[c])) \/ Moved(c, Free)
          \/ Moved(c, Fetching(client[c], breaker[DependencyOf(c)].epoch))
      BY <1>0, <1>3, StepsMove
    <2>3. client[c].req.op \in {"plan", "release"}
      BY <2>1, <1>0 DEF StageOK
    <2>4. LET n == Passing(client[c])
          IN  n.at # "commit" /\ (n.at = "publish" => n.req.op \notin Documents)
      BY <2>3, <1>0, FieldsOf DEF Documents
    <2>5. Retrying(client[c]).at \notin {"publish", "commit"}
          /\ Fetching(client[c], breaker[DependencyOf(c)].epoch).at = "fetch"
      BY <2>1, <1>0, FieldsOf
    <2> QED BY <2>1, <2>2, <2>4, <2>5, <1>1, OutboxMoved
  <1>4. ASSUME NEW c \in Clients, Hold(c)
        PROVE  OutboxOK'
    <2>1. UNCHANGED <<stored, outbox, nextId>> /\ client[c].at = "hold"
      BY <1>4 DEF Hold, database
    <2>2. Moved(c, Free) \/ \E w \in NextPending(pool) : Moved(c, Holding(client[c], w))
      BY <1>0, <1>4, StepsMove
    <2>3. client[c].req.op = "release"
      BY <2>1, <1>0 DEF StageOK
    <2>4. \A w : LET n == Holding(client[c], w)
                 IN  n.at # "commit" /\ (n.at = "publish" => n.req.op \notin Documents)
      BY <2>3, <1>0, FieldsOf DEF Documents
    <2> QED BY <2>1, <2>2, <2>4, <1>1, OutboxMoved
  <1>5. ASSUME NEW c \in Clients, Read(c)
        PROVE  OutboxOK'
    <2>1. UNCHANGED <<stored, outbox, nextId>> /\ client[c].at = "read"
      BY <1>5 DEF Read, database
    <2>2. Moved(c, Advised(client[c]))
      BY <1>0, <1>5, StepsMove
    <2>3. client[c].req.op \in {"sample", "rebalance"}
      BY <2>1, <1>0 DEF StageOK
    <2>4. Advised(client[c]).at = "publish" /\ Advised(client[c]).req.op \notin Documents
      BY <2>3, <1>0, FieldsOf DEF Documents
    <2> QED BY <2>1, <2>2, <2>4, OutboxMoved
  <1>6. ASSUME NEW c \in Clients, AnswerReading(c) \/ FailDatabase(c)
        PROVE  OutboxOK'
    <2>1. UNCHANGED <<stored, outbox, nextId>> /\ Moved(c, Free)
      BY <1>0, <1>6, StepsMove DEF AnswerReading, FailDatabase, database
    <2> QED BY <2>1, <1>1
  <1>7. ASSUME NEW c \in Clients, Save(c) \/ Publish(c) \/ CommitTx(c)
        PROVE  OutboxOK'
    BY <1>7, OutboxSaved, OutboxPublished, OutboxCommitted
  <1>8. ASSUME NEW w \in WorkUnits, OtherWork(w)
        PROVE  OutboxOK'
    <2>1. UNCHANGED <<stored, outbox, nextId>> /\ client' = Witnessed(client, pool')
          /\ pool' \in Pools
      BY <1>0, <1>8, OtherWorkIs
    <2>2. \A c \in Clients : client'[c].at = client[c].at /\ client'[c].req = client[c].req
                             /\ client'[c].id = client[c].id
      BY <2>1, <1>0, WitnessedIs
    <2> QED BY <2>1, <2>2, OutboxKept
  <1>9. ASSUME UNCHANGED <<client, stored, outbox, nextId>>
        PROVE  OutboxOK'
    BY <1>9, OutboxKept
  <1>10. ASSUME NEW d \in Dependencies, TimerEnds(d)
         PROVE  OutboxOK'
    BY <1>10, <1>9 DEF TimerEnds, database
  <1>11. CASE UNCHANGED vars
    BY <1>11, <1>9 DEF vars, database
  <1> QED
    BY <1>2, <1>3, <1>4, <1>5, <1>6, <1>7, <1>8, <1>10, <1>11 DEF Next, Serve

(* At first nothing is stored and nothing announced. *)
LEMMA OutboxInit == Init => OutboxOK
  BY FreeIs DEF Init, OutboxOK, RowsOK, InTransaction, OutboxIds, DrawnOK, DrawnFor,
                StreamEndsWithWhatIsStored

(* What is stored for a path is what the last event about it announces, in *)
(* the order of the ids the relay follows, for any number of racing        *)
(* requests: the row that the upsert locks is held until the commit, and   *)
(* the id is drawn in between.                                             *)
THEOREM StreamEndsWithWhatIsStoredHolds == Spec => []StreamEndsWithWhatIsStored
  <1>1. Init => Base /\ OutboxOK
    BY BaseInit, OutboxInit
  <1>2. Base /\ OutboxOK /\ [Next]_vars => (Base /\ OutboxOK)'
    BY BaseStep, OutboxStep DEF Base
  <1>3. OutboxOK => StreamEndsWithWhatIsStored
    BY DEF OutboxOK
  <1> QED BY <1>1, <1>2, <1>3, PTL DEF Spec

-----------------------------------------------------------------------------
(* Type correctness *)

(* A set without two different members has at most one. *)
LEMMA AtMostOne ==
  ASSUME NEW S, \A a, b \in S : a = b
  PROVE  Cardinality(S) <= 1
  <1>1. CASE S = {}
    BY <1>1, FS_EmptySet
  <1>2. CASE S # {}
    <2>1. PICK a \in S : S = {a}
      BY <1>2
    <2> QED BY <2>1, FS_Singleton
  <1> QED BY <1>1, <1>2

(* Each variable keeps its range; ids are unique; the locks of the pool's  *)
(* row and of the documents' rows have one holder at most.                 *)
THEOREM TypeCorrect == Spec => []TypeOK
  <1>1. Init => Base /\ WorkOK /\ OutboxOK
    BY BaseInit, WorkInit, OutboxInit
  <1>2. Base /\ WorkOK /\ OutboxOK /\ [Next]_vars => (Base /\ WorkOK /\ OutboxOK)'
    BY BaseStep, WorkStep, OutboxStep DEF Base
  <1>3. Base /\ WorkOK /\ OutboxOK => TypeOK
    <2> SUFFICES ASSUME Base, WorkOK, OutboxOK
                 PROVE  TypeOK
      OBVIOUS
    <2>1. Cardinality(PoolHolders) <= 1
      <3>1. \A a, b \in PoolHolders : a = b
        BY DEF WorkOK, PoolHolders
      <3> QED BY <3>1, AtMostOne
    <2>2. ASSUME NEW doc \in Documents
          PROVE  Cardinality(RowHolders(doc)) <= 1
      <3>1. \A a, b \in RowHolders(doc) : a = b
        BY DEF OutboxOK, RowsOK, InTransaction, RowHolders, Op
      <3> QED BY <3>1, AtMostOne
    <2>3. ASSUME NEW c \in Clients
          PROVE  IF client[c].at = "idle" THEN client[c] = Free
                 ELSE /\ client[c].at \in Labels
                      /\ client[c].req \in Requests
                      /\ client[c].tries \in 0..MaxAttempts
      BY DEF Base, Typed, Stages, StageOK, ClientStates
    <2>4. breaker \in [Dependencies -> Breakers]
      BY DEF Base, BreakerOK
    <2>5. /\ \A e, f \in outbox : e.id = f.id => e = f
          /\ \A e \in outbox : e.id < nextId
      BY DEF OutboxOK, OutboxIds
    <2> QED BY <2>1, <2>2, <2>3, <2>4, <2>5 DEF TypeOK, Base, Typed
  <1> QED BY <1>1, <1>2, <1>3, PTL DEF Spec
=============================================================================
