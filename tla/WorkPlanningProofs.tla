------------------------- MODULE WorkPlanningProofs -------------------------
(***************************************************************************)
(* Proofs about WorkPlanning, for every set of clients, work units and     *)
(* paths, every assignment of cut-offs, every WIP limit and every retry    *)
(* budget: type correctness, and the safety properties that ask nothing of *)
(* the callers, from one inductive invariant each.                         *)
(***************************************************************************)
EXTENDS WorkPlanning, FiniteSetTheorems, TLAPS

-----------------------------------------------------------------------------
(* The operators of WorkPool. *)

(* The empty pool is a pool. *)
LEMMA EmptyPoolType == EmptyPool \in Pools
  BY DEF EmptyPool, Pools, EntryStates

(* The updates of a pool give a pool. *)
LEMMA UpdateTypes ==
  ASSUME NEW pool \in Pools, NEW w \in WorkUnits, NEW s
  PROVE  /\ Enqueued(pool, w) \in Pools
         /\ Released(pool, w) \in Pools
         /\ Reconciled(pool, w, s) \in Pools
  BY DEF Enqueued, Released, Reconciled, ReconciledState, Pools, EntryStates

(* An idle client's request and copy are of the declared types. *)
LEMMA NothingTypes ==
  NoRequest \in Requests /\ NoCopy \in Copies
  BY EmptyPoolType DEF NoRequest, NoCopy, Requests, Copies

-----------------------------------------------------------------------------
(* The conjuncts of TypeOK that concern the store, and those that concern  *)
(* the clients.                                                            *)
StoreOK ==
    /\ poolVersion \in [Paths -> Nat]
    /\ poolEntries \in [Paths -> Pools]
    /\ unit \in [WorkUnits -> Units]
    /\ \A w \in WorkUnits : unit[w].state = "None" <=> unit[w].path = NoPath
    /\ events \in [WorkUnits -> Seq(EventTypes)]

ClientsOK ==
    /\ pc \in [Clients -> Labels]
    /\ req \in [Clients -> Requests]
    /\ copy \in [Clients -> Copies]
    /\ tries \in [Clients -> 0..(MaxAttempts - 1)]

(* TypeOK is made of these parts. *)
LEMMA TypeOKParts ==
  TypeOK <=> StoreOK /\ ClientsOK /\ \A c \in Clients : Known(pc[c], req[c], copy[c])
  BY DEF TypeOK, StoreOK, ClientsOK

(* A step that leaves the store alone keeps its types. *)
LEMMA StoreUnchanged ==
  ASSUME StoreOK, UNCHANGED store
  PROVE  StoreOK'
  BY DEF StoreOK, store

(* What one client, c, becomes in a step. *)
Becomes(c, l, r, k, n) ==
    /\ pc' = [pc EXCEPT ![c] = l]
    /\ req' = [req EXCEPT ![c] = r]
    /\ copy' = [copy EXCEPT ![c] = k]
    /\ tries' = [tries EXCEPT ![c] = n]

(* A step of c keeps the types if it keeps those of the store and c then   *)
(* knows what its label asks for.                                          *)
LEMMA BecomesType ==
  ASSUME TypeOK, StoreOK', NEW c \in Clients,
         NEW l \in Labels, NEW r \in Requests, NEW k \in Copies,
         NEW n \in 0..(MaxAttempts - 1),
         Becomes(c, l, r, k, n), Known(l, r, k)
  PROVE  TypeOK'
  <1>1. ClientsOK /\ \A d \in Clients : Known(pc[d], req[d], copy[d])
    BY TypeOKParts
  <1>2. ClientsOK'
    BY <1>1 DEF ClientsOK, Becomes
  <1>3. ASSUME NEW d \in Clients
        PROVE  Known(pc'[d], req'[d], copy'[d])
    <2>1. CASE d = c
      BY <2>1, <1>1 DEF Becomes, ClientsOK
    <2>2. CASE d # c
      <3>1. pc'[d] = pc[d] /\ req'[d] = req[d] /\ copy'[d] = copy[d]
        BY <2>2, <1>1 DEF Becomes, ClientsOK
      <3> QED BY <3>1, <1>1
    <2> QED BY <2>1, <2>2
  <1> QED BY <1>2, <1>3 DEF TypeOK, StoreOK, ClientsOK

(* Answering a request keeps the types. *)
LEMMA FinishType ==
  ASSUME TypeOK, NEW c \in Clients, Finish(c), StoreOK'
  PROVE  TypeOK'
  <1>1. Becomes(c, "idle", NoRequest, NoCopy, 0)
    BY DEF Finish, Goto, Becomes
  <1>2. Known("idle", NoRequest, NoCopy)
    BY DEF Known, GoesThrough, NoRequest
  <1>3. 0 \in 0..(MaxAttempts - 1) /\ "idle" \in Labels
    BY PlanningAssumption DEF Labels
  <1> QED BY <1>1, <1>2, <1>3, NothingTypes, BecomesType

(* A new request keeps the types. *)
LEMMA BeginType ==
  ASSUME TypeOK, NEW c \in Clients, NEW r \in Requests, NEW label \in Labels,
         Begin(c, r, label), Known(label, r, NoCopy)
  PROVE  TypeOK'
  <1>1. StoreOK /\ ClientsOK /\ Known(pc[c], req[c], copy[c])
    BY TypeOKParts
  <1>2. copy[c] = NoCopy /\ tries[c] \in 0..(MaxAttempts - 1)
    BY <1>1 DEF Begin, Known, ClientsOK
  <1>3. Becomes(c, label, r, NoCopy, tries[c])
    BY <1>1, <1>2 DEF Begin, Goto, Becomes, ClientsOK
  <1>4. StoreOK'
    BY <1>1, StoreUnchanged DEF Begin
  <1> QED BY <1>2, <1>3, <1>4, NothingTypes, BecomesType

-----------------------------------------------------------------------------
(* A client that reads or decides changes nothing of the store, and goes   *)
(* from what it knows to what its next label asks for, or answers.         *)

(* A completion that has read its unit knows the unit's path. *)
LEMMA ReadUnitType ==
  ASSUME TypeOK, NEW c \in Clients, ReadUnit(c)
  PROVE  TypeOK'
  <1>1. StoreOK /\ ClientsOK /\ Known("readUnit", req[c], copy[c])
    BY TypeOKParts DEF ReadUnit
  <1>2. StoreOK'
    BY <1>1, StoreUnchanged DEF ReadUnit
  <1> DEFINE u == unit[req[c].unit]
             r == [req[c] EXCEPT !.path = u.path]
             k == [copy[c] EXCEPT !.home = u.path]
  <1>3. CASE u.state = "Released"
    <2>1. req[c].op = "complete" /\ req[c].unit \in WorkUnits
      BY <1>1 DEF Known, GoesThrough
    <2>2. u.path \in Paths
      BY <1>1, <1>3, <2>1 DEF StoreOK, Units
    <2>3. r \in Requests /\ k \in Copies /\ tries[c] \in 0..(MaxAttempts - 1)
      BY <1>1, <2>2 DEF ClientsOK, Requests, Copies
    <2>4. Becomes(c, "readRow", r, k, tries[c])
      BY <1>1, <1>3 DEF ReadUnit, Goto, Becomes, ClientsOK
    <2>5. Known("readRow", r, k)
      BY <1>1, <2>1, <2>2 DEF Known, GoesThrough, ClientsOK, Requests, Copies
    <2>6. "readRow" \in Labels
      BY DEF Labels
    <2> HIDE DEF r, k
    <2> QED BY <1>2, <2>3, <2>4, <2>5, <2>6, BecomesType
  <1>4. CASE u.state # "Released"
    BY <1>2, <1>4, FinishType DEF ReadUnit
  <1> QED BY <1>3, <1>4

(* A request that has read the pool's row has its version. *)
LEMMA ReadPoolRowType ==
  ASSUME TypeOK, NEW c \in Clients, ReadPoolRow(c)
  PROVE  TypeOK'
  <1>1. StoreOK /\ ClientsOK /\ Known("readRow", req[c], copy[c])
    BY TypeOKParts DEF ReadPoolRow
  <1>2. StoreOK'
    BY <1>1, StoreUnchanged DEF ReadPoolRow
  <1> DEFINE r == req[c]
             v == poolVersion[r.path]
  <1>3. r \in Requests /\ r.path \in Paths /\ v \in Nat /\ tries[c] \in 0..(MaxAttempts - 1)
    BY <1>1 DEF StoreOK, ClientsOK, Known
  <1>4. "readEntries" \in Labels /\ "save" \in Labels
    BY DEF Labels
  <1>5. CASE v # 0
    <2> DEFINE k == [copy[c] EXCEPT !.version = v]
    <2>1. k \in Copies
      BY <1>1, <1>3 DEF ClientsOK, Copies
    <2>2. Becomes(c, "readEntries", r, k, tries[c])
      BY <1>1, <1>5 DEF ReadPoolRow, Goto, Becomes, ClientsOK
    <2>3. Known("readEntries", r, k)
      BY <1>1 DEF Known, GoesThrough, ClientsOK, Copies
    <2> HIDE DEF k
    <2> QED BY <1>2, <1>3, <1>4, <2>1, <2>2, <2>3, BecomesType
  <1>6. CASE v = 0 /\ r.op = "enqueue"
    <2> DEFINE k == [version |-> 0, entries |-> Enqueued(EmptyPool, r.unit), home |-> r.path]
    <2>1. r.unit \in WorkUnits
      BY <1>1, <1>6 DEF Known
    <2>2. k \in Copies
      BY <1>3, <2>1, EmptyPoolType, UpdateTypes DEF Copies
    <2>3. Becomes(c, "save", r, k, tries[c])
      BY <1>1, <1>6 DEF ReadPoolRow, Goto, Becomes, ClientsOK
    <2>4. Known("save", r, k)
      BY <1>3, <1>6, <2>1 DEF Known, GoesThrough
    <2> HIDE DEF k
    <2> QED BY <1>2, <1>3, <1>4, <2>2, <2>3, <2>4, BecomesType
  <1>7. CASE v = 0 /\ r.op = "release"
    BY <1>2, <1>7, FinishType DEF ReadPoolRow
  <1> QED BY <1>5, <1>6, <1>7 DEF ReadPoolRow

(* A request that has read the entries has a whole copy. *)
LEMMA ReadPoolEntriesType ==
  ASSUME TypeOK, NEW c \in Clients, ReadPoolEntries(c)
  PROVE  TypeOK'
  <1>1. StoreOK /\ ClientsOK /\ Known("readEntries", req[c], copy[c])
    BY TypeOKParts DEF ReadPoolEntries, DecideEnqueue, DecideRelease, DecideComplete
  <1>2. StoreOK'
    BY <1>1, StoreUnchanged
       DEF ReadPoolEntries, DecideEnqueue, DecideRelease, DecideComplete
  <1> DEFINE r == req[c]
             e == poolEntries[r.path]
  <1>3. r \in Requests /\ r.path \in Paths /\ e \in Pools /\ tries[c] \in 0..(MaxAttempts - 1)
    BY <1>1 DEF StoreOK, ClientsOK, Known
  <1>4. "pick" \in Labels /\ "save" \in Labels
    BY DEF Labels
  <1>5. CASE r.op = "enqueue" /\ e[r.unit] = "absent"
    <2> DEFINE k == [copy[c] EXCEPT !.entries = Enqueued(e, r.unit), !.home = r.path]
    <2>1. r.unit \in WorkUnits
      BY <1>1, <1>5 DEF Known
    <2>2. Enqueued(e, r.unit) \in Pools
      BY <1>3, <2>1, UpdateTypes
    <2>3. k \in Copies /\ k.home = r.path
      BY <1>1, <1>3, <2>2 DEF ClientsOK, Copies
    <2>4. Becomes(c, "save", r, k, tries[c])
      BY <1>1, <1>5
         DEF ReadPoolEntries, DecideEnqueue, DecideRelease, DecideComplete, Goto,
             Becomes, ClientsOK
    <2>5. Known("save", r, k)
      BY <1>3, <1>5, <2>1, <2>3 DEF Known, GoesThrough
    <2> HIDE DEF k
    <2> QED BY <1>2, <1>3, <1>4, <2>3, <2>4, <2>5, BecomesType
  <1>6. CASE r.op = "enqueue" /\ e[r.unit] # "absent"
    BY <1>2, <1>6, FinishType
       DEF ReadPoolEntries, DecideEnqueue, DecideRelease, DecideComplete
  <1>7. CASE r.op = "release"
    <2> DEFINE k == [copy[c] EXCEPT !.entries = e]
    <2>1. k \in Copies
      BY <1>1, <1>3 DEF ClientsOK, Copies
    <2>2. Becomes(c, "pick", r, k, tries[c])
      BY <1>1, <1>7
         DEF ReadPoolEntries, DecideEnqueue, DecideRelease, DecideComplete, Goto,
             Becomes, ClientsOK
    <2>3. Known("pick", r, k)
      BY <1>3, <1>7 DEF Known, GoesThrough
    <2> HIDE DEF k
    <2> QED BY <1>2, <1>3, <1>4, <2>1, <2>2, <2>3, BecomesType
  <1>8. CASE r.op = "complete" /\ e[r.unit] # "absent"
    <2> DEFINE k == [copy[c] EXCEPT !.entries = Reconciled(e, r.unit, "Completed")]
    <2>1. r.unit \in WorkUnits /\ copy[c].home = r.path
      BY <1>1, <1>8 DEF Known
    <2>2. Reconciled(e, r.unit, "Completed") \in Pools
      BY <1>3, <2>1, UpdateTypes
    <2>3. k \in Copies /\ k.home = r.path
      BY <1>1, <2>1, <2>2 DEF ClientsOK, Copies
    <2>4. Becomes(c, "save", r, k, tries[c])
      BY <1>1, <1>8
         DEF ReadPoolEntries, DecideEnqueue, DecideRelease, DecideComplete, Goto,
             Becomes, ClientsOK
    <2>5. Known("save", r, k)
      BY <1>3, <1>8, <2>1, <2>3 DEF Known, GoesThrough
    <2> HIDE DEF k
    <2> QED BY <1>2, <1>3, <1>4, <2>3, <2>4, <2>5, BecomesType
  <1> QED
    BY <1>5, <1>6, <1>7, <1>8
       DEF ReadPoolEntries, DecideEnqueue, DecideRelease, DecideComplete

(* A release that goes on has a unit. *)
LEMMA PickUnitType ==
  ASSUME TypeOK, NEW c \in Clients, PickUnit(c)
  PROVE  TypeOK'
  <1>1. StoreOK /\ ClientsOK /\ Known("pick", req[c], copy[c])
    BY TypeOKParts DEF PickUnit
  <1>2. CASE Finish(c) /\ UNCHANGED store
    BY <1>1, <1>2, FinishType, StoreUnchanged
  <1>3. ASSUME NEW w \in WorkUnits, PickNext(c, w)
        PROVE  TypeOK'
    <2>1. StoreOK'
      BY <1>1, <1>3, StoreUnchanged DEF PickNext
    <2> DEFINE r == [req[c] EXCEPT !.unit = w]
               k == [copy[c] EXCEPT !.entries = Released(copy[c].entries, w),
                                    !.home = unit[w].path]
               h == [copy[c] EXCEPT !.entries =
                        Reconciled(Released(copy[c].entries, w), w, unit[w].state)]
    <2>2. /\ req[c] \in Requests /\ req[c].op = "release" /\ req[c].path \in Paths
          /\ copy[c] \in Copies /\ tries[c] \in 0..(MaxAttempts - 1)
      BY <1>1 DEF Known, GoesThrough, ClientsOK
    <2>3. copy[c].entries \in Pools /\ Released(copy[c].entries, w) \in Pools
      BY <2>2, UpdateTypes DEF Copies
    <2>4. Reconciled(Released(copy[c].entries, w), w, unit[w].state) \in Pools
      BY <2>3, UpdateTypes
    <2>5. "pick" \in Labels /\ "save" \in Labels
      BY DEF Labels
    <2>6. CASE unit[w].state = "Pending"
      <3>1. unit[w].path \in Paths
        BY <1>1, <2>6 DEF StoreOK, Units
      <3>2. r \in Requests /\ r.op = "release" /\ r.unit = w /\ r.path \in Paths
        BY <2>2 DEF Requests
      <3>3. k \in Copies /\ k.home \in Paths
        BY <2>2, <2>3, <3>1 DEF Copies
      <3>4. Becomes(c, "save", r, k, tries[c])
        BY <1>1, <1>3, <2>6 DEF PickNext, Goto, Becomes, ClientsOK
      <3>5. Known("save", r, k)
        BY <3>2, <3>3 DEF Known, GoesThrough
      <3> HIDE DEF r, k
      <3> QED BY <2>1, <2>2, <2>5, <3>2, <3>3, <3>4, <3>5, BecomesType
    <2>7. CASE unit[w].state \in {"Released", "Completed"}
      <3>1. h \in Copies
        BY <2>2, <2>4 DEF Copies
      <3>2. Becomes(c, "pick", req[c], h, tries[c])
        BY <1>1, <1>3, <2>7 DEF PickNext, PickUnit, Goto, Becomes, ClientsOK
      <3>3. Known("pick", req[c], h)
        BY <2>2 DEF Known, GoesThrough
      <3> HIDE DEF h
      <3> QED BY <2>1, <2>2, <2>5, <3>1, <3>2, <3>3, BecomesType
    <2> QED BY <1>3, <2>6, <2>7 DEF PickNext
  <1> QED BY <1>2, <1>3 DEF PickUnit, NextPending, Pending

(* A save writes values of the declared types. *)
LEMMA SaveType ==
  ASSUME TypeOK, NEW c \in Clients, Save(c)
  PROVE  TypeOK'
  <1>1. StoreOK /\ ClientsOK /\ Known("save", req[c], copy[c])
    BY TypeOKParts DEF Save
  <1> DEFINE r == req[c]
  <1>2. /\ r.unit \in WorkUnits /\ r.path \in Paths
        /\ copy[c].version \in Nat /\ copy[c].entries \in Pools /\ copy[c].home \in Paths
    BY <1>1 DEF Known, ClientsOK, Copies
  <1>3. Outcome(r.op) \in UnitStates \ {"None"} /\ EventOf(r.op) \in EventTypes
    BY DEF Outcome, EventOf, UnitStates, EventTypes
  <1>4. [state |-> Outcome(r.op), path |-> copy[c].home] \in Units
    BY <1>2, <1>3 DEF Units
  <1> HIDE DEF r
  <1>5. /\ poolVersion' \in [Paths -> Nat]
        /\ poolEntries' \in [Paths -> Pools]
        /\ unit' \in [WorkUnits -> Units]
    BY <1>1, <1>2, <1>4 DEF Save, Write, WritePool, WriteUnit, Publish, StoreOK, r
  <1>6. events' \in [WorkUnits -> Seq(EventTypes)]
    BY <1>1, <1>2, <1>3 DEF Save, Write, WritePool, WriteUnit, Publish, StoreOK, r
  <1>7. ASSUME NEW w \in WorkUnits
        PROVE  unit'[w].state = "None" <=> unit'[w].path = NoPath
    <2>1. CASE w = r.unit
      BY <1>1, <1>2, <1>3, <2>1, PlanningAssumption
         DEF Save, Write, WritePool, WriteUnit, Publish, StoreOK, r
    <2>2. CASE w # r.unit
      BY <1>1, <2>2 DEF Save, Write, WritePool, WriteUnit, Publish, StoreOK, r
    <2> QED BY <2>1, <2>2
  <1>8. StoreOK'
    BY <1>5, <1>6, <1>7 DEF StoreOK
  <1> QED BY <1>8, FinishType DEF Save

(* A lost race starts from nothing but the request, or answers. *)
LEMMA LoseRaceType ==
  ASSUME TypeOK, NEW c \in Clients, LoseRace(c)
  PROVE  TypeOK'
  <1>1. StoreOK /\ ClientsOK /\ Known("save", req[c], copy[c])
    BY TypeOKParts DEF LoseRace
  <1>2. StoreOK'
    BY <1>1, StoreUnchanged DEF LoseRace
  <1>3. CASE tries[c] + 1 < MaxAttempts
    <2> DEFINE op == req[c].op
               r == Original(req[c])
    <2>1. /\ req[c] \in Requests /\ req[c].path \in Paths /\ req[c].unit \in WorkUnits
          /\ op \in {"enqueue", "release", "complete"}
      BY <1>1 DEF Known, GoesThrough, ClientsOK
    <2>2. /\ r \in Requests /\ r.op = op
          /\ r.path = IF op = "complete" THEN NoPath ELSE req[c].path
          /\ r.unit = IF op = "release" THEN NoUnit ELSE req[c].unit
      BY <2>1 DEF Requests, Original
    <2>3. tries[c] + 1 \in 0..(MaxAttempts - 1)
      BY <1>1, <1>3, PlanningAssumption DEF ClientsOK
    <2>4. FirstLabel(op) \in Labels
      BY DEF FirstLabel, Labels
    <2>5. Becomes(c, FirstLabel(op), r, NoCopy, tries[c] + 1)
      BY <1>1, <1>3 DEF LoseRace, Finish, Goto, Becomes, ClientsOK
    <2> HIDE DEF r
    <2>6. Known(FirstLabel(op), r, NoCopy)
      BY <2>1, <2>2 DEF Known, GoesThrough, FirstLabel, NoCopy
    <2> QED BY <1>2, <2>2, <2>3, <2>4, <2>5, <2>6, NothingTypes, BecomesType
  <1>4. CASE tries[c] + 1 = MaxAttempts
    BY <1>2, <1>4, FinishType, PlanningAssumption DEF LoseRace
  <1> QED BY <1>3, <1>4 DEF LoseRace

-----------------------------------------------------------------------------
(* No step breaks the type invariant. *)
LEMMA TypeStep ==
  ASSUME TypeOK, [Next]_vars
  PROVE  TypeOK'
  <1>1. ASSUME NEW c \in Clients, NEW w \in WorkUnits, NEW p \in Paths, BeginEnqueue(c, w, p)
        PROVE  TypeOK'
    <2> DEFINE r == [op |-> "enqueue", unit |-> w, path |-> p]
    <2>1. r \in Requests /\ "readRow" \in Labels /\ Known("readRow", r, NoCopy)
      BY DEF Requests, Labels, Known, GoesThrough
    <2> QED BY <1>1, <2>1, BeginType DEF BeginEnqueue
  <1>2. ASSUME NEW c \in Clients, NEW p \in Paths, BeginRelease(c, p)
        PROVE  TypeOK'
    <2> DEFINE r == [op |-> "release", unit |-> NoUnit, path |-> p]
    <2>1. r \in Requests /\ "readRow" \in Labels /\ Known("readRow", r, NoCopy)
      BY DEF Requests, Labels, Known, GoesThrough
    <2> QED BY <1>2, <2>1, BeginType DEF BeginRelease
  <1>3. ASSUME NEW c \in Clients, NEW w \in WorkUnits, BeginComplete(c, w)
        PROVE  TypeOK'
    <2> DEFINE r == [op |-> "complete", unit |-> w, path |-> NoPath]
    <2>1. r \in Requests /\ "readUnit" \in Labels /\ Known("readUnit", r, NoCopy)
      BY DEF Requests, Labels, Known, GoesThrough, NoCopy
    <2> QED BY <1>3, <2>1, BeginType DEF BeginComplete
  <1>4. ASSUME NEW c \in Clients, Step(c)
        PROVE  TypeOK'
    BY <1>4, ReadUnitType, ReadPoolRowType, ReadPoolEntriesType, PickUnitType,
       SaveType, LoseRaceType DEF Step
  <1>5. ASSUME NEW c \in Clients, Abandon(c)
        PROVE  TypeOK'
    BY <1>5, TypeOKParts, FinishType, StoreUnchanged DEF Abandon
  <1>6. CASE UNCHANGED vars
    BY <1>6 DEF TypeOK, vars, store, client
  <1> QED BY <1>1, <1>2, <1>3, <1>4, <1>5, <1>6 DEF Next, Act

(* Every variable keeps its type, and every client knows what its next     *)
(* step needs, in every behaviour.                                         *)
THEOREM TypeCorrect == Spec => []TypeOK
  <1>1. Init => TypeOK
    BY EmptyPoolType, NothingTypes, PlanningAssumption
       DEF Init, TypeOK, Units, UnitStates, Labels, Known, GoesThrough, NoRequest
  <1>2. TypeOK /\ [Next]_vars => TypeOK'
    BY TypeStep
  <1> QED BY <1>1, <1>2, PTL DEF Spec

-----------------------------------------------------------------------------
(* What every step has in common. *)

(* Only c moves. *)
OnlyMoves(c) ==
    \A d \in Clients \ {c} : pc'[d] = pc[d] /\ req'[d] = req[d] /\ copy'[d] = copy[d]

(* One step of one client leaves the others where they are. *)
LEMMA OneMoves ==
  ASSUME TypeOK, NEW c \in Clients, Act(c)
  PROVE  OnlyMoves(c)
  <1>1. ClientsOK
    BY TypeOKParts
  <1>2. CASE Finish(c)
    BY <1>1, <1>2 DEF ClientsOK, Finish, Goto, OnlyMoves
  <1>3. ASSUME NEW r, NEW l, Begin(c, r, l)
        PROVE  OnlyMoves(c)
    BY <1>1, <1>3 DEF ClientsOK, Begin, Goto, OnlyMoves
  <1>4. CASE ReadUnit(c)
    BY <1>1, <1>2, <1>4 DEF ClientsOK, ReadUnit, Goto, OnlyMoves
  <1>5. CASE ReadPoolRow(c)
    BY <1>1, <1>2, <1>5 DEF ClientsOK, ReadPoolRow, Goto, OnlyMoves
  <1>6. CASE ReadPoolEntries(c)
    BY <1>1, <1>2, <1>6
       DEF ClientsOK, ReadPoolEntries, DecideEnqueue, DecideRelease, DecideComplete,
           Goto, OnlyMoves
  <1>7. CASE PickUnit(c)
    <2>1. ASSUME NEW w, PickNext(c, w)
          PROVE  OnlyMoves(c)
      BY <1>1, <2>1 DEF ClientsOK, PickNext, Goto, OnlyMoves
    <2> QED BY <1>2, <1>7, <2>1 DEF PickUnit
  <1>8. CASE LoseRace(c)
    BY <1>1, <1>2, <1>8 DEF ClientsOK, LoseRace, Goto, OnlyMoves
  <1> QED
    BY <1>2, <1>3, <1>4, <1>5, <1>6, <1>7, <1>8
       DEF Act, BeginEnqueue, BeginRelease, BeginComplete, Step, Save, Abandon

(* Only a save touches the store. *)
LEMMA OnlySaveWrites ==
  ASSUME NEW c \in Clients, Act(c), ~Save(c)
  PROVE  UNCHANGED store
  BY DEF Act, BeginEnqueue, BeginRelease, BeginComplete, Begin, Step, Abandon,
         ReadUnit, ReadPoolRow, ReadPoolEntries,
         DecideEnqueue, DecideRelease, DecideComplete, PickUnit, PickNext, LoseRace

-----------------------------------------------------------------------------
(* Counting the outstanding units of a pool. *)

(* A pool has a number of outstanding units. *)
LEMMA WIPType ==
  ASSUME NEW pool \in Pools
  PROVE  IsFiniteSet(Outstanding(pool)) /\ WIP(pool) \in Nat
  <1>1. Outstanding(pool) \subseteq WorkUnits
    BY DEF Outstanding
  <1> QED BY <1>1, PoolAssumption, FS_Subset, FS_CardinalityType DEF WIP

(* No more units, no more of them outstanding. *)
LEMMA WIPShrinks ==
  ASSUME NEW pool \in Pools, NEW after \in Pools,
         Outstanding(after) \subseteq Outstanding(pool)
  PROVE  WIP(after) <= WIP(pool)
  BY WIPType, FS_Subset DEF WIP

(* One more unit is at most one more outstanding. *)
LEMMA WIPGrowsByOne ==
  ASSUME NEW pool \in Pools, NEW after \in Pools, NEW w,
         Outstanding(after) \subseteq Outstanding(pool) \cup {w}
  PROVE  WIP(after) <= WIP(pool) + 1
  <1> DEFINE S == Outstanding(pool)
             T == Outstanding(after)
  <1>1. IsFiniteSet(S) /\ IsFiniteSet(T) /\ Cardinality(S) \in Nat /\ Cardinality(T) \in Nat
    BY WIPType DEF WIP
  <1> HIDE DEF S, T
  <1>2. IsFiniteSet(S \cup {w})
    BY <1>1, FS_AddElement
  <1>3. Cardinality(S \cup {w}) \in {Cardinality(S), Cardinality(S) + 1}
    BY <1>1, FS_AddElement
  <1>4. T \subseteq S \cup {w}
    BY DEF S, T
  <1>5. Cardinality(T) <= Cardinality(S \cup {w})
    BY <1>2, <1>4, FS_Subset
  <1> QED BY <1>1, <1>3, <1>5 DEF S, T, WIP

-----------------------------------------------------------------------------
(* The WIP limit. *)

(* A copy that an operation has been decided on is within the limit. *)
CopyWithinLimit(label, k) == label \in {"pick", "save"} => WIP(k.entries) <= WipLimit

(* The committed pools alone are not inductive: what is saved next is in   *)
(* the copies.  That nothing else of a copy matters, not even whether its  *)
(* version still is the pool's, is why the limit holds on any interleaving *)
(* (each copy comes from one committed pool and one operation).            *)
WipInv ==
    /\ WipLimitRespected
    /\ \A c \in Clients : CopyWithinLimit(pc[c], copy[c])

(* The operations the use cases apply to a copy keep it within the limit. *)
LEMMA UpdatesWithinLimit ==
  ASSUME NEW pool \in Pools, WIP(pool) <= WipLimit, NEW w \in WorkUnits, NEW s
  PROVE  /\ WIP(Enqueued(pool, w)) <= WipLimit
         /\ WIP(Reconciled(pool, w, "Completed")) <= WipLimit
         /\ CanReleaseNext(pool) =>
               /\ WIP(Released(pool, w)) <= WipLimit
               /\ WIP(Reconciled(Released(pool, w), w, s)) <= WipLimit
  <1> DEFINE e == Enqueued(pool, w)
             d == Reconciled(pool, w, "Completed")
             r == Released(pool, w)
             h == Reconciled(r, w, s)
  <1>1. e \in Pools /\ d \in Pools /\ r \in Pools
    BY UpdateTypes
  <1>2. h \in Pools
    BY <1>1, UpdateTypes
  <1>3. WIP(pool) \in Nat /\ WIP(e) \in Nat /\ WIP(d) \in Nat /\ WIP(r) \in Nat /\ WIP(h) \in Nat
    BY <1>1, <1>2, WIPType
  <1>4. Outstanding(e) \subseteq Outstanding(pool)
    BY DEF Outstanding, Enqueued, Pools
  <1>5. Outstanding(d) \subseteq Outstanding(pool)
    BY DEF Outstanding, Reconciled, ReconciledState, Pools
  <1>6. Outstanding(r) \subseteq Outstanding(pool) \cup {w}
    BY DEF Outstanding, Released, Pools
  <1>7. Outstanding(h) \subseteq Outstanding(pool) \cup {w}
    BY DEF Outstanding, Released, Reconciled, ReconciledState, Pools
  <1> HIDE DEF e, d, r, h
  <1>8. WIP(e) <= WIP(pool) /\ WIP(d) <= WIP(pool)
    BY <1>1, <1>4, <1>5, WIPShrinks
  <1>9. WIP(r) <= WIP(pool) + 1 /\ WIP(h) <= WIP(pool) + 1
    BY <1>1, <1>2, <1>6, <1>7, WIPGrowsByOne
  <1> QED BY <1>3, <1>8, <1>9, PoolAssumption DEF CanReleaseNext, e, d, r, h

(* An empty pool is within the limit. *)
LEMMA EmptyWithinLimit == WIP(EmptyPool) <= WipLimit
  <1>1. Outstanding(EmptyPool) = {}
    BY DEF Outstanding, EmptyPool
  <1> QED BY <1>1, PoolAssumption, FS_EmptySet DEF WIP

(* However requests interleave, no path ever has more than WipLimit units  *)
(* outstanding.                                                            *)
THEOREM WipLimitHolds == Spec => []WipLimitRespected
  <1>1. Init => WipInv
    BY EmptyWithinLimit DEF Init, WipInv, WipLimitRespected, CopyWithinLimit
  <1>2. TypeOK /\ WipInv /\ [Next]_vars => WipInv'
    <2> SUFFICES ASSUME TypeOK, WipInv, [Next]_vars PROVE WipInv'
      OBVIOUS
    <2>1. ASSUME NEW c \in Clients, Act(c)
          PROVE  WipInv'
      <3>1. StoreOK /\ ClientsOK /\ Known(pc[c], req[c], copy[c])
        BY TypeOKParts
      <3>2. OnlyMoves(c)
        BY <2>1, OneMoves
      <3>3. WipLimitRespected'
        <4>1. CASE Save(c)
          <5>1. WIP(copy[c].entries) <= WipLimit
            BY <4>1 DEF Save, WipInv, CopyWithinLimit
          <5>2. poolEntries' = [poolEntries EXCEPT ![req[c].path] = copy[c].entries]
            BY <4>1 DEF Save, Write, WritePool, WriteUnit, Publish
          <5> QED BY <3>1, <5>1, <5>2 DEF StoreOK, WipInv, WipLimitRespected
        <4>2. CASE ~Save(c)
          <5>1. poolEntries' = poolEntries
            BY <2>1, <4>2, OnlySaveWrites DEF store
          <5> QED BY <5>1 DEF WipInv, WipLimitRespected
        <4> QED BY <4>1, <4>2
      <3>4. CopyWithinLimit(pc'[c], copy'[c])
        <4> DEFINE e == poolEntries[req[c].path]
                   k == copy[c].entries
        <4>1. CASE Finish(c)
          BY <3>1, <4>1 DEF Finish, Goto, CopyWithinLimit, ClientsOK
        <4>2. ASSUME NEW r, NEW l \in {"readUnit", "readRow"}, Begin(c, r, l)
              PROVE  CopyWithinLimit(pc'[c], copy'[c])
          BY <3>1, <4>2 DEF Begin, Goto, CopyWithinLimit, ClientsOK
        <4>3. CASE ReadUnit(c)
          BY <3>1, <4>1, <4>3 DEF ReadUnit, Goto, CopyWithinLimit, ClientsOK
        <4>4. CASE ReadPoolRow(c)
          <5>1. req[c].op = "enqueue" => WIP(Enqueued(EmptyPool, req[c].unit)) <= WipLimit
            BY <3>1, EmptyPoolType, EmptyWithinLimit, UpdatesWithinLimit DEF Known
          <5> QED BY <3>1, <4>1, <4>4, <5>1 DEF ReadPoolRow, Goto, CopyWithinLimit, ClientsOK
        <4>5. CASE ReadPoolEntries(c)
          <5>1. e \in Pools /\ WIP(e) <= WipLimit
            BY <3>1, <4>5
               DEF ReadPoolEntries, DecideEnqueue, DecideRelease, DecideComplete,
                   Known, StoreOK, WipInv, WipLimitRespected
          <5>2. req[c].op \in {"enqueue", "complete"} =>
                   /\ WIP(Enqueued(e, req[c].unit)) <= WipLimit
                   /\ WIP(Reconciled(e, req[c].unit, "Completed")) <= WipLimit
            BY <3>1, <5>1, UpdatesWithinLimit DEF Known
          <5> HIDE DEF e
          <5>3. copy'[c].entries \in
                   {e} \cup (IF req[c].op \in {"enqueue", "complete"}
                            THEN {Enqueued(e, req[c].unit), Reconciled(e, req[c].unit, "Completed")}
                            ELSE {}) \/ Finish(c)
            BY <3>1, <4>5
               DEF ReadPoolEntries, DecideEnqueue, DecideRelease, DecideComplete,
                   ClientsOK, Copies, e
          <5> QED BY <4>1, <5>1, <5>2, <5>3 DEF CopyWithinLimit
        <4>6. CASE PickUnit(c)
          <5>1. k \in Pools /\ WIP(k) <= WipLimit
            BY <3>1, <4>6 DEF PickUnit, ClientsOK, Copies, WipInv, CopyWithinLimit
          <5>2. ASSUME NEW w \in WorkUnits, PickNext(c, w), CanReleaseNext(k)
                PROVE  CopyWithinLimit(pc'[c], copy'[c])
            <6>1. copy'[c].entries \in {Released(k, w), Reconciled(Released(k, w), w, unit[w].state)}
              BY <3>1, <5>2 DEF PickNext, ClientsOK, Copies
            <6> QED BY <5>1, <5>2, <6>1, UpdatesWithinLimit DEF CopyWithinLimit
          <5> QED BY <4>1, <4>6, <5>2 DEF PickUnit, NextPending, Pending
        <4>7. CASE LoseRace(c)
          BY <3>1, <4>1, <4>7 DEF LoseRace, FirstLabel, Goto, CopyWithinLimit, ClientsOK
        <4> QED
          BY <2>1, <4>1, <4>2, <4>3, <4>4, <4>5, <4>6, <4>7
             DEF Act, BeginEnqueue, BeginRelease, BeginComplete, Step, Save, Abandon
      <3>5. ASSUME NEW d \in Clients \ {c}
            PROVE  CopyWithinLimit(pc'[d], copy'[d])
        BY <3>2, <3>5 DEF OnlyMoves, WipInv
      <3> QED BY <3>3, <3>4, <3>5 DEF WipInv
    <2>2. CASE UNCHANGED vars
      BY <2>2 DEF WipInv, WipLimitRespected, vars, store, client
    <2> QED BY <2>1, <2>2 DEF Next
  <1>3. WipInv => WipLimitRespected
    BY DEF WipInv
  <1> QED BY <1>1, <1>2, <1>3, TypeCorrect, PTL DEF Spec

-----------------------------------------------------------------------------
(* Saves move entries forward, and hand them out by cut-off. *)

(* A later value of a pool: no entry behind, and what has been handed out  *)
(* was as urgent as anything left.                                         *)
Follows(pool, later) ==
    /\ \A w \in WorkUnits : Rank(pool[w]) <= Rank(later[w])
    /\ \A w, v \in WorkUnits :
          /\ pool[w] = "pending" /\ later[w] = "released"
          /\ pool[v] = "pending" /\ later[v] = "pending"
          => CptOf[w] <= CptOf[v]

(* A copy is of no version the pool has not had yet; and if the pool has   *)
(* not been saved since the copy's row was read, the copy follows the pool,*)
(* although its entries were read in another statement.                    *)
CopyFollows(label, r, k) ==
    /\ label \in {"readEntries", "pick", "save"} => k.version <= poolVersion[r.path]
    /\ label \in {"pick", "save"} /\ k.version = poolVersion[r.path] =>
          Follows(poolEntries[r.path], k.entries)

(* A path without a row has no entries; and every copy follows its pool.   *)
FollowInv ==
    /\ \A p \in Paths : poolVersion[p] = 0 => poolEntries[p] = EmptyPool
    /\ \A c \in Clients : CopyFollows(pc[c], req[c], copy[c])

(* The ranks are numbers. *)
LEMMA RankValues ==
  /\ Rank("absent") = 0 /\ Rank("pending") = 1
  /\ Rank("released") = 2 /\ Rank("completed") = 3
  BY DEF Rank

(* A pool follows itself, and each operation's result follows it. *)
LEMMA UpdatesFollow ==
  ASSUME NEW pool \in Pools
  PROVE  /\ Follows(pool, pool)
         /\ \A w \in WorkUnits : pool[w] = "absent" => Follows(pool, Enqueued(pool, w))
         /\ \A w \in WorkUnits : Follows(pool, Reconciled(pool, w, "Completed"))
  <1>1. Follows(pool, pool)
    BY RankValues DEF Follows, Pools, EntryStates
  <1>2. ASSUME NEW w \in WorkUnits, pool[w] = "absent"
        PROVE  Follows(pool, Enqueued(pool, w))
    BY <1>2, RankValues DEF Follows, Enqueued, Pools, EntryStates
  <1>3. ASSUME NEW w \in WorkUnits
        PROVE  Follows(pool, Reconciled(pool, w, "Completed"))
    BY <1>3, RankValues DEF Follows, Reconciled, ReconciledState, Pools, EntryStates
  <1> QED BY <1>1, <1>2, <1>3

(* Handing out the next entry of a copy that follows a pool, and healing   *)
(* it if its unit has moved on, gives a copy that still does.              *)
LEMMA ReleaseFollows ==
  ASSUME NEW pool \in Pools, NEW k \in Pools, Follows(pool, k),
         NEW w \in NextPending(k), NEW s
  PROVE  Follows(pool, Released(k, w)) /\ Follows(pool, Reconciled(Released(k, w), w, s))
  <1> DEFINE r == Released(k, w)
             h == Reconciled(r, w, s)
  <1>1. w \in WorkUnits /\ k[w] = "pending"
    BY DEF NextPending, Pending
  <1>2. \A v \in WorkUnits : k[v] = "pending" => CptOf[w] <= CptOf[v]
    BY DEF NextPending, Pending
  <1>3. r \in [WorkUnits -> EntryStates] /\ r[w] = "released" /\ \A v \in WorkUnits \ {w} : r[v] = k[v]
    BY <1>1 DEF Released, Pools, EntryStates
  <1>4. /\ h \in [WorkUnits -> EntryStates] /\ h[w] \in {"released", "completed"}
        /\ \A v \in WorkUnits \ {w} : h[v] = k[v]
    BY <1>1, <1>3 DEF Reconciled, ReconciledState, EntryStates
  <1> HIDE DEF r, h
  <1>5. pool \in [WorkUnits -> EntryStates] /\ k \in [WorkUnits -> EntryStates]
    BY DEF Pools
  <1>6. Follows(pool, r)
    BY <1>1, <1>2, <1>3, <1>5, RankValues DEF Follows, EntryStates
  <1>7. Follows(pool, h)
    BY <1>1, <1>2, <1>4, <1>5, RankValues DEF Follows, EntryStates
  <1> QED BY <1>6, <1>7 DEF r, h

(* No step breaks FollowInv. *)
LEMMA FollowStep ==
  ASSUME TypeOK, FollowInv, [Next]_vars
  PROVE  FollowInv'
  <1>1. ASSUME NEW c \in Clients, Act(c)
        PROVE  FollowInv'
    <2>1. StoreOK /\ ClientsOK /\ Known(pc[c], req[c], copy[c])
      BY TypeOKParts
    <2>2. OnlyMoves(c)
      BY <1>1, OneMoves
    <2>3. CASE Save(c)
      <3> DEFINE p == req[c].path
      <3>1. p \in Paths /\ copy[c].version \in Nat /\ poolVersion[p] = copy[c].version
        BY <2>1, <2>3 DEF Save, Known, ClientsOK, Copies
      <3>2. /\ poolVersion' = [poolVersion EXCEPT ![p] = copy[c].version + 1]
            /\ poolEntries' = [poolEntries EXCEPT ![p] = copy[c].entries]
        BY <2>3 DEF Save, Write, WritePool, WriteUnit, Publish
      <3>3. pc'[c] = "idle"
        BY <2>1, <2>3 DEF Save, Finish, Goto, ClientsOK
      <3> HIDE DEF p
      <3>4. \A q \in Paths : poolVersion'[q] = 0 => poolEntries'[q] = EmptyPool
        BY <2>1, <3>1, <3>2 DEF StoreOK, FollowInv
      <3>5. ASSUME NEW d \in Clients
            PROVE  CopyFollows(pc[d], req[d], copy[d])'
        <4>1. CASE d = c
          BY <3>3, <4>1 DEF CopyFollows
        <4>2. CASE d # c
          <5>1. pc'[d] = pc[d] /\ req'[d] = req[d] /\ copy'[d] = copy[d]
            BY <2>2, <4>2 DEF OnlyMoves
          <5>2. CopyFollows(pc[d], req[d], copy[d]) /\ Known(pc[d], req[d], copy[d])
            BY TypeOKParts DEF FollowInv
          <5>3. copy[d].version \in Nat
            BY <2>1 DEF ClientsOK, Copies
          <5>4. CASE pc[d] \notin {"readEntries", "pick", "save"}
            BY <5>1, <5>4 DEF CopyFollows
          <5>5. CASE pc[d] \in {"readEntries", "pick", "save"} /\ req[d].path = p
            <6>1. poolVersion'[p] = copy[c].version + 1 /\ copy[d].version <= copy[c].version
              BY <2>1, <3>1, <3>2, <5>2, <5>5 DEF StoreOK, CopyFollows
            <6> QED BY <3>1, <5>1, <5>3, <5>5, <6>1 DEF CopyFollows
          <5>6. CASE pc[d] \in {"readEntries", "pick", "save"} /\ req[d].path # p
            <6>1. req[d].path \in Paths
              BY <5>2, <5>6 DEF Known
            <6>2. /\ poolVersion'[req[d].path] = poolVersion[req[d].path]
                  /\ poolEntries'[req[d].path] = poolEntries[req[d].path]
              BY <2>1, <3>2, <5>6, <6>1 DEF StoreOK
            <6> QED BY <5>1, <5>2, <6>2 DEF CopyFollows
          <5> QED BY <5>4, <5>5, <5>6
        <4> QED BY <4>1, <4>2
      <3> QED BY <3>4, <3>5 DEF FollowInv
    <2>4. CASE ~Save(c)
      <3>1. poolVersion' = poolVersion /\ poolEntries' = poolEntries /\ unit' = unit
        BY <1>1, <2>4, OnlySaveWrites DEF store
      <3>2. CopyFollows(pc'[c], req'[c], copy'[c])
        <4> DEFINE e == poolEntries[req[c].path]
        <4>2. CASE Finish(c)
          BY <2>1, <4>2 DEF Finish, Goto, CopyFollows, ClientsOK
        <4>3. ASSUME NEW r, NEW l \in {"readUnit", "readRow"}, Begin(c, r, l)
              PROVE  CopyFollows(pc'[c], req'[c], copy'[c])
          BY <2>1, <4>3 DEF Begin, Goto, CopyFollows, ClientsOK
        <4>4. CASE ReadUnit(c)
          BY <2>1, <4>2, <4>4 DEF ReadUnit, Goto, CopyFollows, ClientsOK
        <4>5. CASE ReadPoolRow(c)
          <5>1. req[c].path \in Paths /\ poolVersion[req[c].path] \in Nat
            BY <2>1, <4>5 DEF ReadPoolRow, Known, StoreOK
          <5>2. CASE poolVersion[req[c].path] # 0
            BY <2>1, <4>5, <5>1, <5>2
               DEF ReadPoolRow, Goto, CopyFollows, ClientsOK, Copies
          <5>3. CASE poolVersion[req[c].path] = 0 /\ req[c].op = "enqueue"
            <6>1. req[c].unit \in WorkUnits /\ e = EmptyPool
              BY <2>1, <5>1, <5>3 DEF Known, FollowInv
            <6>2. Follows(e, Enqueued(EmptyPool, req[c].unit))
              BY <6>1, EmptyPoolType, UpdatesFollow DEF EmptyPool
            <6> HIDE DEF e
            <6>3. copy'[c].version = 0 /\ copy'[c].entries = Enqueued(EmptyPool, req[c].unit) /\ req' = req
              BY <2>1, <4>5, <5>3 DEF ReadPoolRow, ClientsOK
            <6> QED BY <5>1, <5>3, <6>2, <6>3 DEF CopyFollows, e
          <5> QED BY <4>2, <4>5, <5>2, <5>3 DEF ReadPoolRow
        <4>6. CASE ReadPoolEntries(c)
          <5>1. req[c].path \in Paths /\ e \in Pools /\ copy[c].version <= poolVersion[req[c].path]
            BY <2>1, <4>6
               DEF ReadPoolEntries, DecideEnqueue, DecideRelease, DecideComplete,
                   Known, StoreOK, FollowInv, CopyFollows
          <5>2. \/ Finish(c)
                \/ /\ req' = req /\ copy'[c].version = copy[c].version
                   /\ \/ copy'[c].entries = e
                      \/ /\ req[c].unit \in WorkUnits /\ e[req[c].unit] = "absent"
                         /\ copy'[c].entries = Enqueued(e, req[c].unit)
                      \/ /\ req[c].unit \in WorkUnits
                         /\ copy'[c].entries = Reconciled(e, req[c].unit, "Completed")
            BY <2>1, <4>6
               DEF ReadPoolEntries, DecideEnqueue, DecideRelease, DecideComplete,
                   Known, ClientsOK, Copies
          <5> HIDE DEF e
          <5>3. Finish(c) \/ (req' = req /\ copy'[c].version = copy[c].version /\ Follows(e, copy'[c].entries))
            BY <5>1, <5>2, UpdatesFollow
          <5> QED BY <4>2, <5>1, <5>3 DEF CopyFollows, e
        <4>7. CASE PickUnit(c)
          <5> DEFINE k == copy[c].entries
          <5>1. req[c].path \in Paths /\ e \in Pools /\ k \in Pools /\ pc[c] = "pick"
            BY <2>1, <4>7 DEF PickUnit, Known, StoreOK, ClientsOK, Copies
          <5>2. CopyFollows("pick", req[c], copy[c])
            BY <5>1 DEF FollowInv
          <5>3. ASSUME NEW w \in NextPending(k), PickNext(c, w)
                PROVE  CopyFollows(pc'[c], req'[c], copy'[c])
            <6>1. copy'[c].entries \in {Released(k, w), Reconciled(Released(k, w), w, unit[w].state)}
              BY <2>1, <5>3 DEF PickNext, ClientsOK, Copies
            <6>2. req'[c].path = req[c].path /\ copy'[c].version = copy[c].version
              BY <2>1, <5>3 DEF PickNext, ClientsOK, Copies, Requests
            <6> HIDE DEF k, e
            <6>3. Follows(e, k) => Follows(e, copy'[c].entries)
              BY <5>1, <6>1, ReleaseFollows
            <6> QED BY <5>2, <6>2, <6>3, <3>1 DEF CopyFollows, e, k
          <5> QED BY <4>2, <4>7, <5>3 DEF PickUnit
        <4>8. CASE LoseRace(c)
          BY <2>1, <4>2, <4>8 DEF LoseRace, FirstLabel, Goto, CopyFollows, ClientsOK
        <4> QED
          BY <1>1, <2>4, <4>2, <4>3, <4>4, <4>5, <4>6, <4>7, <4>8
             DEF Act, BeginEnqueue, BeginRelease, BeginComplete, Step, Abandon
      <3>3. ASSUME NEW d \in Clients \ {c}
             PROVE  CopyFollows(pc'[d], req'[d], copy'[d])
        BY <2>2, <3>3 DEF OnlyMoves, FollowInv
      <3>4. ASSUME NEW d \in Clients
             PROVE  CopyFollows(pc[d], req[d], copy[d])'
        BY <3>1, <3>2, <3>3 DEF CopyFollows
      <3> QED BY <3>1, <3>4 DEF FollowInv
    <2> QED BY <2>3, <2>4
  <1>2. CASE UNCHANGED vars
    BY <1>2 DEF FollowInv, CopyFollows, vars, store, client
  <1> QED BY <1>1, <1>2 DEF Next

(* What a step commits follows what was committed before. *)
LEMMA CommitsFollow ==
  ASSUME TypeOK, FollowInv, [Next]_vars
  PROVE  \A p \in Paths : Follows(poolEntries[p], poolEntries'[p])
  <1>1. StoreOK /\ ClientsOK
    BY TypeOKParts
  <1>2. CASE poolEntries' = poolEntries
    BY <1>1, <1>2, UpdatesFollow DEF StoreOK
  <1>3. ASSUME NEW c \in Clients, Save(c)
        PROVE  \A p \in Paths : Follows(poolEntries[p], poolEntries'[p])
    <2>1. /\ poolVersion[req[c].path] = copy[c].version
          /\ poolEntries' = [poolEntries EXCEPT ![req[c].path] = copy[c].entries]
      BY <1>3 DEF Save, Write, WritePool, WriteUnit, Publish
    <2>2. Follows(poolEntries[req[c].path], copy[c].entries)
      BY <1>3, <2>1 DEF Save, FollowInv, CopyFollows
    <2> QED BY <1>1, <2>1, <2>2, UpdatesFollow DEF StoreOK
  <1> QED BY <1>2, <1>3, OnlySaveWrites DEF Next, vars, store

(* The invariant of copies holds in every behaviour. *)
LEMMA FollowInvHolds == Spec => []FollowInv
  <1>1. Init => FollowInv
    BY DEF Init, FollowInv, CopyFollows
  <1>2. TypeOK /\ FollowInv /\ [Next]_vars => FollowInv'
    BY FollowStep
  <1> QED BY <1>1, <1>2, TypeCorrect, PTL DEF Spec

(* No save undoes another's, in any interleaving of any number of clients. *)
THEOREM NoLostUpdate == Spec => EntriesMoveForward
  <1>1. TypeOK /\ FollowInv /\ [Next]_vars =>
          [\A p \in Paths : \A w \in WorkUnits :
              Rank(poolEntries[p][w]) <= Rank(poolEntries'[p][w])]_store
    BY CommitsFollow DEF Follows
  <1> QED BY <1>1, TypeCorrect, FollowInvHolds, PTL DEF Spec, EntriesMoveForward

(* Work is handed out in the order of the cut-offs, as of the commit. *)
THEOREM UrgentFirst == Spec => EarliestCutoffFirst
  <1>1. TypeOK /\ FollowInv /\ [Next]_vars =>
          [\A p \in Paths : \A w, v \in WorkUnits :
              /\ poolEntries[p][w] = "pending" /\ poolEntries'[p][w] = "released"
              /\ poolEntries[p][v] = "pending" /\ poolEntries'[p][v] = "pending"
              => CptOf[w] <= CptOf[v]]_store
    BY CommitsFollow DEF Follows
  <1> QED BY <1>1, TypeCorrect, FollowInvHolds, PTL DEF Spec, EarliestCutoffFirst
=============================================================================
