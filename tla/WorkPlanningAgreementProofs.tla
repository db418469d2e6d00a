-------------------- MODULE WorkPlanningAgreementProofs --------------------
(***************************************************************************)
(* What the two tables of WorkPlanning have to do with each other: that a  *)
(* unit has its entry, whatever the callers do; and, when each id is       *)
(* enqueued on one path only, that entry and unit agree, that saves are    *)
(* fresh, that no conflict is spurious, and, when completions are recorded *)
(* one at a time, that the protocol implements the lifecycle of a unit.    *)
(***************************************************************************)
EXTENDS WorkPlanningProofs

-----------------------------------------------------------------------------
(* What the steps of a client do, in terms of what the client is at. *)

Pool(c) == poolEntries[req[c].path]

Ended(c) == pc'[c] = "idle" /\ req'[c] = NoRequest /\ tries'[c] = 0

Began(c) ==
    /\ pc[c] = "idle" /\ tries'[c] = tries[c]
    /\ \/ /\ pc'[c] = "readRow" /\ req'[c].op = "enqueue"
          /\ req'[c].unit \in WorkUnits /\ req'[c].path \in PathsOf[req'[c].unit]
       \/ pc'[c] = "readRow" /\ req'[c].op = "release" /\ req'[c].path \in Paths
       \/ /\ pc'[c] = "readUnit" /\ req'[c].op = "complete"
          /\ req'[c].unit \in WorkUnits /\ req'[c].path = NoPath /\ c \in Completers

UnitFound(c) ==
    /\ pc[c] = "readUnit" /\ pc'[c] = "readRow" /\ tries'[c] = tries[c]
    /\ req[c].op = "complete" /\ unit[req[c].unit].state = "Released"
    /\ req'[c] = [req[c] EXCEPT !.path = unit[req[c].unit].path]

RowFound(c) ==
    /\ pc[c] = "readRow" /\ pc'[c] = "readEntries" /\ tries'[c] = tries[c]
    /\ req'[c] = req[c]
    /\ copy'[c].version = poolVersion[req[c].path]

NewPool(c) ==
    /\ pc[c] = "readRow" /\ pc'[c] = "save" /\ tries'[c] = tries[c]
    /\ req'[c] = req[c] /\ req[c].op = "enqueue" /\ poolVersion[req[c].path] = 0
    /\ copy'[c] = [version |-> 0, entries |-> Enqueued(EmptyPool, req[c].unit),
                   home |-> req[c].path]

Decided(c) ==
    /\ pc[c] = "readEntries" /\ tries'[c] = tries[c]
    /\ req'[c] = req[c] /\ copy'[c].version = copy[c].version
    /\ \/ /\ pc'[c] = "save" /\ req[c].op = "enqueue" /\ Pool(c)[req[c].unit] = "absent"
          /\ copy'[c].entries = Enqueued(Pool(c), req[c].unit)
          /\ copy'[c].home = req[c].path
       \/ /\ pc'[c] = "pick" /\ req[c].op = "release"
          /\ copy'[c].entries = Pool(c)
       \/ /\ pc'[c] = "save" /\ req[c].op = "complete" /\ Pool(c)[req[c].unit] # "absent"
          /\ copy'[c].entries = Reconciled(Pool(c), req[c].unit, "Completed")
          /\ copy'[c].home = req[c].path

Picked(c, w) ==
    /\ pc[c] = "pick" /\ tries'[c] = tries[c] /\ req[c].op = "release"
    /\ w \in NextPending(copy[c].entries) /\ CanReleaseNext(copy[c].entries)
    /\ copy'[c].version = copy[c].version
    /\ \/ /\ pc'[c] = "save" /\ unit[w].state = "Pending"
          /\ req'[c] = [req[c] EXCEPT !.unit = w]
          /\ copy'[c].entries = Released(copy[c].entries, w)
          /\ copy'[c].home = unit[w].path
       \/ /\ pc'[c] = "pick" /\ unit[w].state \in {"Released", "Completed"}
          /\ req'[c] = req[c]
          /\ copy'[c].entries = Reconciled(Released(copy[c].entries, w), w, unit[w].state)

Lost(c) ==
    /\ pc[c] = "save" /\ poolVersion[req[c].path] # copy[c].version
    /\ tries'[c] = tries[c] + 1
    /\ req'[c] = Original(req[c])
    /\ pc'[c] = FirstLabel(req[c].op)

Works(c) ==
    \/ Ended(c) \/ Began(c) \/ UnitFound(c) \/ RowFound(c) \/ NewPool(c)
    \/ Decided(c) \/ Lost(c)
    \/ \E w \in WorkUnits : Picked(c, w)

(* Every step of a client but the save is one of these. *)
LEMMA StepsOf ==
  ASSUME TypeOK, NEW c \in Clients, Act(c), ~Save(c)
  PROVE  Works(c)
  <1>1. ClientsOK /\ Known(pc[c], req[c], copy[c])
    BY TypeOKParts
  <1>2. CASE Finish(c)
    BY <1>1, <1>2 DEF ClientsOK, Finish, Goto, Works, Ended
  <1>3. ASSUME NEW w \in WorkUnits, NEW p \in Paths, BeginEnqueue(c, w, p)
        PROVE  Began(c)
    BY <1>1, <1>3 DEF ClientsOK, BeginEnqueue, Begin, Goto, Began
  <1>4. ASSUME NEW p \in Paths, BeginRelease(c, p)
        PROVE  Began(c)
    BY <1>1, <1>4 DEF ClientsOK, BeginRelease, Begin, Goto, Began
  <1>5. ASSUME NEW w \in WorkUnits, BeginComplete(c, w)
        PROVE  Began(c)
    BY <1>1, <1>5 DEF ClientsOK, BeginComplete, Begin, Goto, Began
  <1>6. CASE ReadUnit(c)
    <2>1. CASE unit[req[c].unit].state = "Released"
      <3>1. pc[c] = "readUnit" /\ req[c].op = "complete"
        BY <1>1, <1>6 DEF ReadUnit, Known, GoesThrough
      <3>2. pc'[c] = "readRow" /\ tries'[c] = tries[c]
        BY <1>1, <1>6, <2>1 DEF ReadUnit, Goto, ClientsOK
      <3>3. req' = [req EXCEPT ![c].path = unit[req[c].unit].path]
        BY <1>6, <2>1 DEF ReadUnit
      <3>4. req'[c] = [req[c] EXCEPT !.path = unit[req[c].unit].path]
        BY <1>1, <3>3 DEF ClientsOK
      <3> QED BY <2>1, <3>1, <3>2, <3>4 DEF UnitFound, Works
    <2> QED BY <1>2, <1>6, <2>1 DEF ReadUnit
  <1>7. CASE ReadPoolRow(c)
    <2>1. CASE poolVersion[req[c].path] # 0
      BY <1>1, <1>7, <2>1 DEF ReadPoolRow, Goto, ClientsOK, Copies, RowFound, Works
    <2>2. CASE poolVersion[req[c].path] = 0 /\ req[c].op = "enqueue"
      BY <1>1, <1>7, <2>2 DEF ReadPoolRow, Goto, ClientsOK, Copies, NewPool, Works
    <2> QED BY <1>2, <1>7, <2>1, <2>2 DEF ReadPoolRow
  <1>8. CASE ReadPoolEntries(c)
    <2>1. CASE req[c].op = "enqueue"
      BY <1>1, <1>2, <1>8, <2>1
         DEF ReadPoolEntries, DecideEnqueue, DecideRelease, DecideComplete, Goto,
             ClientsOK, Copies, Decided, Pool, Works
    <2>2. CASE req[c].op = "release"
      BY <1>1, <1>8, <2>2
         DEF ReadPoolEntries, DecideEnqueue, DecideRelease, DecideComplete, Goto,
             ClientsOK, Copies, Decided, Pool, Works
    <2>3. CASE req[c].op = "complete"
      BY <1>1, <1>8, <2>3
         DEF ReadPoolEntries, DecideEnqueue, DecideRelease, DecideComplete, Goto,
             ClientsOK, Copies, Decided, Pool, Works, Known
    <2> QED BY <1>8, <2>1, <2>2, <2>3
            DEF ReadPoolEntries, DecideEnqueue, DecideRelease, DecideComplete
  <1>9. CASE PickUnit(c)
    <2>1. CASE CanReleaseNext(copy[c].entries)
      <3>1. PICK w \in NextPending(copy[c].entries) : PickNext(c, w)
        BY <1>9, <2>1 DEF PickUnit
      <3>2. pc[c] = "pick" /\ req[c].op = "release" /\ w \in WorkUnits
        BY <1>1, <1>9 DEF PickUnit, Known, GoesThrough, NextPending, Pending
      <3>3. copy'[c].version = copy[c].version /\ tries'[c] = tries[c]
        BY <1>1, <3>1 DEF PickNext, ClientsOK, Copies
      <3>4. CASE unit[w].state = "Pending"
        <4>1. /\ req' = [req EXCEPT ![c].unit = w]
              /\ copy' = [copy EXCEPT ![c].entries = Released(@, w), ![c].home = unit[w].path]
              /\ Goto(c, "save")
          BY <3>1, <3>4 DEF PickNext
        <4>2. req'[c] = [req[c] EXCEPT !.unit = w]
          BY <1>1, <4>1 DEF ClientsOK
        <4>3. /\ copy'[c].entries = Released(copy[c].entries, w)
              /\ copy'[c].home = unit[w].path
          BY <1>1, <4>1 DEF ClientsOK, Copies
        <4>4. pc'[c] = "save"
          BY <1>1, <4>1 DEF ClientsOK, Goto
        <4> QED BY <2>1, <3>1, <3>2, <3>3, <3>4, <4>2, <4>3, <4>4 DEF Picked, Works
      <3>5. CASE unit[w].state \in {"Released", "Completed"}
        <4>1. /\ copy' = [copy EXCEPT ![c].entries =
                             Reconciled(Released(@, w), w, unit[w].state)]
              /\ pc' = pc /\ req' = req
          BY <3>1, <3>5 DEF PickNext
        <4>2. copy'[c].entries = Reconciled(Released(copy[c].entries, w), w, unit[w].state)
          BY <1>1, <4>1 DEF ClientsOK, Copies
        <4> QED BY <2>1, <3>1, <3>2, <3>3, <3>5, <4>1, <4>2 DEF Picked, Works
      <3> QED BY <3>1, <3>4, <3>5 DEF PickNext
    <2> QED BY <1>2, <1>9, <2>1 DEF PickUnit
  <1>10. CASE LoseRace(c)
    <2>1. CASE tries[c] + 1 < MaxAttempts
      <3>1. tries[c] \in 0..(MaxAttempts - 1) /\ MaxAttempts \in Nat
        BY <1>1, PlanningAssumption DEF ClientsOK
      <3>2. tries[c] + 1 # MaxAttempts
        BY <2>1, <3>1
      <3>3. /\ tries' = [tries EXCEPT ![c] = @ + 1]
            /\ req' = [req EXCEPT ![c] = Original(@)]
            /\ Goto(c, FirstLabel(req[c].op))
        BY <1>10, <3>2 DEF LoseRace
      <3>4. pc[c] = "save" /\ poolVersion[req[c].path] # copy[c].version
        BY <1>10 DEF LoseRace
      <3> QED BY <1>1, <3>3, <3>4 DEF ClientsOK, Goto, Lost, Works
    <2> QED BY <1>2, <1>10, <2>1 DEF LoseRace
  <1> QED
    BY <1>2, <1>3, <1>4, <1>5, <1>6, <1>7, <1>8, <1>9, <1>10
       DEF Act, Step, Abandon, Works

(* A save writes the pool, the unit and the event, and answers. *)
Saved(c) ==
    /\ pc[c] = "save" /\ pc'[c] = "idle" /\ req'[c] = NoRequest /\ tries'[c] = 0
    /\ poolVersion[req[c].path] = copy[c].version
    /\ poolVersion' = [poolVersion EXCEPT ![req[c].path] = copy[c].version + 1]
    /\ poolEntries' = [poolEntries EXCEPT ![req[c].path] = copy[c].entries]
    /\ unit' = [unit EXCEPT ![req[c].unit] = [state |-> Outcome(req[c].op),
                                              path  |-> copy[c].home]]
    /\ events' = [events EXCEPT ![req[c].unit] = Append(@, EventOf(req[c].op))]

(* What a client that saves has at hand. *)
Saving(c) ==
    /\ req[c].path \in Paths /\ req[c].unit \in WorkUnits /\ copy[c].home \in Paths
    /\ req[c].op \in {"enqueue", "release", "complete"}
    /\ req[c].op = "complete" => copy[c].home = req[c].path
    /\ copy[c].version \in Nat /\ copy[c].entries \in Pools

(* What a save writes, and what the request knew when it came to it. *)
LEMMA SaveIs ==
  ASSUME TypeOK, NEW c \in Clients, Save(c)
  PROVE  Saved(c) /\ Saving(c)
  <1>1. ClientsOK /\ Known("save", req[c], copy[c])
    BY TypeOKParts DEF Save
  <1>2. Saving(c)
    BY <1>1 DEF Known, GoesThrough, ClientsOK, Copies, Requests, Saving
  <1>3. pc'[c] = "idle" /\ req'[c] = NoRequest /\ tries'[c] = 0
    BY <1>1 DEF Save, Finish, Goto, ClientsOK
  <1> QED BY <1>2, <1>3 DEF Save, Write, WritePool, WriteUnit, Publish, Saved

(* What the others are at does not change, nor what they have lost. *)
LEMMA OthersStay ==
  ASSUME TypeOK, NEW c \in Clients, Act(c), NEW d \in Clients, d # c
  PROVE  pc'[d] = pc[d] /\ req'[d] = req[d] /\ copy'[d] = copy[d] /\ tries'[d] = tries[d]
  <1>1. ClientsOK
    BY TypeOKParts
  <1>2. tries' = tries \/ (\E n : tries' = [tries EXCEPT ![c] = n])
    BY DEF Act, BeginEnqueue, BeginRelease, BeginComplete, Begin, Step, Abandon, Finish,
           ReadUnit, ReadPoolRow, ReadPoolEntries, DecideEnqueue, DecideRelease,
           DecideComplete, PickUnit, PickNext, Save, LoseRace
  <1> QED BY <1>1, <1>2, OneMoves DEF OnlyMoves, ClientsOK

-----------------------------------------------------------------------------
(* The two tables: a unit has its entry, an entry has its unit. *)

(* What a copy holds, other than the unit being saved, is a unit's entry;  *)
(* the unit being saved has its entry in the copy, and in the pool of the  *)
(* path its row will name; a completion's entry is there.                  *)
CopyHasUnits(c) ==
    /\ \A w \in WorkUnits :
          pc[c] \in {"pick", "save"} /\ copy[c].entries[w] # "absent" =>
              unit[w].state # "None" \/ (pc[c] = "save" /\ w = req[c].unit)
    /\ pc[c] = "save" =>
          /\ copy[c].entries[req[c].unit] # "absent"
          /\ \/ copy[c].home = req[c].path
             \/ poolEntries[copy[c].home][req[c].unit] # "absent"
    /\ req[c].op = "complete" /\ pc[c] \in {"readRow", "readEntries", "save"} =>
          poolEntries[req[c].path][req[c].unit] # "absent"

EntryInv == UnitHasEntry /\ \A c \in Clients : CopyHasUnits(c)

(* Entries stay in their pools. *)
LEMMA EntriesStay ==
  ASSUME TypeOK, FollowInv, [Next]_vars, NEW p \in Paths, NEW w \in WorkUnits,
         poolEntries[p][w] # "absent"
  PROVE  poolEntries'[p][w] # "absent"
  <1>1. poolEntries[p] \in [WorkUnits -> EntryStates]
    BY TypeOKParts DEF StoreOK, Pools
  <1>2. Rank(poolEntries[p][w]) <= Rank(poolEntries'[p][w])
    BY CommitsFollow DEF Follows
  <1>3. poolEntries[p][w] \in {"pending", "released", "completed"}
    BY <1>1 DEF EntryStates
  <1> QED BY <1>2, <1>3, RankValues

(* Each operation's result has the entries it had, and the unit's. *)
LEMMA UpdatesHave ==
  ASSUME NEW pool \in Pools, NEW w \in WorkUnits, NEW s
  PROVE  /\ Enqueued(pool, w)[w] = "pending" /\ Released(pool, w)[w] = "released"
         /\ Reconciled(pool, w, "Completed")[w] = "completed"
         /\ pool[w] # "absent" => Reconciled(pool, w, s)[w] # "absent"
         /\ \A v \in WorkUnits \ {w} : /\ Enqueued(pool, w)[v] = pool[v]
                                       /\ Released(pool, w)[v] = pool[v]
                                       /\ Reconciled(pool, w, s)[v] = pool[v]
  BY DEF Enqueued, Released, Reconciled, ReconciledState, Pools

(* The save of a unit and its entry. *)
LEMMA SaveHasEntry ==
  ASSUME TypeOK, FollowInv, EntryInv, NEW c \in Clients, Save(c)
  PROVE  UnitHasEntry' /\ \A w \in WorkUnits : unit[w].state # "None" => unit'[w].state # "None"
  <1>1. StoreOK /\ Saved(c) /\ Saving(c)
    BY TypeOKParts, SaveIs
  <1> DEFINE p == req[c].path
             u == req[c].unit
             e == copy[c].entries
  <1>2. /\ poolEntries' = [poolEntries EXCEPT ![p] = e]
        /\ unit' = [unit EXCEPT ![u] = [state |-> Outcome(req[c].op), path |-> copy[c].home]]
    BY <1>1 DEF Saved
  <1>3. p \in Paths /\ u \in WorkUnits /\ e \in Pools /\ copy[c].home \in Paths
    BY <1>1 DEF Saving
  <1>4. Outcome(req[c].op) # "None"
    BY DEF Outcome
  <1>5. /\ \A w \in WorkUnits : e[w] # "absent" => unit[w].state # "None" \/ w = u
        /\ e[u] # "absent"
        /\ copy[c].home = p \/ poolEntries[copy[c].home][u] # "absent"
    BY <1>1 DEF EntryInv, CopyHasUnits, Saved
  <1>6. UnitHasEntry
    BY DEF EntryInv
  <1>7. \A w \in WorkUnits : poolEntries[p][w] # "absent" => e[w] # "absent"
    <2>1. Follows(poolEntries[p], e)
      BY <1>1 DEF Saved, FollowInv, CopyFollows
    <2>2. poolEntries[p] \in [WorkUnits -> EntryStates]
      BY <1>1, <1>3 DEF StoreOK, Pools
    <2> QED BY <2>1, <2>2, RankValues DEF Follows, EntryStates
  <1>8. \A q \in Paths : poolEntries'[q] = IF q = p THEN e ELSE poolEntries[q]
    BY <1>1, <1>2 DEF StoreOK
  <1>9. /\ unit'[u].state # "None" /\ unit'[u].path = copy[c].home
        /\ \A w \in WorkUnits \ {u} : unit'[w] = unit[w]
    BY <1>1, <1>2, <1>3, <1>4 DEF StoreOK
  <1> HIDE DEF p, u, e
  <1>10. \A q \in Paths : \A w \in WorkUnits :
            poolEntries[q][w] # "absent" => poolEntries'[q][w] # "absent"
    BY <1>7, <1>8
  <1>11. ASSUME NEW w \in WorkUnits, unit'[w].state # "None"
         PROVE  unit'[w].path \in Paths /\ poolEntries'[unit'[w].path][w] # "absent"
    <2>1. CASE w = u
      BY <1>3, <1>5, <1>8, <1>9, <1>10, <2>1
    <2>2. CASE w # u
      BY <1>6, <1>9, <1>10, <1>11, <2>2 DEF UnitHasEntry
    <2> QED BY <2>1, <2>2
  <1>12. ASSUME NEW q \in Paths, NEW w \in WorkUnits, poolEntries'[q][w] # "absent"
         PROVE  unit'[w].state # "None"
    BY <1>5, <1>6, <1>8, <1>9, <1>12 DEF UnitHasEntry
  <1>13. \A w \in WorkUnits : unit[w].state # "None" => unit'[w].state # "None"
    BY <1>9
  <1> QED BY <1>11, <1>12, <1>13 DEF UnitHasEntry

(* What a client at rest, or at the start, holds asks for nothing. *)
LEMMA HasUnitsStep ==
  ASSUME TypeOK, FollowInv, EntryInv, NEW c \in Clients, Act(c), ~Save(c)
  PROVE  CopyHasUnits(c)'
  <1>1. /\ StoreOK /\ ClientsOK /\ Known(pc[c], req[c], copy[c])
        /\ CopyHasUnits(c) /\ UnitHasEntry
    BY TypeOKParts DEF EntryInv
  <1>2. poolEntries' = poolEntries /\ unit' = unit
    BY OnlySaveWrites DEF store
  <1>3. Known(pc'[c], req'[c], copy'[c]) /\ req'[c] \in Requests /\ copy'[c].entries \in Pools
    <2>1. TypeOK'
      BY TypeStep DEF Next
    <2> QED BY <2>1, TypeOKParts DEF TypeOK, Copies
  <1>4. CASE Ended(c)
    BY <1>4 DEF Ended, CopyHasUnits, NoRequest
  <1>5. CASE Began(c)
    BY <1>5 DEF Began, CopyHasUnits
  <1>6. CASE UnitFound(c)
    <2>1. /\ req[c].unit \in WorkUnits /\ req'[c].unit = req[c].unit
          /\ req'[c].path = unit[req[c].unit].path
      BY <1>1, <1>6 DEF UnitFound, Known, ClientsOK, Requests
    <2> QED BY <1>1, <1>2, <1>6, <2>1 DEF UnitFound, CopyHasUnits, UnitHasEntry
  <1>7. CASE RowFound(c)
    BY <1>1, <1>2, <1>7 DEF RowFound, CopyHasUnits
  <1>8. CASE NewPool(c)
    <2>1. req[c].unit \in WorkUnits
      BY <1>1, <1>8 DEF NewPool, Known
    <2>2. /\ copy'[c].entries = Enqueued(EmptyPool, req[c].unit)
          /\ copy'[c].home = req[c].path
      BY <1>8 DEF NewPool
    <2>3. /\ copy'[c].entries[req[c].unit] = "pending"
          /\ \A w \in WorkUnits \ {req[c].unit} : copy'[c].entries[w] = "absent"
      BY <2>1, <2>2 DEF Enqueued, EmptyPool
    <2> QED BY <1>8, <2>2, <2>3 DEF NewPool, CopyHasUnits
  <1>9. CASE Decided(c)
    <2>1. req[c].path \in Paths /\ Pool(c) \in Pools
      BY <1>1, <1>9 DEF Decided, Known, StoreOK, Pool
    <2>2. \A w \in WorkUnits : Pool(c)[w] # "absent" => unit[w].state # "None"
      BY <1>1, <2>1 DEF Pool, UnitHasEntry
    <2>3. CASE pc'[c] = "pick"
      BY <1>2, <1>9, <2>2, <2>3 DEF Decided, CopyHasUnits
    <2>4. CASE pc'[c] = "save" /\ req[c].op = "enqueue"
      <3>1. req[c].unit \in WorkUnits
        BY <1>1, <2>4 DEF Known
      <3> QED BY <1>2, <1>9, <2>1, <2>2, <2>4, <3>1, UpdatesHave DEF Decided, CopyHasUnits
    <2>5. CASE pc'[c] = "save" /\ req[c].op = "complete"
      <3>1. req[c].unit \in WorkUnits
        BY <1>1, <2>5 DEF Known
      <3>2. copy'[c].entries = Reconciled(Pool(c), req[c].unit, "Completed")
        BY <1>9, <2>5 DEF Decided
      <3>3. /\ copy'[c].entries[req[c].unit] = "completed"
            /\ \A w \in WorkUnits \ {req[c].unit} : copy'[c].entries[w] = Pool(c)[w]
        BY <2>1, <3>1, <3>2, UpdatesHave
      <3>4. Pool(c) = poolEntries[req[c].path] /\ Pool(c)[req[c].unit] # "absent"
        BY <1>9, <2>5 DEF Decided, Pool
      <3>5. req'[c] = req[c] /\ copy'[c].home = req[c].path
        BY <1>9, <2>5 DEF Decided
      <3> QED BY <1>2, <2>2, <2>5, <3>3, <3>4, <3>5 DEF CopyHasUnits
    <2> QED BY <1>9, <2>3, <2>4, <2>5 DEF Decided
  <1>10. ASSUME NEW w \in WorkUnits, Picked(c, w)
         PROVE  CopyHasUnits(c)'
    <2> DEFINE k == copy[c].entries
               r == Released(k, w)
    <2>1. k \in Pools /\ w \in WorkUnits /\ k[w] = "pending" /\ r \in Pools
      BY <1>1, <1>10, UpdateTypes DEF Picked, ClientsOK, Copies, NextPending, Pending
    <2>2. \A v \in WorkUnits : k[v] # "absent" => unit[v].state # "None"
      BY <1>1, <1>10 DEF Picked, CopyHasUnits
    <2>3. r[w] = "released" /\ \A v \in WorkUnits \ {w} : r[v] = k[v]
      BY <2>1, UpdatesHave
    <2>4. CASE pc'[c] = "save"
      <3>1. /\ req'[c] = [req[c] EXCEPT !.unit = w] /\ copy'[c].entries = r
            /\ copy'[c].home = unit[w].path /\ unit[w].state = "Pending"
        BY <1>10, <2>4 DEF Picked
      <3>2. req'[c].unit = w /\ req'[c].op = "release"
        BY <1>1, <1>10, <3>1 DEF ClientsOK, Requests, Picked
      <3>3. poolEntries[unit[w].path][w] # "absent"
        BY <1>1, <3>1 DEF UnitHasEntry
      <3> HIDE DEF r, k
      <3> QED BY <1>2, <2>1, <2>2, <2>3, <2>4, <3>1, <3>2, <3>3 DEF CopyHasUnits
    <2>5. CASE pc'[c] = "pick"
      <3>1. /\ req'[c] = req[c] /\ req[c].op = "release"
            /\ copy'[c].entries = Reconciled(r, w, unit[w].state)
        BY <1>10, <2>5 DEF Picked
      <3>2. \A v \in WorkUnits \ {w} : copy'[c].entries[v] = k[v]
        BY <2>1, <2>3, <3>1, UpdatesHave
      <3> HIDE DEF r, k
      <3> QED BY <1>2, <2>1, <2>2, <2>5, <3>1, <3>2 DEF CopyHasUnits
    <2> QED BY <1>10, <2>4, <2>5 DEF Picked
  <1>11. CASE Lost(c)
    <2>1. req'[c].op = req[c].op /\ pc'[c] \in {"readUnit", "readRow"}
      BY <1>11 DEF Lost, Original, FirstLabel
    <2>2. req[c].op = "complete" => pc'[c] = "readUnit"
      BY <1>11 DEF Lost, FirstLabel
    <2> QED BY <2>1, <2>2 DEF CopyHasUnits
  <1> QED BY <1>4, <1>5, <1>6, <1>7, <1>8, <1>9, <1>10, <1>11, StepsOf DEF Works

(* What another client holds stays so, whatever is saved. *)
LEMMA OthersHaveUnits ==
  ASSUME TypeOK, FollowInv, EntryInv, NEW c \in Clients, Act(c), NEW d \in Clients, d # c,
         \A w \in WorkUnits : unit[w].state # "None" => unit'[w].state # "None"
  PROVE  CopyHasUnits(d)'
  <1>1. pc'[d] = pc[d] /\ req'[d] = req[d] /\ copy'[d] = copy[d]
    BY OthersStay
  <1>2. \A p \in Paths : \A w \in WorkUnits :
            poolEntries[p][w] # "absent" => poolEntries'[p][w] # "absent"
    BY EntriesStay DEF Next
  <1>3. CopyHasUnits(d) /\ Known(pc[d], req[d], copy[d])
    BY TypeOKParts DEF EntryInv
  <1>4. pc[d] = "save" => copy[d].home \in Paths /\ req[d].unit \in WorkUnits
    BY <1>3 DEF Known
  <1>5. req[d].op = "complete" => req[d].unit \in WorkUnits
    BY <1>3 DEF Known
  <1>6. pc[d] \in {"readRow", "readEntries", "save"} => req[d].path \in Paths
    BY <1>3 DEF Known
  <1> QED BY <1>1, <1>2, <1>3, <1>4, <1>5, <1>6 DEF CopyHasUnits

(* The branches of the code that the model leaves out as dead: a completion *)
(* whose path has no pool, or whose pool does not hold the unit; a release *)
(* of an entry whose unit is not found.                                    *)
NoDeadBranch ==
    \A c \in Clients :
        /\ req[c].op = "complete" /\ pc[c] = "readRow" => poolVersion[req[c].path] # 0
        /\ req[c].op = "complete" /\ pc[c] = "readEntries" =>
              poolEntries[req[c].path][req[c].unit] # "absent"
        /\ pc[c] = "pick" =>
              \A w \in NextPending(copy[c].entries) : unit[w].state # "None"

(* A unit has its entry in the pool of its path, an entry has its unit,    *)
(* and the error branches that say otherwise are never taken, whatever ids *)
(* and paths the callers use.                                              *)
THEOREM UnitHasEntryHolds == Spec => [](UnitHasEntry /\ NoDeadBranch)
  <1>1. Init => EntryInv
    BY DEF Init, EntryInv, UnitHasEntry, CopyHasUnits, EmptyPool, NoRequest
  <1>2. TypeOK /\ FollowInv /\ EntryInv /\ [Next]_vars => EntryInv'
    <2> SUFFICES ASSUME TypeOK, FollowInv, EntryInv, [Next]_vars PROVE EntryInv'
      OBVIOUS
    <2>1. ASSUME NEW c \in Clients, Act(c)
          PROVE  EntryInv'
      <3>1. UnitHasEntry' /\ \A w \in WorkUnits : unit[w].state # "None" => unit'[w].state # "None"
        <4>1. CASE Save(c)
          BY <4>1, SaveHasEntry
        <4>2. CASE ~Save(c)
          BY <2>1, <4>2, OnlySaveWrites DEF store, EntryInv, UnitHasEntry
        <4> QED BY <4>1, <4>2
      <3>2. CopyHasUnits(c)'
        <4>1. CASE Save(c)
          BY <4>1, SaveIs DEF Saved, CopyHasUnits, NoRequest
        <4>2. CASE ~Save(c)
          BY <2>1, <4>2, HasUnitsStep
        <4> QED BY <4>1, <4>2
      <3>3. \A d \in Clients \ {c} : CopyHasUnits(d)'
        BY <2>1, <3>1, OthersHaveUnits
      <3> QED BY <3>1, <3>2, <3>3 DEF EntryInv
    <2>2. CASE UNCHANGED vars
      BY <2>2 DEF EntryInv, UnitHasEntry, CopyHasUnits, vars, store, client
    <2> QED BY <2>1, <2>2 DEF Next
  <1>3. TypeOK /\ FollowInv /\ EntryInv => UnitHasEntry /\ NoDeadBranch
    <2> SUFFICES ASSUME TypeOK, FollowInv, EntryInv, NEW c \in Clients
                 PROVE  /\ req[c].op = "complete" /\ pc[c] = "readRow" => poolVersion[req[c].path] # 0
                        /\ req[c].op = "complete" /\ pc[c] = "readEntries" =>
                              poolEntries[req[c].path][req[c].unit] # "absent"
                        /\ pc[c] = "pick" =>
                              \A w \in NextPending(copy[c].entries) : unit[w].state # "None"
      BY DEF NoDeadBranch, EntryInv
    <2>1. CopyHasUnits(c) /\ Known(pc[c], req[c], copy[c])
      BY TypeOKParts DEF EntryInv
    <2>2. ASSUME req[c].op = "complete", pc[c] = "readRow"
          PROVE  poolVersion[req[c].path] # 0
      BY <2>1, <2>2 DEF CopyHasUnits, FollowInv, EmptyPool, Known
    <2>3. ASSUME pc[c] = "pick", NEW w \in NextPending(copy[c].entries)
          PROVE  unit[w].state # "None"
      BY <2>1, <2>3 DEF CopyHasUnits, NextPending, Pending
    <2> QED BY <2>1, <2>2, <2>3 DEF CopyHasUnits
  <1> QED BY <1>1, <1>2, <1>3, TypeCorrect, FollowInvHolds, PTL DEF Spec

-----------------------------------------------------------------------------
(* Agreement of the two tables, when each id is enqueued on one path only. *)

(* What a client means to save is the unit's next state, and is to be      *)
(* saved on a pool in which the unit is at the state before.               *)
Ready(c) ==
    LET e == Pool(c)
        w == req[c].unit
    IN  /\ copy[c].home = req[c].path
        /\ copy[c].entries = [e EXCEPT ![w] = EntryOf(Outcome(req[c].op))]
        /\ req[c].op = "enqueue" => e[w] = "absent"
        /\ req[c].op = "release" => w \in NextPending(e) /\ CanReleaseNext(e)

(* A copy whose version is the pool's is the pool, or the pool with the    *)
(* one change; nothing of it had to be healed.                             *)
CopyFresh(c) ==
    copy[c].version = poolVersion[req[c].path] =>
        /\ pc[c] = "pick" => copy[c].entries = Pool(c)
        /\ pc[c] = "save" => Ready(c)

(* The path of a request is one that its unit is enqueued on. *)
PathKept(c) ==
    /\ req[c].op = "enqueue" => req[c].path \in PathsOf[req[c].unit]
    /\ req[c].op = "complete" /\ pc[c] # "readUnit" => req[c].path \in PathsOf[req[c].unit]

AgreeInv ==
    /\ SinglePath
    /\ PoolAgreesWithUnits
    /\ \A w \in WorkUnits : unit[w].state # "None" => unit[w].path \in PathsOf[w]
    /\ \A c \in Clients : CopyFresh(c) /\ PathKept(c)

(* An entry tells the state of its unit. *)
LEMMA EntriesTell ==
  ASSUME NEW s \in UnitStates
  PROVE  /\ EntryOf(s) \in EntryStates
         /\ EntryOf(s) = "absent" <=> s = "None"
         /\ EntryOf(s) = "pending" <=> s = "Pending"
         /\ EntryOf(s) = "released" <=> s = "Released"
  BY DEF EntryOf, UnitStates, EntryStates

(* An entry that is there is one of a unit on that path. *)
LEMMA EntryIsUnits ==
  ASSUME StoreOK, PoolAgreesWithUnits, NEW p \in Paths, NEW w \in WorkUnits
  PROVE  /\ poolEntries[p][w] # "absent" => unit[w].path = p /\ unit[w].state # "None"
         /\ poolEntries[p][w] = "pending" <=> unit[w].path = p /\ unit[w].state = "Pending"
         /\ poolEntries[p][w] = "released" <=> unit[w].path = p /\ unit[w].state = "Released"
  <1>1. unit[w].state \in UnitStates
    BY DEF StoreOK, Units
  <1> QED BY <1>1, EntriesTell DEF PoolAgreesWithUnits

(* A fresh copy, when nothing of it is saved, stays fresh. *)
LEMMA FreshStep ==
  ASSUME TypeOK, FollowInv, AgreeInv, NEW c \in Clients, Act(c), ~Save(c)
  PROVE  CopyFresh(c)' /\ PathKept(c)'
  <1>1. /\ StoreOK /\ ClientsOK /\ Known(pc[c], req[c], copy[c])
        /\ CopyFresh(c) /\ PathKept(c)
    BY TypeOKParts DEF AgreeInv
  <1>2. poolEntries' = poolEntries /\ unit' = unit /\ poolVersion' = poolVersion
    BY OnlySaveWrites DEF store
  <1>4. CASE Ended(c)
    BY <1>4 DEF Ended, CopyFresh, PathKept, NoRequest
  <1>5. CASE Began(c)
    BY <1>5 DEF Began, CopyFresh, PathKept
  <1>6. CASE UnitFound(c)
    <2>1. /\ req[c].unit \in WorkUnits /\ req'[c].unit = req[c].unit
          /\ req'[c].path = unit[req[c].unit].path /\ req'[c].op = "complete"
      BY <1>1, <1>6 DEF UnitFound, Known, ClientsOK, Requests
    <2> QED BY <1>6, <2>1 DEF UnitFound, AgreeInv, CopyFresh, PathKept
  <1>7. CASE RowFound(c)
    BY <1>1, <1>7 DEF RowFound, CopyFresh, PathKept
  <1>8. CASE NewPool(c)
    <2>1. req[c].unit \in WorkUnits /\ req[c].path \in Paths
      BY <1>1, <1>8 DEF NewPool, Known
    <2>2. Pool(c) = EmptyPool
      BY <1>8, <2>1 DEF NewPool, FollowInv, Pool
    <2>3. /\ pc'[c] = "save" /\ req'[c] = req[c] /\ req[c].op = "enqueue"
          /\ copy'[c].entries = Enqueued(EmptyPool, req[c].unit)
          /\ copy'[c].home = req[c].path
      BY <1>8 DEF NewPool
    <2>4. EntryOf(Outcome("enqueue")) = "pending"
      BY DEF EntryOf, Outcome
    <2>5. Pool(c)' = EmptyPool
      BY <1>2, <2>2, <2>3 DEF Pool
    <2>6. Ready(c)'
      <3>1. copy'[c].entries = [Pool(c)' EXCEPT ![req'[c].unit] = EntryOf(Outcome(req'[c].op))]
        BY <2>3, <2>4, <2>5 DEF Enqueued
      <3>2. Pool(c)'[req'[c].unit] = "absent"
        BY <2>1, <2>3, <2>5 DEF EmptyPool
      <3>3. req'[c].op # "release" /\ copy'[c].home = req'[c].path
        BY <2>3
      <3> QED BY <3>1, <3>2, <3>3 DEF Ready
    <2> QED BY <1>1, <2>3, <2>6 DEF CopyFresh, PathKept
  <1>9. CASE Decided(c)
    <2>1. req[c].path \in Paths /\ Pool(c) \in Pools
      BY <1>1, <1>9 DEF Decided, Known, StoreOK, Pool
    <2>2. req'[c] = req[c] /\ Pool(c)' = Pool(c) /\ pc[c] = "readEntries"
      BY <1>2, <1>9 DEF Decided, Pool
    <2>3. CASE pc'[c] = "pick"
      BY <1>1, <1>9, <2>2, <2>3 DEF Decided, CopyFresh, PathKept
    <2>4. CASE pc'[c] = "save" /\ req[c].op = "enqueue"
      <3>1. EntryOf(Outcome("enqueue")) = "pending"
        BY DEF EntryOf, Outcome
      <3>2. Ready(c)'
        BY <1>9, <2>2, <2>4, <3>1 DEF Ready, Decided, Enqueued
      <3> QED BY <1>1, <2>2, <2>4, <3>2 DEF CopyFresh, PathKept
    <2>5. CASE pc'[c] = "save" /\ req[c].op = "complete"
      <3>1. EntryOf(Outcome("complete")) = "completed"
        BY DEF EntryOf, Outcome
      <3>2. Ready(c)'
        BY <1>9, <2>2, <2>5, <3>1 DEF Ready, Decided, Reconciled, ReconciledState
      <3> QED BY <1>1, <2>2, <2>5, <3>2 DEF CopyFresh, PathKept
    <2> QED BY <1>9, <2>3, <2>4, <2>5 DEF Decided
  <1>10. ASSUME NEW w \in WorkUnits, Picked(c, w)
         PROVE  CopyFresh(c)' /\ PathKept(c)'
    <2>1. /\ req[c].path \in Paths /\ pc[c] = "pick" /\ req[c].op = "release"
          /\ w \in NextPending(copy[c].entries) /\ CanReleaseNext(copy[c].entries)
          /\ copy'[c].version = copy[c].version
      BY <1>1, <1>10 DEF Picked, Known
    <2>2. req'[c].op = "release" /\ req'[c].path = req[c].path
      BY <1>1, <1>10, <2>1 DEF ClientsOK, Requests, Picked
    <2>3. Pool(c)' = Pool(c)
      BY <1>2, <2>2 DEF Pool
    <2>4. ASSUME copy[c].version = poolVersion[req[c].path]
          PROVE  Ready(c)' /\ pc'[c] = "save"
      <3>1. copy[c].entries = Pool(c)
        BY <1>1, <2>1, <2>4 DEF CopyFresh
      <3>2. w \in WorkUnits /\ poolEntries[req[c].path][w] = "pending"
        BY <2>1, <3>1 DEF NextPending, Pending, Pool
      <3>3. unit[w].state = "Pending" /\ unit[w].path = req[c].path
        BY <1>1, <2>1, <3>2, EntryIsUnits DEF AgreeInv
      <3>4. /\ pc'[c] = "save" /\ req'[c] = [req[c] EXCEPT !.unit = w]
            /\ copy'[c].entries = Released(copy[c].entries, w)
            /\ copy'[c].home = unit[w].path
        BY <1>10, <3>3 DEF Picked
      <3>5. req'[c].unit = w
        BY <1>1, <3>4 DEF ClientsOK, Requests
      <3>6. EntryOf(Outcome("release")) = "released"
        BY DEF EntryOf, Outcome
      <3> QED BY <2>1, <2>2, <2>3, <3>1, <3>3, <3>4, <3>5, <3>6 DEF Ready, Released
    <2>5. CopyFresh(c)'
      BY <1>2, <2>1, <2>2, <2>4 DEF CopyFresh
    <2> QED BY <2>2, <2>5 DEF PathKept
  <1>11. CASE Lost(c)
    <2>1. /\ req'[c].op = req[c].op /\ pc'[c] \in {"readUnit", "readRow"}
          /\ req[c].op = "complete" => pc'[c] = "readUnit"
          /\ req[c].op = "enqueue" => req'[c].unit = req[c].unit /\ req'[c].path = req[c].path
      BY <1>11 DEF Lost, Original, FirstLabel
    <2> QED BY <1>1, <2>1 DEF CopyFresh, PathKept
  <1> QED BY <1>4, <1>5, <1>6, <1>7, <1>8, <1>9, <1>10, <1>11, StepsOf DEF Works

(* A save that finds its version writes one unit, its entry, and nothing   *)
(* of the other paths.                                                     *)
LEMMA SaveOne ==
  ASSUME TypeOK, AgreeInv, NEW c \in Clients, Save(c)
  PROVE  /\ Saved(c) /\ Saving(c) /\ Ready(c)
         /\ req[c].path \in PathsOf[req[c].unit]
         /\ unit[req[c].unit].path \in {req[c].path, NoPath}
  <1>1. StoreOK /\ Saved(c) /\ Saving(c)
    BY TypeOKParts, SaveIs
  <1>2. Ready(c) /\ PathKept(c)
    BY <1>1 DEF AgreeInv, CopyFresh, Saved
  <1>3. req[c].path \in PathsOf[req[c].unit]
    <2>1. CASE req[c].op = "release"
      <3>1. poolEntries[req[c].path][req[c].unit] = "pending"
        BY <1>2, <2>1 DEF Ready, NextPending, Pending, Pool
      <3>2. /\ unit[req[c].unit].path = req[c].path
            /\ unit[req[c].unit].state # "None"
        BY <1>1, <3>1, EntryIsUnits DEF AgreeInv, Saving
      <3> QED BY <1>1, <3>2 DEF AgreeInv, Saving
    <2>2. CASE req[c].op \in {"enqueue", "complete"}
      BY <1>1, <1>2, <2>2 DEF PathKept, Saved
    <2> QED BY <1>1, <2>1, <2>2 DEF Saving
  <1>4. unit[req[c].unit].path \in {req[c].path, NoPath}
    BY <1>1, <1>3 DEF AgreeInv, SinglePath, Saving, StoreOK
  <1> QED BY <1>1, <1>2, <1>3, <1>4

(* The unit and its entry move together. *)
LEMMA AgreeSave ==
  ASSUME TypeOK, AgreeInv, NEW c \in Clients, Save(c)
  PROVE  /\ PoolAgreesWithUnits'
         /\ \A w \in WorkUnits : unit'[w].state # "None" => unit'[w].path \in PathsOf[w]
  <1>1. /\ StoreOK /\ Saved(c) /\ Saving(c) /\ Ready(c)
        /\ req[c].path \in PathsOf[req[c].unit]
        /\ unit[req[c].unit].path \in {req[c].path, NoPath}
    BY TypeOKParts, SaveOne
  <1> DEFINE p == req[c].path
             u == req[c].unit
             s == Outcome(req[c].op)
  <1>2. p \in Paths /\ u \in WorkUnits /\ copy[c].home = p
    BY <1>1 DEF Saving, Ready
  <1>3. unit' = [unit EXCEPT ![u] = [state |-> s, path |-> p]]
    BY <1>1, <1>2 DEF Saved
  <1>4. poolEntries' = [poolEntries EXCEPT ![p] = [poolEntries[p] EXCEPT ![u] = EntryOf(s)]]
    BY <1>1 DEF Saved, Ready, Pool
  <1>5. unit[u].path \in {p, NoPath} /\ p \in PathsOf[u]
    BY <1>1
  <1>6. p # NoPath
    BY <1>2, PlanningAssumption
  <1> HIDE DEF p, u, s
  <1>7. /\ unit'[u].state = s /\ unit'[u].path = p
        /\ \A w \in WorkUnits \ {u} : unit'[w] = unit[w]
    BY <1>1, <1>2, <1>3 DEF StoreOK
  <1>8. /\ poolEntries'[p][u] = EntryOf(s)
        /\ \A w \in WorkUnits \ {u} : poolEntries'[p][w] = poolEntries[p][w]
        /\ \A q \in Paths \ {p} : poolEntries'[q] = poolEntries[q]
    BY <1>1, <1>2, <1>4 DEF StoreOK, Pools
  <1>9. ASSUME NEW q \in Paths, NEW w \in WorkUnits
        PROVE  poolEntries'[q][w] =
                  IF unit'[w].path = q THEN EntryOf(unit'[w].state) ELSE "absent"
    <2>1. poolEntries[q][w] = IF unit[w].path = q THEN EntryOf(unit[w].state) ELSE "absent"
      BY DEF AgreeInv, PoolAgreesWithUnits
    <2>2. CASE w # u
      <3>1. poolEntries'[q][w] = poolEntries[q][w]
        BY <1>8, <2>2
      <3> QED BY <1>7, <2>1, <2>2, <3>1
    <2>3. CASE w = u /\ q = p
      BY <1>7, <1>8, <2>3
    <2>4. CASE w = u /\ q # p
      <3>1. unit[u].path # q
        BY <1>5, <2>4, PlanningAssumption
      <3>2. poolEntries'[q][u] = "absent"
        BY <1>8, <2>1, <2>4, <3>1
      <3> QED BY <1>7, <2>4, <3>2
    <2> QED BY <2>2, <2>3, <2>4
  <1>10. ASSUME NEW w \in WorkUnits, unit'[w].state # "None"
         PROVE  unit'[w].path \in PathsOf[w]
    <2>1. CASE w = u
      BY <1>5, <1>7, <2>1
    <2>2. CASE w # u
      BY <1>7, <1>10, <2>2 DEF AgreeInv
    <2> QED BY <2>1, <2>2
  <1> QED BY <1>9, <1>10 DEF PoolAgreesWithUnits

(* A save makes every other copy of its pool out of date. *)
LEMMA OthersFresh ==
  ASSUME TypeOK, FollowInv, AgreeInv, NEW c \in Clients, Act(c), NEW d \in Clients, d # c
  PROVE  CopyFresh(d)' /\ PathKept(d)'
  <1>1. pc'[d] = pc[d] /\ req'[d] = req[d] /\ copy'[d] = copy[d]
    BY OthersStay
  <1>2. CopyFresh(d) /\ PathKept(d)
    BY DEF AgreeInv
  <1>3. CASE ~Save(c)
    <2>1. poolEntries' = poolEntries /\ poolVersion' = poolVersion
      BY <1>3, OnlySaveWrites DEF store
    <2>2. Pool(d)' = Pool(d)
      BY <1>1, <2>1 DEF Pool
    <2> QED BY <1>1, <1>2, <2>1, <2>2 DEF CopyFresh, PathKept, Ready
  <1>4. CASE Save(c)
    <2>1. StoreOK /\ ClientsOK /\ Saved(c) /\ Saving(c) /\ Known(pc[d], req[d], copy[d])
      BY <1>4, TypeOKParts, SaveIs
    <2>2. CASE pc[d] \notin {"pick", "save"}
      BY <1>1, <1>2, <2>2 DEF CopyFresh, PathKept
    <2>3. CASE pc[d] \in {"pick", "save"} /\ req[d].path = req[c].path
      <3>1. copy[d].version <= copy[c].version /\ copy[d].version \in Nat /\ copy[c].version \in Nat
        BY <2>1, <2>3 DEF FollowInv, CopyFollows, Saved, ClientsOK, Copies
      <3>2. poolVersion'[req[d].path] = copy[c].version + 1
        BY <2>1, <2>3 DEF Saved, Saving, StoreOK
      <3>3. copy[d].version # poolVersion'[req[d].path]
        BY <3>1, <3>2
      <3> QED BY <1>1, <1>2, <3>3 DEF CopyFresh, PathKept
    <2>4. CASE pc[d] \in {"pick", "save"} /\ req[d].path # req[c].path
      <3>1. req[d].path \in Paths
        BY <2>1, <2>4 DEF Known
      <3>2. /\ poolVersion'[req[d].path] = poolVersion[req[d].path]
            /\ poolEntries'[req[d].path] = poolEntries[req[d].path]
        BY <2>1, <2>4, <3>1 DEF Saved, StoreOK
      <3>3. Pool(d)' = Pool(d)
        BY <1>1, <3>2 DEF Pool
      <3> QED BY <1>1, <1>2, <3>2, <3>3 DEF CopyFresh, PathKept, Ready
    <2> QED BY <2>2, <2>3, <2>4
  <1> QED BY <1>3, <1>4

(* No step breaks the agreement. *)
LEMMA AgreeStep ==
  ASSUME TypeOK, FollowInv, AgreeInv, [Next]_vars
  PROVE  AgreeInv'
  <1>1. ASSUME NEW c \in Clients, Act(c)
        PROVE  AgreeInv'
    <2>1. /\ PoolAgreesWithUnits'
          /\ \A w \in WorkUnits : unit'[w].state # "None" => unit'[w].path \in PathsOf[w]
      <3>1. CASE Save(c)
        BY <3>1, AgreeSave
      <3>2. CASE ~Save(c)
        BY <1>1, <3>2, OnlySaveWrites DEF store, AgreeInv, PoolAgreesWithUnits
      <3> QED BY <3>1, <3>2
    <2>2. CopyFresh(c)' /\ PathKept(c)'
      <3>1. CASE Save(c)
        <4>1. pc'[c] = "idle" /\ req'[c] = NoRequest
          BY <3>1, SaveIs DEF Saved
        <4> QED BY <4>1 DEF CopyFresh, PathKept, NoRequest
      <3>2. CASE ~Save(c)
        BY <1>1, <3>2, FreshStep
      <3> QED BY <3>1, <3>2
    <2>3. \A d \in Clients \ {c} : CopyFresh(d)' /\ PathKept(d)'
      BY <1>1, OthersFresh
    <2>4. SinglePath
      BY DEF AgreeInv
    <2> QED BY <2>1, <2>2, <2>3, <2>4 DEF AgreeInv, SinglePath
  <1>2. CASE UNCHANGED vars
    <2>1. \A c \in Clients : Pool(c)' = Pool(c)
      BY <1>2 DEF Pool, vars, store, client
    <2> QED BY <1>2, <2>1 DEF AgreeInv, SinglePath, PoolAgreesWithUnits, CopyFresh, PathKept,
                               Ready, vars, store, client
  <1> QED BY <1>1, <1>2 DEF Next

(* The invariant of agreement holds if ids stay on one path. *)
LEMMA AgreeInvHolds == SinglePath /\ Spec => []AgreeInv
  <1>1. SinglePath /\ Init => AgreeInv
    <2> SUFFICES ASSUME SinglePath, Init PROVE AgreeInv
      OBVIOUS
    <2>1. PoolAgreesWithUnits
      BY PlanningAssumption DEF Init, PoolAgreesWithUnits, EmptyPool
    <2> QED BY <2>1 DEF Init, AgreeInv, CopyFresh, PathKept, NoRequest
  <1>2. TypeOK /\ FollowInv /\ AgreeInv /\ [Next]_vars => AgreeInv'
    BY AgreeStep
  <1> QED BY <1>1, <1>2, TypeCorrect, FollowInvHolds, PTL DEF Spec

(* THE TWO AGGREGATES AGREE: when each id is enqueued on one path only,    *)
(* the pool entry and the work unit tell the same story in every state.    *)
THEOREM AgreementHolds == SinglePath /\ Spec => []PoolAgreesWithUnits
  <1>1. AgreeInv => PoolAgreesWithUnits
    BY DEF AgreeInv
  <1> QED BY <1>1, AgreeInvHolds, PTL

(* SAVES ARE FRESH: a save that finds its version writes the committed     *)
(* entries and its own one change, although the copy was read in two       *)
(* statements.                                                             *)
THEOREM SaveIsFreshHolds == SinglePath /\ Spec => []SaveIsFresh
  <1>1. TypeOK /\ AgreeInv => SaveIsFresh
    <2> SUFFICES ASSUME TypeOK, AgreeInv, NEW c \in Clients, pc[c] = "save",
                        poolVersion[req[c].path] = copy[c].version
                 PROVE  LET e == poolEntries[req[c].path]
                            w == req[c].unit
                        IN  /\ copy[c].entries = [e EXCEPT ![w] = EntryOf(Outcome(req[c].op))]
                            /\ Rank(e[w]) <= Rank(copy[c].entries[w])
      BY DEF SaveIsFresh
    <2>1. StoreOK /\ Known("save", req[c], copy[c]) /\ Ready(c)
      BY TypeOKParts DEF AgreeInv, CopyFresh
    <2> DEFINE e == poolEntries[req[c].path]
               w == req[c].unit
    <2>2. w \in WorkUnits /\ e \in Pools
      BY <2>1 DEF Known, StoreOK
    <2>3. copy[c].entries = [e EXCEPT ![w] = EntryOf(Outcome(req[c].op))]
      BY <2>1 DEF Ready, Pool
    <2>4. copy[c].entries[w] = EntryOf(Outcome(req[c].op))
      BY <2>2, <2>3 DEF Pools
    <2>5. CASE req[c].op = "enqueue"
      <3>1. e[w] = "absent" /\ copy[c].entries[w] = "pending"
        BY <2>1, <2>4, <2>5 DEF Ready, Pool, EntryOf, Outcome
      <3> QED BY <2>3, <3>1, RankValues
    <2>6. CASE req[c].op = "release"
      <3>1. e[w] = "pending" /\ copy[c].entries[w] = "released"
        BY <2>1, <2>4, <2>6 DEF Ready, Pool, EntryOf, Outcome, NextPending, Pending
      <3> QED BY <2>3, <3>1, RankValues
    <2>7. CASE req[c].op = "complete"
      <3>1. e[w] \in EntryStates /\ copy[c].entries[w] = "completed"
        BY <2>2, <2>4, <2>7 DEF Pools, EntryOf, Outcome
      <3> QED BY <2>3, <3>1, RankValues DEF EntryStates
    <2> QED BY <2>1, <2>5, <2>6, <2>7 DEF Known, GoesThrough
  <1> QED BY <1>1, AgreeInvHolds, TypeCorrect, PTL

-----------------------------------------------------------------------------
(* Lost races *)

(* Every race that a request has lost is a save its pool has had: before   *)
(* its copy was read, if it has one.                                       *)
RacesLost(c) ==
    /\ pc[c] = "idle" => tries[c] = 0
    /\ req[c].path # NoPath => tries[c] <= poolVersion[req[c].path]
    /\ req[c].op = "complete" => \A p \in PathsOf[req[c].unit] : tries[c] <= poolVersion[p]
    /\ pc[c] \in {"readEntries", "pick", "save"} => tries[c] <= copy[c].version

LostInv == \A c \in Clients : RacesLost(c)

(* A client's own step. *)
LEMMA RacesStep ==
  ASSUME TypeOK, FollowInv, AgreeInv, LostInv, NEW c \in Clients, Act(c), ~Save(c)
  PROVE  RacesLost(c)'
  <1>1. /\ StoreOK /\ ClientsOK /\ Known(pc[c], req[c], copy[c])
        /\ RacesLost(c) /\ PathKept(c)
    BY TypeOKParts DEF AgreeInv, LostInv
  <1>2. poolVersion' = poolVersion
    BY OnlySaveWrites DEF store
  <1>3. tries[c] \in Nat /\ copy[c].version \in Nat /\ \A p \in Paths : poolVersion[p] \in Nat
    BY <1>1, PlanningAssumption DEF ClientsOK, Copies, StoreOK
  <1>4. CASE Ended(c)
    BY <1>4 DEF Ended, RacesLost, NoRequest
  <1>5. CASE Began(c)
    <2>1. tries[c] = 0 /\ tries'[c] = 0
      BY <1>1, <1>5 DEF Began, RacesLost
    <2>2. \A p \in Paths : 0 <= poolVersion[p]
      BY <1>3
    <2>3. req'[c].unit \in WorkUnits => PathsOf[req'[c].unit] \subseteq Paths
      BY PlanningAssumption
    <2>4. pc'[c] \in {"readUnit", "readRow"}
      BY <1>5 DEF Began
    <2> QED BY <1>2, <1>5, <2>1, <2>2, <2>3, <2>4 DEF Began, RacesLost
  <1>6. CASE UnitFound(c)
    <2>1. /\ req[c].unit \in WorkUnits /\ req'[c].unit = req[c].unit
          /\ req'[c].path = unit[req[c].unit].path /\ req'[c].op = "complete"
      BY <1>1, <1>6 DEF UnitFound, Known, ClientsOK, Requests
    <2>2. unit[req[c].unit].path \in PathsOf[req[c].unit]
      BY <1>6, <2>1 DEF UnitFound, AgreeInv
    <2> QED BY <1>1, <1>2, <1>6, <2>1, <2>2 DEF UnitFound, RacesLost
  <1>7. CASE RowFound(c)
    <2>1. req[c].path \in Paths /\ req[c].path # NoPath
      BY <1>1, <1>7, PlanningAssumption DEF RowFound, Known
    <2> QED BY <1>1, <1>2, <1>7, <2>1 DEF RowFound, RacesLost
  <1>8. CASE NewPool(c)
    <2>1. req[c].path \in Paths /\ req[c].path # NoPath
      BY <1>1, <1>8, PlanningAssumption DEF NewPool, Known
    <2> QED BY <1>1, <1>2, <1>8, <2>1 DEF NewPool, RacesLost
  <1>9. CASE Decided(c)
    <2>1. pc[c] = "readEntries" /\ req'[c] = req[c] /\ tries'[c] = tries[c]
      BY <1>9 DEF Decided
    <2>2. copy'[c].version = copy[c].version /\ pc'[c] # "idle"
      BY <1>9 DEF Decided
    <2> QED BY <1>1, <1>2, <2>1, <2>2 DEF RacesLost
  <1>10. ASSUME NEW w \in WorkUnits, Picked(c, w)
         PROVE  RacesLost(c)'
    <2>1. pc[c] = "pick" /\ tries'[c] = tries[c] /\ copy'[c].version = copy[c].version
      BY <1>10 DEF Picked
    <2>2. pc'[c] # "idle" /\ req'[c].op = "release" /\ req'[c].path = req[c].path
      BY <1>1, <1>10 DEF Picked, ClientsOK, Requests
    <2> QED BY <1>1, <1>2, <2>1, <2>2 DEF RacesLost
  <1>11. CASE Lost(c)
    <2>1. /\ pc[c] = "save" /\ poolVersion[req[c].path] # copy[c].version
          /\ tries'[c] = tries[c] + 1 /\ req[c].path \in Paths
      BY <1>1, <1>11 DEF Lost, Known
    <2>2. copy[c].version <= poolVersion[req[c].path]
      BY <2>1 DEF FollowInv, CopyFollows
    <2>3. tries[c] <= copy[c].version
      BY <1>1, <2>1 DEF RacesLost
    <2>4. tries'[c] <= poolVersion[req[c].path]
      BY <1>3, <2>1, <2>2, <2>3
    <2>5. req[c].op = "complete" => \A p \in PathsOf[req[c].unit] : p = req[c].path
      BY <1>1, <2>1 DEF AgreeInv, SinglePath, PathKept, Known
    <2>6. /\ pc'[c] \in {"readUnit", "readRow"} /\ req'[c].op = req[c].op
          /\ req[c].op = "complete" => req'[c].unit = req[c].unit
          /\ req'[c].path \in {req[c].path, NoPath}
      BY <1>11 DEF Lost, Original, FirstLabel
    <2> QED BY <1>2, <2>4, <2>5, <2>6 DEF RacesLost
  <1> QED BY <1>4, <1>5, <1>6, <1>7, <1>8, <1>9, <1>10, <1>11, StepsOf DEF Works

(* The others lose nothing, and versions only grow. *)
LEMMA OthersLose ==
  ASSUME TypeOK, AgreeInv, LostInv, NEW c \in Clients, Act(c), NEW d \in Clients, d # c
  PROVE  RacesLost(d)'
  <1>1. pc'[d] = pc[d] /\ req'[d] = req[d] /\ copy'[d] = copy[d] /\ tries'[d] = tries[d]
    BY OthersStay
  <1>2. StoreOK /\ ClientsOK /\ RacesLost(d) /\ Known(pc[d], req[d], copy[d])
    BY TypeOKParts DEF LostInv
  <1>3. ASSUME NEW p \in Paths
        PROVE  poolVersion[p] <= poolVersion'[p] /\ poolVersion[p] \in Nat /\ poolVersion'[p] \in Nat
    <2>1. CASE Save(c)
      <3>1. Saved(c) /\ Saving(c)
        BY <2>1, SaveIs
      <3> QED BY <1>2, <3>1 DEF Saved, Saving, StoreOK
    <2>2. CASE ~Save(c)
      <3>1. poolVersion' = poolVersion
        BY <2>2, OnlySaveWrites DEF store
      <3> QED BY <1>2, <3>1 DEF StoreOK
    <2> QED BY <2>1, <2>2
  <1>4. tries[d] \in Nat
    BY <1>2, PlanningAssumption DEF ClientsOK
  <1>5. \A p \in Paths : tries[d] <= poolVersion[p] => tries[d] <= poolVersion'[p]
    BY <1>3, <1>4
  <1>6. req[d].path # NoPath => req[d].path \in Paths
    BY <1>2 DEF ClientsOK, Requests
  <1>7. req[d].op = "complete" => PathsOf[req[d].unit] \subseteq Paths
    BY <1>2, PlanningAssumption DEF Known
  <1> QED BY <1>1, <1>2, <1>5, <1>6, <1>7 DEF RacesLost

(* NO SPURIOUS CONFLICT: a request never loses more races than its pool    *)
(* has had saves, so ErrConcurrentModification is not reported without     *)
(* MaxAttempts saves by others.                                            *)
THEOREM NoSpuriousConflictHolds == SinglePath /\ Spec => []NoSpuriousConflict
  <1>1. Init => LostInv
    BY DEF Init, LostInv, RacesLost, NoRequest
  <1>2. TypeOK /\ FollowInv /\ AgreeInv /\ LostInv /\ [Next]_vars => LostInv'
    <2> SUFFICES ASSUME TypeOK, FollowInv, AgreeInv, LostInv, [Next]_vars PROVE LostInv'
      OBVIOUS
    <2>1. ASSUME NEW c \in Clients, Act(c)
          PROVE  LostInv'
      <3>1. RacesLost(c)'
        <4>1. CASE Save(c)
          <5>1. pc'[c] = "idle" /\ req'[c] = NoRequest /\ tries'[c] = 0
            BY <4>1, SaveIs DEF Saved
          <5> QED BY <5>1 DEF RacesLost, NoRequest
        <4>2. CASE ~Save(c)
          BY <2>1, <4>2, RacesStep
        <4> QED BY <4>1, <4>2
      <3>2. \A d \in Clients \ {c} : RacesLost(d)'
        BY <2>1, OthersLose
      <3> QED BY <3>1, <3>2 DEF LostInv
    <2>2. CASE UNCHANGED vars
      BY <2>2 DEF LostInv, RacesLost, vars, store, client
    <2> QED BY <2>1, <2>2 DEF Next
  <1>3. LostInv => NoSpuriousConflict
    BY DEF LostInv, RacesLost, NoSpuriousConflict
  <1> QED BY <1>1, <1>2, <1>3, TypeCorrect, FollowInvHolds, AgreeInvHolds, PTL DEF Spec

-----------------------------------------------------------------------------
(* The lifecycle *)

(* The unit that the completer has read is still released: nobody else     *)
(* completes, and nothing else moves a released unit.                      *)
StillReleased(c) ==
    req[c].op = "complete" =>
        /\ c \in Completers
        /\ pc[c] # "readUnit" => unit[req[c].unit].state = "Released"

CompleterInv == OneCompleter /\ \A c \in Clients : StillReleased(c)

(* A saved unit goes on from the state before; on its path.                *)
LEMMA SaveMoves ==
  ASSUME TypeOK, AgreeInv, CompleterInv, NEW c \in Clients, Save(c)
  PROVE  unit[req[c].unit].state = CASE req[c].op = "enqueue" -> "None"
                                     [] req[c].op = "release" -> "Pending"
                                     [] OTHER                 -> "Released"
  <1>1. /\ StoreOK /\ Saved(c) /\ Saving(c) /\ Ready(c)
        /\ unit[req[c].unit].path \in {req[c].path, NoPath}
    BY TypeOKParts, SaveOne
  <1> DEFINE p == req[c].path
             u == req[c].unit
  <1>2. p \in Paths /\ u \in WorkUnits
    BY <1>1 DEF Saving
  <1>3. CASE req[c].op = "enqueue"
    <2>1. poolEntries[p][u] = "absent"
      BY <1>1, <1>3 DEF Ready, Pool
    <2>2. unit[u].state \in UnitStates
      BY <1>1, <1>2 DEF StoreOK, Units
    <2>3. unit[u].path = p => unit[u].state = "None"
      BY <1>2, <2>1, <2>2, EntriesTell DEF AgreeInv, PoolAgreesWithUnits
    <2>4. unit[u].path = NoPath => unit[u].state = "None"
      BY <1>1, <1>2 DEF StoreOK
    <2> QED BY <1>1, <1>3, <2>3, <2>4
  <1>4. CASE req[c].op = "release"
    <2>1. poolEntries[p][u] = "pending"
      BY <1>1, <1>4 DEF Ready, Pool, NextPending, Pending
    <2> QED BY <1>1, <1>2, <1>4, <2>1, EntryIsUnits DEF AgreeInv
  <1>5. CASE req[c].op = "complete"
    BY <1>1, <1>5 DEF CompleterInv, StillReleased, Saved
  <1> QED BY <1>1, <1>3, <1>4, <1>5 DEF Saving

(* A step of the completer itself. *)
LEMMA CompleterStep ==
  ASSUME TypeOK, AgreeInv, CompleterInv, NEW c \in Clients, Act(c), ~Save(c)
  PROVE  StillReleased(c)'
  <1>1. ClientsOK /\ Known(pc[c], req[c], copy[c]) /\ StillReleased(c)
    BY TypeOKParts DEF CompleterInv
  <1>2. unit' = unit
    BY OnlySaveWrites DEF store
  <1>3. CASE Ended(c)
    BY <1>3 DEF Ended, StillReleased, NoRequest
  <1>4. CASE Began(c)
    BY <1>4 DEF Began, StillReleased
  <1>5. CASE UnitFound(c)
    <2>1. req'[c].unit = req[c].unit
      BY <1>1, <1>5 DEF UnitFound, ClientsOK, Requests
    <2> QED BY <1>1, <1>2, <1>5, <2>1 DEF UnitFound, StillReleased
  <1>6. CASE RowFound(c) \/ NewPool(c) \/ Decided(c)
    <2>1. req'[c] = req[c] /\ pc[c] # "readUnit"
      BY <1>6 DEF RowFound, NewPool, Decided
    <2> QED BY <1>1, <1>2, <2>1 DEF StillReleased
  <1>7. ASSUME NEW w \in WorkUnits, Picked(c, w)
        PROVE  StillReleased(c)'
    <2>1. req'[c].op = "release"
      BY <1>1, <1>7 DEF Picked, ClientsOK, Requests
    <2> QED BY <2>1 DEF StillReleased
  <1>8. CASE Lost(c)
    <2>1. req'[c].op = req[c].op /\ (req[c].op = "complete" => pc'[c] = "readUnit")
      BY <1>8 DEF Lost, Original, FirstLabel
    <2> QED BY <1>1, <2>1 DEF StillReleased
  <1> QED BY <1>3, <1>4, <1>5, <1>6, <1>7, <1>8, StepsOf DEF Works

(* A step of another client. *)
LEMMA OthersRelease ==
  ASSUME TypeOK, AgreeInv, CompleterInv, NEW c \in Clients, Act(c), NEW d \in Clients, d # c
  PROVE  StillReleased(d)'
  <1>1. pc'[d] = pc[d] /\ req'[d] = req[d]
    BY OthersStay
  <1>2. StoreOK /\ StillReleased(d)
    BY TypeOKParts DEF CompleterInv
  <1>3. CASE ~Save(c)
    <2>1. unit' = unit
      BY <1>3, OnlySaveWrites DEF store
    <2> QED BY <1>1, <1>2, <2>1 DEF StillReleased
  <1>4. CASE Save(c)
    <2>1. Saved(c) /\ Saving(c)
      BY <1>4, SaveIs
    <2>2. unit[req[c].unit].state = "Released" => req[c].op = "complete"
      BY <1>4, <2>1, SaveMoves DEF Saving
    <2>3. ASSUME req[d].op = "complete", pc[d] # "readUnit"
          PROVE  unit'[req[d].unit].state = "Released"
      <3>1. unit[req[d].unit].state = "Released" /\ d \in Completers
        BY <1>2, <2>3 DEF StillReleased
      <3>2. req[d].unit # req[c].unit
        <4>1. req[c].op = "complete" => c \in Completers
          BY DEF CompleterInv, StillReleased
        <4> QED BY <2>2, <3>1, <4>1 DEF CompleterInv, OneCompleter
      <3>3. req[d].unit \in WorkUnits
        BY <2>3, TypeOKParts DEF Known
      <3>4. unit'[req[d].unit] = unit[req[d].unit]
        BY <1>2, <2>1, <3>2, <3>3 DEF Saved, StoreOK
      <3> QED BY <3>1, <3>4
    <2> QED BY <1>1, <1>2, <2>3 DEF StillReleased
  <1> QED BY <1>3, <1>4

(* The invariant of completions holds if moreover one client completes. *)
LEMMA CompleterInvHolds == SinglePath /\ OneCompleter /\ Spec => []CompleterInv
  <1>1. OneCompleter /\ Init => CompleterInv
    BY DEF Init, CompleterInv, StillReleased, NoRequest
  <1>2. TypeOK /\ AgreeInv /\ CompleterInv /\ [Next]_vars => CompleterInv'
    <2> SUFFICES ASSUME TypeOK, AgreeInv, CompleterInv, [Next]_vars PROVE CompleterInv'
      OBVIOUS
    <2>1. ASSUME NEW c \in Clients, Act(c)
          PROVE  CompleterInv'
      <3>1. StillReleased(c)'
        <4>1. CASE Save(c)
          <5>1. req'[c] = NoRequest
            BY <4>1, SaveIs DEF Saved
          <5> QED BY <5>1 DEF StillReleased, NoRequest
        <4>2. CASE ~Save(c)
          BY <2>1, <4>2, CompleterStep
        <4> QED BY <4>1, <4>2
      <3>2. \A d \in Clients \ {c} : StillReleased(d)'
        BY <2>1, OthersRelease
      <3> QED BY <3>1, <3>2 DEF CompleterInv, OneCompleter
    <2>2. CASE UNCHANGED vars
      BY <2>2 DEF CompleterInv, OneCompleter, StillReleased, vars, store, client
    <2> QED BY <2>1, <2>2 DEF Next
  <1> QED BY <1>1, <1>2, TypeCorrect, AgreeInvHolds, PTL DEF Spec

PathOfUnit == [w \in WorkUnits |-> CHOOSE p \in PathsOf[w] : TRUE]

(* The path of a unit that is there is its path. *)
LEMMA PathOfIs ==
  ASSUME SinglePath, NEW w \in WorkUnits, NEW p \in PathsOf[w]
  PROVE  PathOfUnit[w] = p
  BY DEF SinglePath, PathOfUnit

(* The units of a path at a stage are its pool's entries in that state.    *)
LEMMA StageIsEntry ==
  ASSUME StoreOK, AgreeInv, NEW p \in Paths
  PROVE  /\ Lifecycle!OnPath(p, "Released") = Outstanding(poolEntries[p])
         /\ Lifecycle!OnPath(p, "Pending") = Pending(poolEntries[p])
  <1>1. ASSUME NEW w \in WorkUnits, unit[w].state # "None"
        PROVE  PathOfUnit[w] = unit[w].path
    BY <1>1, PathOfIs DEF AgreeInv
  <1>2. ASSUME NEW w \in WorkUnits
        PROVE  /\ poolEntries[p][w] = "released" <=>
                      PathOfUnit[w] = p /\ unit[w].state = "Released"
               /\ poolEntries[p][w] = "pending" <=>
                      PathOfUnit[w] = p /\ unit[w].state = "Pending"
    BY <1>1, EntryIsUnits DEF AgreeInv
  <1> QED BY <1>2 DEF Lifecycle!OnPath, Outstanding, Pending, PathOfUnit

(* The lifecycle counts as its implementation does. *)
LEMMA SameCount ==
  ASSUME NEW S
  PROVE  Lifecycle!Cardinality(S) = Cardinality(S)
  BY DEF Lifecycle!Cardinality, Cardinality

(* A save is one operation of the lifecycle. *)
LEMMA SaveImplements ==
  ASSUME TypeOK, AgreeInv, CompleterInv, NEW c \in Clients, Save(c)
  PROVE  Lifecycle!Next
  <1>1. /\ StoreOK /\ Saved(c) /\ Saving(c) /\ Ready(c)
        /\ req[c].path \in PathsOf[req[c].unit]
    BY TypeOKParts, SaveOne
  <1> DEFINE stages == [w \in WorkUnits |-> unit[w].state]
  <1>u. PICK u : u = req[c].unit
    OBVIOUS
  <1>2. u \in WorkUnits /\ req[c].path \in Paths
    BY <1>1, <1>u DEF Saving
  <1>3. stages' = [stages EXCEPT ![u] = Outcome(req[c].op)]
    BY <1>1, <1>2, <1>u DEF Saved, StoreOK
  <1>4. events' = [events EXCEPT ![u] = Append(@, EventOf(req[c].op))]
    BY <1>1, <1>u DEF Saved
  <1>5. stages[u] = CASE req[c].op = "enqueue" -> "None"
                      [] req[c].op = "release" -> "Pending"
                      [] OTHER                 -> "Released"
    BY <1>2, <1>u, SaveMoves
  <1>6. CASE req[c].op = "enqueue"
    <2>1. stages[u] = "None" /\ Outcome(req[c].op) = "Pending"
          /\ EventOf(req[c].op) = "WorkUnitCreated"
      BY <1>5, <1>6 DEF Outcome, EventOf
    <2>2. Lifecycle!Enqueue(u)
      BY <1>3, <1>4, <2>1 DEF Lifecycle!Enqueue, Lifecycle!Move
    <2> QED BY <1>2, <2>2 DEF Lifecycle!Next
  <1>7. CASE req[c].op = "release"
    <2>1. stages[u] = "Pending" /\ Outcome(req[c].op) = "Released"
          /\ EventOf(req[c].op) = "WorkReleased"
      BY <1>5, <1>7 DEF Outcome, EventOf
    <2>2. u \in NextPending(Pool(c)) /\ CanReleaseNext(Pool(c))
      BY <1>1, <1>7, <1>u DEF Ready
    <2>3. PathOfUnit[u] = req[c].path
      BY <1>1, <1>2, <1>u, PathOfIs DEF AgreeInv
    <2>p. PICK p : p = req[c].path
      OBVIOUS
    <2>4. /\ Lifecycle!OnPath(p, "Released") = Outstanding(Pool(c))
          /\ Lifecycle!OnPath(p, "Pending") = Pending(Pool(c))
      BY <1>1, <1>2, <2>p, StageIsEntry DEF Pool
    <2>9. [w \in WorkUnits |-> CHOOSE q \in PathsOf[w] : TRUE][u] = p
      BY <2>3, <2>p DEF PathOfUnit
    <2>5. Lifecycle!Move(u, "Pending", "Released", "WorkReleased")
      BY <1>3, <1>4, <2>1 DEF Lifecycle!Move
    <2>6. Cardinality(Outstanding(Pool(c))) < WipLimit
      BY <2>2 DEF CanReleaseNext, WIP
    <2>7. \A v \in Pending(Pool(c)) : CptOf[u] <= CptOf[v]
      BY <2>2 DEF NextPending
    <2>8. Lifecycle!Release(u)
      BY <2>4, <2>5, <2>6, <2>7, <2>9, SameCount DEF Lifecycle!Release
    <2> QED BY <1>2, <2>8 DEF Lifecycle!Next
  <1>8. CASE req[c].op = "complete"
    <2>1. stages[u] = "Released" /\ Outcome(req[c].op) = "Completed"
          /\ EventOf(req[c].op) = "WorkUnitCompleted"
      BY <1>5, <1>8 DEF Outcome, EventOf
    <2>2. Lifecycle!Complete(u)
      BY <1>3, <1>4, <2>1 DEF Lifecycle!Complete, Lifecycle!Move
    <2> QED BY <1>2, <2>2 DEF Lifecycle!Next
  <1> QED BY <1>1, <1>6, <1>7, <1>8 DEF Saving

(* THE REFINEMENT: when each id is enqueued on one path and completions    *)
(* are recorded one at a time, the optimistic read-modify-write protocol   *)
(* implements the lifecycle: every save is one atomic operation on one     *)
(* unit, announced by one event, and every other step is invisible.        *)
THEOREM LifecycleImplemented == SinglePath /\ OneCompleter /\ Spec => ImplementsLifecycle
  <1>1. Init => Lifecycle!Init
    BY DEF Init, Lifecycle!Init
  <1>2. TypeOK /\ AgreeInv /\ CompleterInv /\ [Next]_vars =>
            [Lifecycle!Next]_Lifecycle!lifecycleVars
    <2> SUFFICES ASSUME TypeOK, AgreeInv, CompleterInv, [Next]_vars
                 PROVE  [Lifecycle!Next]_Lifecycle!lifecycleVars
      OBVIOUS
    <2>1. ASSUME NEW c \in Clients, Save(c)
          PROVE  Lifecycle!Next
      BY <2>1, SaveImplements
    <2>2. CASE UNCHANGED store
      BY <2>2 DEF store, Lifecycle!lifecycleVars
    <2> QED BY <2>1, <2>2, OnlySaveWrites DEF Next, vars, store
  <1> QED BY <1>1, <1>2, TypeCorrect, AgreeInvHolds, CompleterInvHolds, PTL
          DEF Spec, ImplementsLifecycle, Lifecycle!Spec
=============================================================================
