---------------------------- MODULE WorkPlanning ----------------------------
(***************************************************************************)
(* The transactional core: the use cases EnqueueWorkUnit, ReleaseNextWork  *)
(* and RecordCompletion over the Postgres repositories, run by any number  *)
(* of request goroutines (HTTP handlers, Kafka consumers, other replicas)  *)
(* at once.                                                                *)
(*                                                                         *)
(* A request is a small program over its own copy of a pool: it reads the  *)
(* pool's row (with the version), then the pool's entries in a second      *)
(* statement, decides on the copy, and saves.  The save is one Postgres    *)
(* transaction: the version-guarded write of the pool, the upsert of the   *)
(* work unit and the insert of the outbox row.  It is one step here: its   *)
(* first statement locks the pool's row until the commit, so nobody can    *)
(* change the pool between its check and its commit, and readers see       *)
(* committed data only.  Reads are one step each, and anything may happen  *)
(* between them.  A lost race starts a fresh attempt, at most MaxAttempts  *)
(* times.                                                                  *)
(***************************************************************************)
EXTENDS WorkPool, Sequences

CONSTANTS Paths,        \* process paths
          PathsOf,      \* the paths on which each work unit id is ever enqueued
          Clients,      \* concurrent requests
          Completers,   \* the clients that record completions
          MaxAttempts,  \* maxPoolSaveAttempts, 12 in the code
          NoUnit, NoPath

ASSUME PlanningAssumption ==
    /\ PathsOf \in [WorkUnits -> SUBSET Paths]
    /\ Completers \subseteq Clients
    /\ MaxAttempts \in Nat \ {0}
    /\ NoUnit \notin WorkUnits
    /\ NoPath \notin Paths

VARIABLES poolVersion,  \* work_pools.version of each path, 0 for no row
          poolEntries,  \* the work_pool_entries rows of each path
          unit,         \* the work_units row of each id: state and path
          events,       \* the outbox rows of each id, in commit order
          pc,           \* what each client does next
          req,          \* its request
          copy,         \* its copy of the pool, and of the unit's path
          tries         \* the saves it has lost

store  == <<poolVersion, poolEntries, unit, events>>
client == <<pc, req, copy, tries>>
vars   == <<store, client>>

UnitStates == {"None", "Pending", "Released", "Completed"}
EventTypes == {"WorkUnitCreated", "WorkReleased", "WorkUnitCompleted"}

NoRequest == [op |-> "none", unit |-> NoUnit, path |-> NoPath]
NoCopy    == [version |-> 0, entries |-> EmptyPool, home |-> NoPath]

(* The labels a request of each kind goes through. *)
GoesThrough(op, label) ==
    \/ op = "none"     /\ label = "idle"
    \/ op = "enqueue"  /\ label \in {"readRow", "readEntries", "save"}
    \/ op = "release"  /\ label \in {"readRow", "readEntries", "pick", "save"}
    \/ op = "complete" /\ label \in {"readUnit", "readRow", "readEntries", "save"}

(* What a client at a label knows: the path, the unit, the unit's path. *)
Known(label, r, k) ==
    /\ GoesThrough(r.op, label)
    /\ label = "idle" => r = NoRequest /\ k = NoCopy
    /\ label \notin {"idle", "readUnit"} => r.path \in Paths
    /\ r.op \in {"enqueue", "complete"} \/ label = "save" => r.unit \in WorkUnits
    /\ r.op = "complete" => k.home = r.path
    /\ label = "save" => k.home \in Paths

Labels == {"idle", "readUnit", "readRow", "readEntries", "pick", "save"}

Requests == [op   : {"none", "enqueue", "release", "complete"},
             unit : WorkUnits \cup {NoUnit},
             path : Paths \cup {NoPath}]

Copies == [version : Nat, entries : Pools, home : Paths \cup {NoPath}]

Units == [state : UnitStates, path : Paths \cup {NoPath}]

(* The type invariant. *)
TypeOK ==
    /\ poolVersion \in [Paths -> Nat]
    /\ poolEntries \in [Paths -> Pools]
    /\ unit \in [WorkUnits -> Units]
    /\ \A w \in WorkUnits : unit[w].state = "None" <=> unit[w].path = NoPath
    /\ events \in [WorkUnits -> Seq(EventTypes)]
    /\ pc \in [Clients -> Labels]
    /\ req \in [Clients -> Requests]
    /\ copy \in [Clients -> Copies]
    /\ tries \in [Clients -> 0..(MaxAttempts - 1)]
    /\ \A c \in Clients : Known(pc[c], req[c], copy[c])

Init ==
    /\ poolVersion = [p \in Paths |-> 0]
    /\ poolEntries = [p \in Paths |-> EmptyPool]
    /\ unit = [w \in WorkUnits |-> [state |-> "None", path |-> NoPath]]
    /\ events = [w \in WorkUnits |-> <<>>]
    /\ pc = [c \in Clients |-> "idle"]
    /\ req = [c \in Clients |-> NoRequest]
    /\ copy = [c \in Clients |-> NoCopy]
    /\ tries = [c \in Clients |-> 0]

-----------------------------------------------------------------------------
(* Requests *)

Goto(c, label) == pc' = [pc EXCEPT ![c] = label]

(* The request is answered, with success or with an error. *)
Finish(c) ==
    /\ Goto(c, "idle")
    /\ req' = [req EXCEPT ![c] = NoRequest]
    /\ copy' = [copy EXCEPT ![c] = NoCopy]
    /\ tries' = [tries EXCEPT ![c] = 0]

Begin(c, request, label) ==
    /\ pc[c] = "idle"
    /\ Goto(c, label)
    /\ req' = [req EXCEPT ![c] = request]
    /\ UNCHANGED <<store, copy, tries>>

BeginEnqueue(c, w, p) ==
    /\ p \in PathsOf[w]
    /\ Begin(c, [op |-> "enqueue", unit |-> w, path |-> p], "readRow")

BeginRelease(c, p) ==
    Begin(c, [op |-> "release", unit |-> NoUnit, path |-> p], "readRow")

BeginComplete(c, w) ==
    /\ c \in Completers
    /\ Begin(c, [op |-> "complete", unit |-> w, path |-> NoPath], "readUnit")

(* RecordCompletion reads the unit before it opens its transaction: an     *)
(* unknown, unreleased or completed unit is an error.                      *)
ReadUnit(c) ==
    /\ pc[c] = "readUnit"
    /\ LET u == unit[req[c].unit]
       IN  \/ /\ u.state = "Released"
              /\ req' = [req EXCEPT ![c].path = u.path]
              /\ copy' = [copy EXCEPT ![c].home = u.path]
              /\ Goto(c, "readRow")
              /\ UNCHANGED <<store, tries>>
           \/ /\ u.state # "Released"
              /\ Finish(c)
              /\ UNCHANGED store

(* The first statement of FindByPathId.  A path with no pool: an enqueue   *)
(* goes on with a new pool, never saved (version 0); a release fails.      *)
ReadPoolRow(c) ==
    /\ pc[c] = "readRow"
    /\ LET r == req[c]
           v == poolVersion[r.path]
       IN  \/ /\ v # 0
              /\ copy' = [copy EXCEPT ![c].version = v]
              /\ Goto(c, "readEntries")
              /\ UNCHANGED <<store, req, tries>>
           \/ /\ v = 0 /\ r.op = "enqueue"
              /\ copy' = [copy EXCEPT ![c] = [version |-> 0,
                                              entries |-> Enqueued(EmptyPool, r.unit),
                                              home    |-> r.path]]
              /\ Goto(c, "save")
              /\ UNCHANGED <<store, req, tries>>
           \/ /\ v = 0 /\ r.op = "release"
              /\ Finish(c)
              /\ UNCHANGED store

(* EnqueueWorkUnit adds the unit to the entries e, or fails with           *)
(* ErrDuplicateEntry.                                                      *)
DecideEnqueue(c, e) ==
    LET r == req[c]
    IN  /\ r.op = "enqueue"
        /\ \/ /\ e[r.unit] = "absent"
              /\ copy' = [copy EXCEPT ![c].entries = Enqueued(e, r.unit),
                                      ![c].home = r.path]
              /\ Goto(c, "save")
              /\ UNCHANGED <<req, tries>>
           \/ /\ e[r.unit] # "absent"
              /\ Finish(c)

(* ReleaseNextWork has yet to look at the work units.                      *)
DecideRelease(c, e) ==
    /\ req[c].op = "release"
    /\ copy' = [copy EXCEPT ![c].entries = e]
    /\ Goto(c, "pick")
    /\ UNCHANGED <<req, tries>>

(* RecordCompletion frees the unit's slot.  completePoolEntry's branches   *)
(* for a path with no pool and for a pool that does not hold the unit are  *)
(* dead here: see UnitHasEntry.                                            *)
DecideComplete(c, e) ==
    /\ req[c].op = "complete"
    /\ e[req[c].unit] # "absent"
    /\ copy' = [copy EXCEPT ![c].entries = Reconciled(e, req[c].unit, "Completed")]
    /\ Goto(c, "save")
    /\ UNCHANGED <<req, tries>>

(* The second statement of FindByPathId, and what the use case does on the *)
(* copy before its next access to the store.                               *)
ReadPoolEntries(c) ==
    /\ pc[c] = "readEntries"
    /\ LET e == poolEntries[req[c].path]
       IN  DecideEnqueue(c, e) \/ DecideRelease(c, e) \/ DecideComplete(c, e)
    /\ UNCHANGED store

(* One round of nextReleasableUnit: hand out the next entry of the copy    *)
(* and read its work unit.  An entry whose unit has moved on is healed in  *)
(* the copy and the loop goes on.                                          *)
PickNext(c, w) ==
    \/ /\ unit[w].state = "Pending"
       /\ req' = [req EXCEPT ![c].unit = w]
       /\ copy' = [copy EXCEPT ![c].entries = Released(@, w),
                               ![c].home = unit[w].path]
       /\ Goto(c, "save")
       /\ UNCHANGED <<store, tries>>
    \/ /\ unit[w].state \in {"Released", "Completed"}
       /\ copy' = [copy EXCEPT ![c].entries =
                      Reconciled(Released(@, w), w, unit[w].state)]
       /\ UNCHANGED <<store, pc, req, tries>>

(* Mutated PickUnit: in no particular order. *)
PickUnitAnyOrder(c) ==
    /\ pc[c] = "pick"
    /\ CanReleaseNext(copy[c].entries)
    /\ \E w \in Pending(copy[c].entries) : PickNext(c, w)

PickUnit(c) ==
    /\ pc[c] = "pick"
    /\ \/ /\ CanReleaseNext(copy[c].entries)
          /\ \E w \in NextPending(copy[c].entries) : PickNext(c, w)
       \/ /\ ~CanReleaseNext(copy[c].entries)    \* ErrEmptyPool, ErrWIPLimitReached
          /\ Finish(c)
          /\ UNCHANGED store

-----------------------------------------------------------------------------
(* Saving *)

Outcome(op) ==
    CASE op = "enqueue" -> "Pending"
      [] op = "release" -> "Released"
      [] OTHER          -> "Completed"

EventOf(op) ==
    CASE op = "enqueue" -> "WorkUnitCreated"
      [] op = "release" -> "WorkReleased"
      [] OTHER          -> "WorkUnitCompleted"

(* The pool's row at its next version, and all its entries anew. *)
WritePool(c) ==
    /\ poolVersion' = [poolVersion EXCEPT ![req[c].path] = copy[c].version + 1]
    /\ poolEntries' = [poolEntries EXCEPT ![req[c].path] = copy[c].entries]

(* The upsert of the unit's whole row, whatever was there. *)
WriteUnit(c) ==
    unit' = [unit EXCEPT ![req[c].unit] = [state |-> Outcome(req[c].op),
                                           path  |-> copy[c].home]]

(* The event goes to the outbox. *)
Publish(c) ==
    events' = [events EXCEPT ![req[c].unit] = Append(@, EventOf(req[c].op))]

(* What the transaction writes. *)
Write(c) == WritePool(c) /\ WriteUnit(c) /\ Publish(c)

(* Mutated Save: no WHERE version = loaded. *)
SaveUnguarded(c) ==
    /\ pc[c] = "save"
    /\ Write(c)
    /\ Finish(c)

(* saveVersionedPoolRow finds the version it was loaded at. *)
Save(c) ==
    /\ pc[c] = "save"
    /\ poolVersion[req[c].path] = copy[c].version
    /\ Write(c)
    /\ Finish(c)

FirstLabel(op) == IF op = "complete" THEN "readUnit" ELSE "readRow"

(* The request as it came in: what it has learnt on the way is dropped. *)
Original(r) == [op   |-> r.op,
                unit |-> IF r.op = "release" THEN NoUnit ELSE r.unit,
                path |-> IF r.op = "complete" THEN NoPath ELSE r.path]

(* Mutated LoseRace: the next attempt saves the same copy again. *)
LoseRaceKeepingCopy(c) ==
    /\ pc[c] = "save"
    /\ poolVersion[req[c].path] # copy[c].version
    /\ IF tries[c] + 1 = MaxAttempts
       THEN Finish(c)
       ELSE /\ tries' = [tries EXCEPT ![c] = @ + 1]
            /\ UNCHANGED <<pc, req, copy>>
    /\ UNCHANGED store

(* Mutated LoseRace: ... under the version it has just seen. *)
LoseRaceRefreshingVersion(c) ==
    /\ pc[c] = "save"
    /\ poolVersion[req[c].path] # copy[c].version
    /\ copy' = [copy EXCEPT ![c].version = poolVersion[req[c].path]]
    /\ UNCHANGED <<store, pc, req, tries>>

(* Mutated LoseRace: no budget. *)
LoseRaceNoBudget(c) ==
    /\ pc[c] = "save"
    /\ poolVersion[req[c].path] # copy[c].version
    /\ tries' = [tries EXCEPT ![c] = @ + 1]
    /\ Goto(c, FirstLabel(req[c].op))
    /\ UNCHANGED <<store, req, copy>>

(* Mutated LoseRace: it saves the same copy for ever. *)
LoseRaceForever(c) ==
    /\ pc[c] = "save"
    /\ poolVersion[req[c].path] # copy[c].version
    /\ UNCHANGED vars

(* Another save came first: nothing is written, and the attempt starts     *)
(* again from a fresh read, or the budget is spent and the request fails   *)
(* with ErrConcurrentModification.                                         *)
LoseRace(c) ==
    /\ pc[c] = "save"
    /\ poolVersion[req[c].path] # copy[c].version
    /\ \/ /\ tries[c] + 1 < MaxAttempts
          /\ tries' = [tries EXCEPT ![c] = @ + 1]
          /\ copy' = [copy EXCEPT ![c] = NoCopy]
          /\ req' = [req EXCEPT ![c] = Original(@)]
          /\ Goto(c, FirstLabel(req[c].op))
       \/ /\ tries[c] + 1 = MaxAttempts
          /\ Finish(c)
    /\ UNCHANGED store

(* The process dies or the caller gives up before the commit: Postgres     *)
(* rolls back, nothing of the request is left.                             *)
Abandon(c) ==
    /\ pc[c] # "idle"
    /\ Finish(c)
    /\ UNCHANGED store

-----------------------------------------------------------------------------
Step(c) ==
    \/ ReadUnit(c)
    \/ ReadPoolRow(c)
    \/ ReadPoolEntries(c)
    \/ PickUnit(c)
    \/ Save(c)
    \/ LoseRace(c)

Act(c) ==
    \/ \E w \in WorkUnits : \E p \in Paths : BeginEnqueue(c, w, p)
    \/ \E p \in Paths : BeginRelease(c, p)
    \/ \E w \in WorkUnits : BeginComplete(c, w)
    \/ Step(c)
    \/ Abandon(c)

Next == \E c \in Clients : Act(c)

Spec == Init /\ [][Next]_vars

(* A goroutine that is not abandoned keeps running; nobody has to send a   *)
(* request.                                                                *)
FairSpec == Spec /\ \A c \in Clients : WF_vars(Step(c))

-----------------------------------------------------------------------------
(* What may be assumed of the callers. *)

(* An id is enqueued on one path only.  No code checks it.                 *)
SinglePath == \A w \in WorkUnits : \A p, q \in PathsOf[w] : p = q

(* Completions are recorded one at a time.  No code checks it: TaskCompleted *)
(* and POST /work-units/{id}/complete may name the same unit.              *)
OneCompleter == \A c, d \in Completers : c = d

-----------------------------------------------------------------------------
(* Properties that hold whatever the callers do. *)

(* However requests interleave, a path never has more than WipLimit units  *)
(* outstanding: RemainingCapacity is never negative, as its comment says.  *)
WipLimitRespected == \A p \in Paths : WIP(poolEntries[p]) <= WipLimit

(* No save undoes another's: an entry never moves backwards and never      *)
(* leaves its pool (the lost update the version column is there for).      *)
EntriesMoveForward ==
    [][\A p \in Paths : \A w \in WorkUnits :
          Rank(poolEntries[p][w]) <= Rank(poolEntries'[p][w])]_store

(* A unit is handed out only if, at the commit itself and not just when    *)
(* the pool was read, no unit left waiting on the path has an earlier      *)
(* cut-off.                                                                *)
EarliestCutoffFirst ==
    [][\A p \in Paths : \A w, v \in WorkUnits :
          /\ poolEntries[p][w] = "pending" /\ poolEntries'[p][w] = "released"
          /\ poolEntries[p][v] = "pending" /\ poolEntries'[p][v] = "pending"
          => CptOf[w] <= CptOf[v]]_store

(* The two tables written by one transaction never show one half of it: a  *)
(* unit has its entry in the pool of its path, and an entry has its unit.  *)
(* So the error branches of nextReleasableUnit (unit not found) and of     *)
(* completePoolEntry (no pool, unknown entry) are never taken.             *)
UnitHasEntry ==
    /\ \A w \in WorkUnits : unit[w].state # "None" =>
          unit[w].path \in Paths /\ poolEntries[unit[w].path][w] # "absent"
    /\ \A p \in Paths : \A w \in WorkUnits :
          poolEntries[p][w] # "absent" => unit[w].state # "None"

-----------------------------------------------------------------------------
(* Properties that need SinglePath. *)

EntryOf(state) ==
    CASE state = "None"     -> "absent"
      [] state = "Pending"  -> "pending"
      [] state = "Released" -> "released"
      [] OTHER              -> "completed"

(* The pool entry and the work unit, two aggregates, tell the same story   *)
(* in every committed state: the healing of nextReleasableUnit has nothing *)
(* to heal.                                                                *)
PoolAgreesWithUnits ==
    \A p \in Paths : \A w \in WorkUnits :
        poolEntries[p][w] =
            IF unit[w].path = p THEN EntryOf(unit[w].state) ELSE "absent"

(* A save whose version check passes writes the committed entries plus its *)
(* own one change, although the copy was read in two statements and any    *)
(* number of saves may have come between.                                  *)
SaveIsFresh ==
    \A c \in Clients :
        pc[c] = "save" /\ poolVersion[req[c].path] = copy[c].version =>
            LET e == poolEntries[req[c].path]
                w == req[c].unit
            IN  /\ copy[c].entries = [e EXCEPT ![w] = EntryOf(Outcome(req[c].op))]
                /\ Rank(e[w]) <= Rank(copy[c].entries[w])

(* Every lost race is lost to a save that took place: a request never      *)
(* loses more often than its pool was saved, so ErrConcurrentModification  *)
(* is never reported without MaxAttempts saves by others.                  *)
NoSpuriousConflict ==
    \A c \in Clients :
        req[c].path # NoPath => tries[c] <= poolVersion[req[c].path]

(* With OneCompleter too: each save is one atomic operation of             *)
(* WorkLifecycle, and every other step is invisible.  So the outbox tells  *)
(* each unit's life exactly: every stage once, in order, and never ahead   *)
(* of or behind the tables.                                                *)
Lifecycle == INSTANCE WorkLifecycle WITH
                PathOf    <- [w \in WorkUnits |-> CHOOSE p \in PathsOf[w] : TRUE],
                stage     <- [w \in WorkUnits |-> unit[w].state],
                announced <- events

ImplementsLifecycle == Lifecycle!Spec

-----------------------------------------------------------------------------
(* What WorkUnit's own comment says (work_unit.go:31-32): a unit "is       *)
(* assigned at most once at a time and cannot complete twice".             *)

Count(w, type) == Cardinality({i \in DOMAIN events[w] : events[w][i] = type})

(* It is handed out again only after it was completed.                     *)
AssignedAtMostOnce ==
    \A w \in WorkUnits : Count(w, "WorkReleased") <= 1 + Count(w, "WorkUnitCompleted")

(* Its completion is announced once.                                       *)
CompletedAtMostOnce ==
    \A w \in WorkUnits : Count(w, "WorkUnitCompleted") <= 1

-----------------------------------------------------------------------------
(* Every request is answered: the retry loop is bounded, and no request    *)
(* waits for another.                                                      *)
EveryRequestAnswered ==
    \A c \in Clients : pc[c] # "idle" ~> pc[c] = "idle"
=============================================================================
