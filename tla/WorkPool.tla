------------------------------ MODULE WorkPool ------------------------------
(***************************************************************************)
(* The WorkPool aggregate: the queue of one process path.  This module is  *)
(* constant-level: it holds the value a pool has and the pure operations   *)
(* the use cases apply to a loaded copy of it; the store, the versions and *)
(* the concurrency are in WorkPlanning.                                    *)
(*                                                                         *)
(* A pool is a function from work unit ids to the state of that id's       *)
(* entry.  The code keeps a slice, in which an id occurs at most once      *)
(* (Enqueue and RestoreEntry both refuse a second one) and whose order     *)
(* shows only in which of several entries with the same CPT is handed out  *)
(* first: insertion order in memory, the order the rows come back in when  *)
(* read from Postgres (ORDER BY cpt only).  Ties are a free choice here.   *)
(* A CPT is a natural number; an id keeps the CPT it was first given.      *)
(*                                                                         *)
(* Only release-fed pools are modelled: EnqueueWorkUnit, the one place     *)
(* that makes a pool, makes it ReleaseFed with a fixed WIP limit.          *)
(***************************************************************************)
EXTENDS Naturals, FiniteSets

CONSTANTS WorkUnits,   \* work unit ids
          CptOf,       \* the CPT (cut-off) of each work unit
          WipLimit     \* defaultWIPLimit, 1000 in the code

ASSUME PoolAssumption ==
    /\ IsFiniteSet(WorkUnits)
    /\ CptOf \in [WorkUnits -> Nat]
    /\ WipLimit \in Nat

EntryStates == {"absent", "pending", "released", "completed"}

Pools == [WorkUnits -> EntryStates]

EmptyPool == [w \in WorkUnits |-> "absent"]

-----------------------------------------------------------------------------
(* Queries *)

Pending(pool) == {w \in WorkUnits : pool[w] = "pending"}

Outstanding(pool) == {w \in WorkUnits : pool[w] = "released"}

BacklogDepth(pool) == Cardinality(Pending(pool))

WIP(pool) == Cardinality(Outstanding(pool))

(* Pending entries that nextPendingIndex may answer with. *)
NextPending(pool) ==
    {w \in Pending(pool) : \A v \in Pending(pool) : CptOf[w] <= CptOf[v]}

(* Mutated CanReleaseNext: one too many. *)
CanReleaseNextOffByOne(pool) ==
    /\ Pending(pool) # {}
    /\ WIP(pool) <= WipLimit

(* Otherwise ReleaseNext fails with ErrEmptyPool or ErrWIPLimitReached. *)
CanReleaseNext(pool) ==
    /\ Pending(pool) # {}
    /\ WIP(pool) < WipLimit

-----------------------------------------------------------------------------
(* Updates *)

Enqueued(pool, w) == [pool EXCEPT ![w] = "pending"]

Released(pool, w) == [pool EXCEPT ![w] = "released"]

(* The forward-only merge of an entry with the state of its work unit. *)
ReconciledState(stored, unitState) ==
    CASE unitState = "Completed" -> "completed"
      [] unitState = "Released" /\ stored = "pending" -> "released"
      [] OTHER -> stored

Reconciled(pool, w, unitState) ==
    [pool EXCEPT ![w] = ReconciledState(@, unitState)]

-----------------------------------------------------------------------------
(* The order in which an entry moves; an entry never leaves its pool. *)
Rank(entry) ==
    CASE entry = "absent"   -> 0
      [] entry = "pending"  -> 1
      [] entry = "released" -> 2
      [] OTHER              -> 3
=============================================================================
