--------------------------- MODULE WorkLifecycle ---------------------------
(***************************************************************************)
(* What work planning promises: every work unit goes through               *)
(* Pending, Released, Completed, one atomic operation at a time, and each  *)
(* operation is announced by exactly one event.  A path hands out the      *)
(* pending unit with the earliest cut-off and never has more than WipLimit *)
(* units outstanding.  No stores, no versions, no requests in flight:      *)
(* WorkPlanning shows that the optimistic read-modify-write protocol over  *)
(* the database implements this.                                           *)
(***************************************************************************)
EXTENDS Naturals, Sequences, FiniteSets

CONSTANTS WorkUnits, Paths, CptOf, WipLimit,
          PathOf       \* the path each work unit belongs to

VARIABLES stage,       \* the lifecycle stage of each unit
          announced    \* the events announced of each unit, in order

lifecycleVars == <<stage, announced>>

OnPath(p, s) == {w \in WorkUnits : PathOf[w] = p /\ stage[w] = s}

Init ==
    /\ stage = [w \in WorkUnits |-> "None"]
    /\ announced = [w \in WorkUnits |-> <<>>]

Move(w, from, to, event) ==
    /\ stage[w] = from
    /\ stage' = [stage EXCEPT ![w] = to]
    /\ announced' = [announced EXCEPT ![w] = Append(@, event)]

Enqueue(w) == Move(w, "None", "Pending", "WorkUnitCreated")

Release(w) ==
    /\ Cardinality(OnPath(PathOf[w], "Released")) < WipLimit
    /\ \A v \in OnPath(PathOf[w], "Pending") : CptOf[w] <= CptOf[v]
    /\ Move(w, "Pending", "Released", "WorkReleased")

Complete(w) == Move(w, "Released", "Completed", "WorkUnitCompleted")

Next == \E w \in WorkUnits : Enqueue(w) \/ Release(w) \/ Complete(w)

Spec == Init /\ [][Next]_lifecycleVars
=============================================================================
