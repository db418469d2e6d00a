----------------------- MODULE MCAnalyticsProjection -----------------------
(* Small instances of AnalyticsProjection. *)
EXTENDS AnalyticsProjection, TLC

CONSTANTS pathA, unit1, unit2, p1, p2

Ev(id, type, unit, at) ==
    [id |-> id, type |-> type, unit |-> unit, path |-> pathA, at |-> at, readable |-> TRUE]

released1 == Ev(1, "WorkReleased", unit1, 3)
released2 == Ev(2, "WorkReleased", unit2, 2)
internal  == Ev(3, "WorkUnitDropped", unit1, 1)
retired   == Ev(4, Flat, unit1, 1)
torn      == [Ev(5, "PathThrottled", unit1, 1) EXCEPT !.readable = FALSE]

\* Two units' events in one row, one of them twice on its partition, and
\* what is not sent, not a CloudEvent, or cannot be decoded.
AllSent == <<released1, released2, internal, retired, released1, torn>>

OneSent == <<released1>>

\* The keys unit1 and pathA on one partition, unit2 on the other.
HashOf == (unit1 :> p1) @@ (unit2 :> p2) @@ (pathA :> p1)
=============================================================================
