--------------------------- MODULE MCPlanningDesk ---------------------------
(* Small instances of PlanningDesk. *)
EXTENDS PlanningDesk, TLC

CONSTANTS w1, w2

Rq(op, valid, extra) == [op |-> op, valid |-> valid, extra |-> extra]

\* Two plans of which one asks for a hint, one that is refused, a forecast,
\* a sample with the capacity, an advice, a release.
AllRequests == {Rq("plan", TRUE, TRUE), Rq("plan", TRUE, FALSE), Rq("plan", FALSE, FALSE),
                Rq("forecast", TRUE, FALSE), Rq("sample", TRUE, TRUE),
                Rq("rebalance", TRUE, FALSE), Rq("release", TRUE, FALSE)}

\* Every client may ask for everything.
ClientSymmetry == Permutations(Clients)

CptOfUnit == [w \in WorkUnits |-> 1]
=============================================================================
