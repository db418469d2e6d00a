--------------------------- MODULE MCWorkPlanning ---------------------------
(* Small instances of WorkPlanning.  CPTs: two units share a cut-off.      *)
EXTENDS WorkPlanning, TLC

CONSTANTS w1, w2, w3, p1, p2, c1, c2

\* Cut-offs: w1 is the most urgent; w2 and w3, when both are there, tie.
Cutoffs == [w \in WorkUnits |-> IF w = w1 THEN 1 ELSE 2]

\* Every id belongs to one path.
OnePathEach == [w \in WorkUnits |-> {IF w = w3 THEN p2 ELSE p1}]

\* w1 may be enqueued on either path, every other id on p1.
TwoPathsForW1 == [w \in WorkUnits |-> IF w = w1 THEN Paths ELSE {p1}]

\* Clients that may all do the same are interchangeable.
ClientSymmetry == Permutations(Clients)
=============================================================================
