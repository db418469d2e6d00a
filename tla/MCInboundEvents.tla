-------------------------- MODULE MCInboundEvents --------------------------
(* Small instances of InboundEvents. *)
EXTENDS InboundEvents, TLC

CONSTANTS o1, o2, plan1, plan2, odd, torn, other, \* events
          pathA, pathB, labour,                   \* rows
          line1, line2, line3,                    \* work units
          p1, p2                                  \* partitions

Wr(r, x) == [row |-> r, item |-> x]

\* Two orders with the same two paths, in opposite orders, and a line of o1
\* that o2 allocates again, twice; two plans for one path.
WritesOf == [e \in Events |->
    CASE e = o1 -> <<Wr(pathA, line1), Wr(pathB, line2)>>
      [] e = o2 -> <<Wr(pathB, line3), Wr(pathA, line1), Wr(pathA, line1)>>
      [] e \in {plan1, plan2} -> <<Wr(labour, e)>>
      [] OTHER -> <<>>]

KindOf == [e \in Events |->
    CASE e = odd -> "rejected" [] e = torn -> "malformed"
      [] e = other -> "foreign" [] OTHER -> "handled"]

\* Orders on two partitions, an event that is always rejected behind one.
OrdersLog == (p1 :> <<o1, odd>>) @@ (p2 :> <<o2>>)

\* Plans on one partition, the first sent twice; on the other, what is not
\* meant for this service and what is no event at all.
PlansLog == (p1 :> <<plan1, plan2, plan1>>) @@ (p2 :> <<torn>>)

\* One plan after the other.
TwoPlansLog == (p1 :> <<plan1, plan2>>) @@ (p2 :> <<>>)

\* What is no event, an event for somebody else, and a plan.
TornLog == [p \in Partitions |-> <<torn, other, plan1>>]

ASSUME InstanceAssumption == OneHome /\ ViewsShowEvents
=============================================================================
