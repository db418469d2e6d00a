-------------------------- MODULE ThroughputStore --------------------------
(***************************************************************************)
(* What the throughput read model promises (the ProjectionStore port, as   *)
(* the in-memory store has it): an event, applied any number of times, in  *)
(* any order with others, counts once, in the row of its path and hour.    *)
(***************************************************************************)
EXTENDS Naturals

CONSTANTS Counters,   \* the counters of a row
          Events,     \* records with the fields path, at and type
          HourLength  \* how many ticks of the clock are an hour, at least one

VARIABLES seen,    \* the events applied
          rows,    \* the counters of each row there is
          latest   \* when the latest of the events applied occurred, 0 if none

vars == <<seen, rows, latest>>

HourBucket(t) == HourLength * (t \div HourLength)

RowKey(e) == [path |-> e.path, hour |-> HourBucket(e.at)]

Init ==
    /\ seen = {}
    /\ rows = [k \in {} |-> 0]
    /\ latest = 0

(* The row of a key; it is made, all zero, when it is first asked for. *)
RowOf(k) == IF k \in DOMAIN rows THEN rows[k] ELSE [c \in Counters |-> 0]

Apply(e) ==
    /\ e \notin seen
    /\ seen' = seen \cup {e}
    /\ latest' = IF e.at > latest THEN e.at ELSE latest
    /\ rows' = [k \in DOMAIN rows \cup {RowKey(e)} |->
                   IF k = RowKey(e) THEN [RowOf(k) EXCEPT ![e.type] = @ + 1] ELSE rows[k]]

Next == \E e \in Events : Apply(e)

Spec == Init /\ [][Next]_vars
=============================================================================
